# Tidemill in TLA+

Tidemill (`src/tidemill`) turns billing webhooks into subscription metrics.
This directory models it from the provider's objects to the figures of its
reports and to what its HTTP process keeps, checks the models with TLC on small
instances, and proves with TLAPS, for every instance, the main invariants of the
pipeline, of the billing and the expense side, of the churn, MRR and trial
metrics and of the HTTP process.

## The system

```
provider --webhook--> connector.translate --> Kafka tidemill.events (key: customer_id)
             (QuickBooks: fetch, then)           |        |         |
                                               state   metric:mrr  metric:churn ...   one group each
                                                 |        |         |
 fx_sync --> fx_rate -->                       PostgreSQL: base tables, metric tables,
                                               dead_letter_event  --dlq-replay--> tidemill.events
                                                 |
                          metrics' endpoints: cubes, segments, queries over the tables
                                                 |
                          report pages, dashboards, summary
```

| Part | State it keeps | Operations | What makes it correct |
|---|---|---|---|
| Event bus, `bus.py` | topic, committed offsets | publish, poll, commit | offsets only advance; one event per group is redelivered at most |
| Worker, `worker.py` | one task per group, its position, the event in hand | consumer loop, boot, shutdown | every event a group leaves behind was handled or is kept |
| Dead letters, `dead_letter.py`, `cli/main.py` | `dead_letter_event` rows | record, mark_resolved, dlq-replay | a resolved row was handled; an open row can be replayed |
| Connectors, `connectors/` | none (Stripe, Chargebee); QuickBooks fetches | translate, backfill | the events follow the provider's object |
| State consumer, `state.py` | customer, subscription, item, invoice, payment, bill, expense, ... | one upsert per event type | ends at the provider's objects, whatever was redelivered |
| Churn, `metrics/churn` | customer state, active subscriptions, churn events | handle_event, rates | the counter matches; churn is dated |
| MRR, `metrics/mrr` | snapshot, movements, usage buckets | handle_event, usage recompute, series, waterfall | ledger = snapshot = provider |
| Trials, `metrics/trials` | trial rows, audit log | handle_event, funnel | order-insensitive upserts |
| Retention, LTV | cohorts, paid invoices | matrix, NRR, GRR, ARPU | figures of a closed window are final |
| Expenses | none: reads bills and purchases | totals by account type, vendor | the totals are the books |
| FX, `fx.py`, `fx_sync.py` | `fx_rate` | to_base_cents, periodic sync, fx-sync --since | no gap between the first and the last stored day but where --since jumped |
| Attributes | definitions, typed values | metadata fan-out, API, import | one type per key, whoever writes first |
| Segments, `segments/`, `metrics/query.py` | stored definitions | compile to filters, select | a compiled statement means its definition |
| Tokens, `connectors/quickbooks/client.py`, `routes.py` | the company's OAuth tokens, in `connector_source` | connect, refresh, persist, retry after a 401 | the stored refresh token works |
| Workspace, `api/` | users, API keys, dashboards, sections, charts | authenticate, check, write | a dashboard is written by its owner alone, and whole |
| Startup, `migrate.py`, `bootstrap.py`, `api/app.py` | the schema, placeholder items, sources | migrate, backfill, wait | API and worker may start in either order |
| Report pages, `reports/`, `api/routers/metrics.py` | none | fetch, combine | what a page derives is what happened |
| Frontend, deploy | none of the core's | presentation | not modelled |

The parts interact through the topic and through PostgreSQL only. The hard
behaviour is

* between the two commits of the loop (database, then offset);
* in the dead-letter path that may itself fail, and in replays under another key;
* in event ids that repeat: `make_event_id` hashes source, type and object, so
  a second event of one type about one object has the id of the first;
* between consumer groups that read each other's tables at their own pace (the
  MRR usage lines, the churn rates, the customers' names);
* between webhook requests that fetch an object and publish it later;
* in a backfill that publishes history beside live webhooks;
* between the check and the write of two HTTP requests, between two clients that
  refresh one company's tokens, and between a migration and a running worker.

`PROJECT.json` lists every component with its status and every hazard with its
line.

## Modules

| Module | Code | Used by |
|---|---|---|
| `Delivery` | what `worker.py` promises, abstractly | `Worker`, `WorkerProofs` |
| `Worker` | `worker.py`, `bus.py`, `dead_letter.py`, `dlq-replay` | `MCWorker` |
| `ChurnHandler`, `MrrHandler` | the metrics' `handle_event` as functions on tables | below |
| `ChurnMetric`, `MrrMetric` | a provider, deliveries and faults around them | `MCChurn`, `MCMrr` |
| `SnapshotReports`, `LedgerReports` | the metrics' queries, of the present and of the ledger | `MetricEndpoints` |
| `MetricEndpoints` | the metrics' `query` and `routes.py` | `ReportPages`, `MrrMetric` |
| `ReportPages` | `reports/`, the summary | `Reports` |
| `Reports` | two groups, the customers a third one has stored, the retention metric, and the queries and pages over them | `MCReports` |
| `ConnectorBase` | canonical values, `compute_mrr_cents` | connectors, `CoreState` |
| `CoreState` | `state.py`, revenue side | `BillingPipeline` |
| `StripeConnector`, `ChargebeeConnector` | `translate`, `backfill` as functions | `BillingPipeline` |
| `BillingPipeline` | provider, webhooks, topic, state consumer, trials | `MCBilling` |
| `FxRates` | `fx.py`, `fx_sync.py`, `_to_base` | `PayablesState` |
| `PayablesState` | `state.py`, vendors, accounts, bills, expenses | `ExpensePipeline` |
| `QuickBooksConnector` | fetch and translation | `ExpensePipeline` |
| `ExpensePipeline` | books, requests, topic, state consumer, rates, metric | `MCExpenses` |
| `TrialUpsert`, `TrialMetric` | `metrics/trials` | `TrialProofs`, `BillingPipeline` |
| `AttributeIngest` | `attributes/` | `TrialSegments` |
| `SegmentQuery` | `segments/compiler.py`, `metrics/query.py` | `TrialSegments` |
| `TrialSegments` | the trial reports by segment, the segment endpoints | `MCSegments` |
| `SourceTokens` | `quickbooks/client.py`, the OAuth callback | `ApiProcess` |
| `Workspace` | `api/deps.py`, `routers/auth.py`, `api_keys.py`, `dashboards.py` | `ApiProcess` |
| `Startup` | `api/app.py`, `migrate.py`, `bootstrap.py`, `worker.py` start | `ApiProcess` |
| `ApiProcess` | the three, one per behaviour | `MCApi` |
| `...Proofs`, `DataLemmas` | theorems about the module they extend; sums and sequences | "What is proved" |

### Worker and Delivery

`Worker.tla` is the pipeline. A handler is abstracted to "its transaction
committed" or "it raised"; what it computes is the other modules' subject.

| TLA+ | Code |
|---|---|
| `log`, `committed`, `position` | topic partitions, broker offsets, the consumer's positions in memory |
| `pc`, `event` | where `_consume_state` / `_consume_metric` is, and its loop variable |
| `rows`, `mirrored` | `dead_letter_event` keyed by `uq_dlq_event_consumer`, `tidemill.events.dlq` |
| `replaying` | the rows a running `dlq-replay` has read and not yet published |
| `Publish`, `ReplaySelect`, `ReplayPublish`, `ReplayStop` | webhook route, `dlq_replay` |
| `Boot`, `Join`, `Crash` | `run_worker`, `EventConsumer.start`, process death or cancellation |
| `Poll` ... `GiveUp` | the loop body, one action per await that can be interrupted |
| `...Fail`, `...Dies` | the same call raising, and where the exception goes |

`begin` and `handled` are history. `Join` models `AIOKafkaConsumer` without
`auto_offset_reset`: a group with no committed offset starts at the end.
`consumer.commit()` commits the positions of all assigned partitions, and so
does `CommitOffsets`.

`Delivery.tla` says what a group is promised, with neither processes nor rows:
a log per partition, the place the group began at, the place it has come to and
what it has settled (handled, or kept to be handed back). It settles the record
at its place and then leaves it, one at a time. `Worker!Delivers` is that
specification under the mapping `started` <- the group has a committed offset,
`from` <- the offset it began at, `done` <- the offset its session stands on,
`settled` <- the events it has handled, that have a row, or that are mirrored.

### ChurnMetric

`ChurnHandler.tla` is `ChurnMetric.handle_event` as a function
`Handle(tables, event)`; `ChurnMetric.tla` adds a provider that emits the events
the Stripe connector makes of a subscription's life (`Turns`). What `Worker`
lets happen to a delivery is repeated as actions on the tables: `Deliver`,
`Redeliver` (crash between the commits), `Park` and `Replay` (dead letter,
replayed under the empty customer, because the payload holds no
`customer_id`), `Resend` (an old webhook again, at any later time).

### MrrMetric

`MrrHandler.tla` is `MrrMetric.handle_event` with the usage recompute of
`usage.py`; `MrrMetric.tla` drives it like ChurnMetric, with prices, pauses and
usage invoices. `stored` says which invoices the state consumer has written: it
is a consumer group of its own, so `StoreLines` may come before or after the MRR
consumer's `PayInvoice`. `odd` is history: the subscriptions whose events took a
course the ledger is known to be wrong about (below). `ltv` is the LTV metric's
table of paid invoices; usage revenue and cohort LTV are asked through
`MetricEndpoints` and compared with what was billed. Original-currency columns
are the base-currency ones at rate 1; the combined `mrr` columns are sums of the
two components and are left out; `Base` truncates as `int()` does.

### Reports, LedgerReports, MetricEndpoints, ReportPages

`LedgerReports.tla` holds the queries of the MRR, churn, retention and LTV
metrics as operators over sets of rows: `Within` is the closed date range,
`Waterfall`, `CohortMatrix`, `RevenueRetention`, `LogoChurn`, ... are the cube
queries and the Python after them, fractions kept as pairs. `SnapshotReports.tla`
has those that read the snapshot or the usage buckets. `MetricEndpoints.tla` is
the dispatch: route to query type to query. `ReportPages.tla` is what the pages
and the summary make of the answers: ratios, differences, what they do with an
empty frame (`Fails`), the filter by source.

`Reports.tla` runs the two handlers as two groups over one log, each behind by
at most `MaxLag` and redelivering its last event at will, and evaluates pages
and queries in every state for every window. `books` is history: what was really
paid after each tick. The retention metric's group keeps no state of its own
here: `RetentionTables(n, late)` is what its tables are when it has handled `n`
events, one of them a dead letter replayed at the end.

`customer_name` brings an inner join with the table `customer` (`query.py:507`),
which the state consumer writes. `named` is the set of customers that have a row
there; `StoreCustomer` and `DeleteCustomer` are that group's steps, at any time,
in any order with the two metrics', or never (a dead letter). The churn detail,
the revenue events and the movement log ask for the name (`Named`); rates, series
and breakdowns do not.

### BillingPipeline

`StripeConnector.tla` and `ChargebeeConnector.tla` are the translations, one
operator per webhook type, as functions from the provider's object (and Stripe's
`previous_attributes`) to a sequence of events. `CoreState.tla` is the state
consumer: `HandleState(tables, event)` and, separately, `Raises(tables, event,
fx)`, which collects what makes a handler raise (an unknown canonical value, a
missing rate, a customer that is still referenced). Rows keep the columns that a
later event reads, merges with COALESCE, or overwrites.

`BillingPipeline.tla` composes them: one action per act of the provider
(external; `Act` emits its webhook now or leaves it in `late`), `Arrive`,
`Resend`, `Replay`, `Backfill`, `RatesArrive`, and `Consume`, which handles the
head of a partition or sets it aside. Catalog events travel under the empty key,
so their partition and the customer's interleave. `steady` is history: whether
every webhook came once and in order and nothing was parked (`calm`), or a
backfill ended such trouble (`refreshed`). The trials metric handles the same
events (`HandledTrial`). `scene` splits the provider's objects in two, the
subscription with its catalog and the bills, to keep each instance small.

### ExpensePipeline

QuickBooks webhooks only name what changed. `Receive` fetches the object as it
is now and keeps the resulting events in `requests`; `Publish` puts them on the
topic one by one, so another request may overtake. `failed` is `get_entity`
returning None: the webhook is answered 200 and the change is skipped.
A transport error raises instead: the webhook is answered 500, nothing has
changed and the notice is still to come, which is no step of the model.
`StartBackfill` and `FetchType` are `tidemill backfill`, one entity type after
another. `Consume`, `Replay` and the dead letters keyed by `EventId` are the
worker's; `SyncRates` is one round of the FX sync, or a run of `tidemill fx-sync`
that may be given a day (`--since`), with failing requests and a feed that may
lack today's rate; `sinces` is history, the days such runs began with. `PayablesState.tla` has the five upserts and
the void and paid updates of `state.py`. `version`, `seen`, `orderly`, `early`
and `voids` are history.

### TrialMetric, AttributeIngest, SegmentQuery, TrialSegments

`TrialUpsert.tla` has the two statements of the trials metric,
`TrialMetric.tla` delivers trial events in any order and repeatedly.
`AttributeIngest.tla` splits every write in what it read (`BeginMetadata`,
`BeginDirect`) and its commit, as two transactions may interleave.
`SegmentQuery.tla` compiles a definition to legs and branches with named bind
parameters and evaluates the statement with the environment those names make, so
that a parameter bound twice is visible; `Validates` is the linter behind
`/segments/validate`. `TrialSegments.tla` puts the three together, stores,
edits and deletes a segment beside the trial events and the attribute writes,
and compares the answers of the trial endpoints with what the definitions say.

### SourceTokens, Workspace, Startup, ApiProcess

`SourceTokens.tla`: tokens are numbers in the order of issue; the provider's side
(`issued`, `good`, `live`, `overdue`) is external and may rotate a refresh token
or keep it. A client is one webhook request or one backfill, with its copy of the
tokens in `config` and its place in `_request`, `_ensure_access_token`,
`_refresh` and `_persist_tokens` in `step`. `spoilt` and `alone` are history.

`Workspace.tla`: a request authenticates, checks and writes in three steps, with
others in between; a write is the rest of its transaction and the foreign keys
are part of it. `by` records who wrote a row last. A chart may be put on a
dashboard by any user who names it: nothing in the code asks whose it is
(`dashboards.py:341-381`), and `Ask` does not either.

`Startup.tla`: the API's start is one transaction (`MigrateSchema`, `Backfill`,
`Serve`), the worker waits for the tables and then replaces items of
subscriptions in transactions of two statements. `crossed` is history.

They share no tables, so `ApiProcess.tla` lets a behaviour be about one of them
(`scene`) instead of multiplying their states.

## What the runs check

| Run | Instance | States | Shows |
|---|---|---|---|
| `worker` | 2 groups, 2 partitions, 2 occurrences, logs of 2 and 1, 1 fault among crash, commit, mirror, resolve | 2.0 million | `Replayable`, `ResolvedWasHandled`, `RedeliveryWindow`, `OffsetsNeverRewind`, `Delivers` |
| `worker_live` | 1 group, logs of 3 and 1, two webhooks with one id, 3 faults among crash, record, resolve | 193 thousand | `NoSilentLoss`, `EventuallyPassed` |
| `churn` | 2 subscriptions of 1 customer, 6 events, 2 faults | 950 thousand | `CountMatches`, `ChurnedHasNone`, `FollowsProvider`, `ChurnIsDated`, `RedeliveryIsIdempotent` |
| `mrr` | 2 subscriptions of 1 customer, 2 prices, 2 usage invoices in different months, window 2, 5 events, 1 fault | 1.7 million | `LedgerMatches`, `SnapshotFollows`, `UsageIsBilled`, `ClassifiedRight`, `RedeliveryIsIdempotent` |
| `billing` | Stripe or Chargebee, one object of each kind, 4 acts and faults together, 2 of them faults | 1.1 million | `TypeOK`, `RedeliveryChangesNothing`, `AmountFollows`, `ItemsAddUp`, `NothingLost`, `BillsFollow`, `PaidIsReal`, `TrialOutcome` |
| `expenses` | one bill of two lines in a foreign currency, one purchase, one payment; 2 changes, 2 requests at a time, 1 backfill, 1 fault; a run of fx-sync --since counts as a change | 1.8 million | `VoidedStaysOut`, `LinesAddUp`, `BooksMirrored`, `ExpensesAreTheBooks`, `OnlySinceLeavesGaps` |
| `reports` | 3 subscriptions of 2 customers at 2 sources, 7 events in 2 months, groups 1 event behind, 1 customer that the state consumer stores and deletes at will | 118 thousand | `HistoryIsRevenue`, `ChurnAgrees`, `ClosedWindowsStay` |
| `segments` | 2 trials of 2 customers, 4 trial events, 1 attribute key, 3 writes, 8 queries over nested, empty, numeric, pattern and overlapping segments, one of them edited | 55 thousand | `StartIsEarliest`, `AuditAgrees`, `SegmentMeans` |
| `api` | 2 clients of 1 company, 3 tokens, 1 fault; 2 users with 2 requests at a time, 2 dashboards; 2 subscriptions at startup | 3.9 million | `StoredTokenWorks`, `CallsSucceed`, `DashboardsAreWhole`, `StartOrderIsFree` |

Every bound is a named constant:

* `MaxLog`, `MaxClock`: events. Six churn events fit created, activated,
  churned, activated again and a second subscription; five MRR events fit a
  subscription that churns and a second one that returns; seven report events
  fit two windows of one customer's churn with the other one paying.
* `MaxFaults`, `MaxTurns`, `MaxBoth`: faults, acts of the provider, and both.
  Two faults are what a delayed webhook and its repetition, or a dead letter and
  a backfill, need; four turns reach subscribe, change, cancel, delete, and
  issue, fail, pay, refund.
* `MaxChanges`, `MaxRequests`, `MaxBackfills`: a bill that is entered and paid,
  edited and voided; two requests are enough for one to overtake. The days that
  runs of fx-sync --since began with count among the changes.
* `MaxLag`: with a lag of one a query sees an event that one group has handled
  and the other has not.
* `Unstored`: the customers whose row in `customer` comes and goes, one of two;
  the other has its row throughout.
* `Happens`: the kinds of event a subscription meets, each at most once. One
  lives every life (canceled ahead, paused, resumed), the others are created,
  activated and churned. In `reports` one is paused and resumed, another of the
  same customer becomes cheaper and is canceled ahead; nothing becomes dearer
  there, so of what counts as a gain it has new and reactivated revenue.
* `MaxWrites`, `Edits`: a metadata and an API write that race, and one more; one
  segment takes three definitions, one of which the linter refuses.
* `LifetimeDays`: the summary's rolling window, shorter than the history.
* `MaxTokens`, `MaxTokenFaults`: connecting, one refresh by each client, and a
  lost answer or an outage among them.
* `MaxAttempts`: how often the worker looks for the schema before it stops.

Two subscriptions of one customer are what the counter, the last-subscription
rule and the classification of activations need. One customer besides the empty
one is enough in `churn` and `mrr` because every statement of the handlers
touches the rows of the event's own customer. Two groups show that one group's
row, offset or success does not leak to the other, two partitions that a replay
overtakes.

Larger instances that were run once, with the same result: `expenses` with two
faults (3.7 million states), `churn` with one subscription and four faults,
`mrr` with one subscription and three faults; `reports` with a subscription that
also becomes dearer (168 thousand states, too long for a routine run); `billing`
with four turns, three faults and five of both (11.2 million states). The last
one showed that an `invoice.created` that was dead-lettered and is replayed after the payment
leaves `paid_at` NULL on a paid row; `BillsFollow` speaks of the date in
undisturbed histories only. Each part of the billing and MRR invariants below
was checked on the instances of `billing` and `mrr` before it was proved, but for
`BillsDue`, whose quantifier over the objects before a turn TLC cannot enumerate.

`mrr` does not reach the trimming of the mean to the window (it needs three
months); the operator is checked for fewer months than the window only.

`mrr_usage_redelivery` looks at subscriptions that nothing else went wrong with
(`odd`): their invoice lines were stored before the invoice was handled, so the
first handling fills the bucket and the second one doubles it.

`CHECK_DEADLOCK FALSE` is set because every model stops at its bounds.

Runs that find a disagreement with the documentation:

| Run | Documentation | Code |
|---|---|---|
| `worker_new_group` | a new consumer group starts at offset 0 and backfills | it starts at the end of the log |
| `mrr_trial` | MRR is the revenue of active subscriptions | churn subtracts what was never added |
| `mrr_usage_redelivery` | handling an event twice is handling it once | usage is added to its bucket again |

## Where properties are conditional

Much of what the code does after a fault is not what its documentation says. A
property that speaks of regular histories names the condition, and the condition
is as weak as TLC accepts.

* `MrrMetric` (`Regular`, `odd`): no repeated ids, price changes, churns and
  pauses of active subscriptions only, resumption of a paused one, invoices paid
  while active and after their lines were stored, nothing resent or
  dead-lettered. The rate is 1 and constant. With a fractional rate the ledger
  gets the truncated difference of two prices and the snapshot the truncated
  price, so `LedgerMatches` parts by up to a cent per change; with a drifting
  rate the amounts subtracted are not those added, and `ClassifiedRight`, which
  goes by the sign of the sum, can be wrong.
* `BillingPipeline`: `BillsFollow` compares rows with the provider's objects in
  calm histories only (`BillsFollowCalm`), because a backfill does not repair
  coupons, credit notes, void dates or refunds, and an `invoice.created` that
  comes late overwrites status and total; that a paid row has its date it says
  after a backfill as well. `RedeliveryChangesNothing`, `PaidIsReal` and
  `NothingLost` hold without conditions. `AmountFollows`
  and `ItemsAddUp` also hold after a backfill.
* `ExpensePipeline`: `BooksMirrored` excludes a failed fetch, a request that
  overtook an older one, and a dead letter replayed after, or dropped because of,
  another event of its object; `ExpensesAreTheBooks` also excludes documents
  that were handled before their day's rate was stored. `VoidedStaysOut`
  and `LinesAddUp` hold without conditions. `OnlySinceLeavesGaps` says where a gap
  can be: below a day that a run of fx-sync --since began with, down to the last
  day that was stored then, until such a run begins on the missing day or before
  it. (`--since` is meant for the past, `cli/main.py:224-228`; with a day after the
  last stored one it leaves a gap that no incremental synchronisation fills.) In the base currency
  `LinesAddUp` allows less than a cent per line: header and lines are converted
  one by one and cut each time.
* `Reports`: the provider's histories are regular in the sense above; a figure is
  compared when both groups have handled all that is dated up to the window's end.
  The tables with names hold the customers that the state consumer has stored, and
  `HistoryIsRevenue` says what they hold of those; the rates beside them count
  everyone. `ClosedWindowsStay` says of these tables that the rows a customer has,
  or would have if it were stored, are final: which customers are shown is not.
  Each month of a trend is compared for windows on whose first day nothing moved.
* `TrialSegments`: `SegmentMeans` speaks of reports whose definitions the linter
  accepts, and excludes two conditions that share a parameter, values of another
  type than their key's, columns the customer table does not have, and customers
  that are not known yet (below).
* `SourceTokens`: `StoredTokenWorks` excludes a rotation that was never stored,
  and a refresh that overlapped another one or a new connection (`spoilt`);
  `CallsSucceed` speaks of clients that nothing interfered with since they loaded
  their tokens (`alone`).
* `Startup`: `StartOrderIsFree` excludes the subscription whose event was handled
  across the API's insertion of placeholders (`crossed`).

## What else the models brought out

Differences between the code and its documentation, or consequences of the code
that a reader should know. The runs above avoid them by the stated conditions.

Connectors and state:

* Stripe statuses such as `incomplete` and `unpaid` are passed on verbatim
  (`stripe/connector.py:616`); `state.py:456` raises for them
  (`docs/architecture/canonical-vocabulary.md:66`).
* `_sub_occurred` never uses the webhook's time; a backfilled canceled
  subscription is dated at its creation, a backfilled unpaid one is reported as
  `trial_converted`.
* A Stripe refund names the charge, not the payment, so it reaches no payment row.
* A Chargebee cancellation emits `canceled` and never `churned` until the
  subscription is deleted; a scheduled or withdrawn cancellation emits nothing;
  trialing to past_due to active emits no `trial_converted`.
* A plan switch at equal MRR emits nothing; `plan_id` stays NULL when the
  catalog event is handled after the subscription's.
* `invoice.paid` handled before `invoice.created` is lost;
  `customer.deleted` raises once the customer is referenced.
* Chargebee items carry no currency and their metered lines are never `usage`.
* An item that moves between subscriptions, with an unknown plan, is not
  idempotent under redelivery.
* A dead letter is resolved by any event with its id, another payload included.

Expenses:

* Two requests may publish an older copy after a newer one, or after a void; a
  fetch that fails is answered 200 and skipped.
* `bill.paid` while `bill.created` waits among the dead letters changes nothing;
  a payment before its bill keeps `bill_id` NULL.
* Two `bill.updated` share an id: the second dead letter is dropped.
* The total of the expenses metric is a sum of lines cut one by one, so it may
  fall short of the sum of the headers by up to a cent per line.
* `detect_currencies` ignores bills, contrary to the head of `fx_sync.py`.
* A "Merge" is treated as a creation; account deletions are ignored.
* A backfill gets the stored row as its whole config, without `client_id` and
  `client_secret`: it cannot refresh, and ends at the first expired token.
* A rotated refresh token is lost when the process stops before it is stored, or
  when storing it fails, which is logged at debug level only; a client that
  refreshed without a rotation stores its old refresh token over another's new
  one. The company must then be connected again.

Metrics and queries:

* A deleted trial that was never active records a logo, although
  `docs/definitions.md:132` speaks of the last active subscription. A logo may
  be filed under the empty customer when a churn was replayed first.
* A second change of a subscription has the id of the first, so its movement is
  dropped (`events.py:33`, `mrr/metric.py:320-331`; `docs/definitions.md:96`).
* A subscription that was created and not activated counts in the current MRR,
  ARPU and active customers, and not in the historical ones.
* `/metrics/mrr` and `/metrics/arr` with `start` and `end` answer what moved in
  each period (twelve times it for ARR), not the MRR of the period
  (`docs/architecture/api.md:167-168`; `mrr/metric.py:438-456`, `524-542`).
* The summary computes its `start` and does not use it (`routers/metrics.py:64`);
  its `active_customers` counts subscriptions; its LTV, and the LTV page, divide
  the current ARPU whatever the end of the window.
* The churn page prints a count of churned customers that were active at the
  start beside a rate whose numerator also has customers who had churned before
  the start and returned inside the window (`docs/definitions.md:140-143`).
* `breakdown` and `quick_ratio` of a window without movements, and `trend`,
  `waterfall` and `monthly_lost_mrr` of a window within one month, fail on a
  missing column (`Fails`; `mrr/metric.py:575`).
* `metric_retention_cohort` keeps the month of the event handled first, without
  the LEAST that the trials use: two events handled late can leave a later month.
  The cohort page reads the ledger and not this table.
* The waterfall counts the window's first day twice, in the baseline and in the
  first month (`mrr/metric.py:571`), though `docs/definitions.md:117-124` lets the
  first month start from the MRR at the beginning of the range. A subscription
  activated on the first day of a range of two months makes the first month end
  at twice what is paid. `HistoryIsRevenue` speaks of the months of the windows
  without a movement on their first day.
* A customer whose `customer` row is missing (its event waits, or is a dead
  letter) is left out of the churn detail, the revenue events and the movement
  log, so their sums fall short of the rates and of the waterfall
  (`churn/cubes.py:46`, `mrr/cubes.py:220`, `query.py:507`).
* Churn numerators include customers who were not active at the start
  (`docs/definitions.md:141`); NRR and GRR include those who joined in the
  period; the windows of simple LTV overlap by a day; revenue churn leaves out
  usage MRR (`docs/definitions.md:161`); the cohort of the ledger is the month
  of the first `new` movement, that of the retention table the first `created`.

Segments and attributes:

* Two conditions with one operator on one field share a bind parameter
  (`docs/definitions.md:367`); a universe with `started_at between` overrides
  the report's window; keys `a-b` and `a_b` become one name and one join.
* The linter does not look at the columns of the customer table, although its
  docstring says that every field resolves: a definition it accepts may be
  answered 500. It refuses an empty group and an empty definition, which are
  saved all the same; in an OR an empty group is dropped, and an empty definition
  filters nothing.
* `/segments/validate` without a metric is always 400: it tries every registered
  metric, and the expenses metric has no cube (`api/schemas.py:133-135`).
* The series of a comparison has rows that do not name their segment.
* A comparison's branches join the customer table and drop rows of customers
  that are not known yet.
* A metadata key the customer has no row for gets the type inferred from its
  value, not the one in the registry, so it may be stored in a column no query
  reads.

HTTP process:

* Two first requests of a user race for the insertion: one is answered 500. So
  is a chart that is added to a dashboard twice, or that does not exist.

## Fairness

`FairSpec` of Worker assumes weak fairness of `Boot` (the deployment restarts
the process), of `Join` and of `TaskStep` per group: each group is an asyncio
task of its own, and no task waits for another. No fairness is assumed of
faults, producers or replays. A task that died of a failed `consumer.commit()`
is not restarted by anything in the code, so `EventuallyPassed` is checked
without commit outages. The other modules state safety only: what "eventually"
means for them is that `Worker` passes every event.

## What is proved

`WorkerProofs.tla` (of any groups, partitions, logs, faults):

* `TypeCorrect`, `WindowHolds`, `OffsetsForward`. `WindowInv` is the
  strengthening: per group, the position is the offset base of the session or,
  on the partition of the event in hand, one more. It is needed because
  `CommitOffsets` commits every partition's position, so an offset could rewind
  or skip if a second partition were ahead.
* `NothingForgotten` (`Replayable`), assuming unique ids and that the row can
  be written (`"record" \notin Outages`). The induction carries, for each `pc`,
  what is already settled about the event in hand (`KeptStage`), and that each
  row is about the occurrence of its id (`RowInv`).
* `NothingSilentlyLost` (`NoSilentLoss`), assuming only that the mirror topic
  can be written.
* `ResolvedSound` (`ResolvedWasHandled`), assuming unique ids.

* `PipelineDelivers`, the refinement of `Delivery`, assuming that the mirror topic
  can be written, or that ids are unique and rows can be written. Initial states
  map to initial states; every action of `Worker` maps to one of `Delivery` or to
  a stutter, one step of the proof per action, with the invariants above as
  lemmas. Settling is `Handle`, `Record` or the mirror's record; leaving is the
  end of the loop's body, after which nothing returns to the event unless the
  process starts again from the committed offset. `AnsweredAlways` is the lemma
  that what is left was settled.

`ChurnProofs.tla` (of any subscriptions, customers, events, faults):

* `TypeCorrect`; `CounterCorrect` (`CountMatches`) and `ChurnedMeansNone`
  from the invariant that tables are well typed, the tracked set is finite,
  the counter is its cardinality and a churned customer counts 0.
* `RedeliveryHarmless`: the invariant `Handle(tables, last) = tables`, from the
  lemma `HandleTwice` (handling an event twice is handling it once, for all
  tables).
* `Follows` (`FollowsProvider`).
* `ChurnsAreDated` (`ChurnIsDated`), for histories in which no two churned
  events share an id. Two parts make it inductive: a delivered event is one that
  was emitted, perhaps with an empty customer (`Original`); and emitted events
  carry their subscription's customer, while a delivered event and every logo
  entry come from an emitted one with the same id and date (`Traced`). Without
  the second, `ON CONFLICT DO NOTHING` could keep an older entry of another date.

`TrialProofs.tla` (of any subscriptions, dates and events, in any order):
`TypesKept`, `StartsAreEarliest` (`StartIsEarliest`) and `AuditsAgree`
(`AuditAgrees`), from the lemma `HandleTrialRow`, what one event makes of a row.
`TrialsAssumption` says that no outcome is dated before a start of the same
trial; without it the LEAST of a placeholder would keep the outcome's date.

`DataLemmas.tla`, cited by the next three:

* What `MapThenSumSet` returns: the sum over no element, one element more or less,
  two disjoint sets, equal summands, the parts of a partition. The library defines
  it with a fold over a set; the lemmas unfold the fold once and go by induction on
  the finite set (`StrongInduction`, `FiniteInduction`), with the predicate given
  as the set of the subsets that have it, since a lemma cannot take an operator
  here.
* What a sequence holds after it was extended, joined, consumed, shortened by
  `RemoveAt`, changed in one place, flattened by `FlattenSeq` or listed by
  `SetToSeq`; a finite set of integers has a least and a greatest member.

`MrrProofs.tla` (of any subscriptions, customers, invoices, prices, faults):

* `MrrTypes` and `MrrRedeliveryHarmless` (`RedeliveryIsIdempotent`), from the
  lemma that an event handled twice is handled once, for all tables and every
  event but `invoice.paid`. The invariant is that of the churn metric: the last
  event is one the tables would not change for.
* `SnapshotFollowsProvider` (`SnapshotFollows`) and `LedgerMatchesRevenue`
  (`LedgerMatches`), from `MrrLedgerInductive`: for each subscription that is
  not `odd`, snapshot, provider and the sum of its movements agree (`Sound`).
  The sum alone is not inductive: a movement is dropped by `ON CONFLICT DO
  NOTHING` when its id is taken, so the invariant also says that every movement
  comes from an event that was sent (`Marked`), hence that the next one is new.
  That the
  history query and the waterfall answer this sum (`QueriesAgree`) comes from
  splitting the movements by subscription and by date.

* `UsageReachesRevenue` (`UsageIsBilled`), from `BilledInductive`: the bucket of a
  regular subscription's month is the sum of the invoices paid for it, its usage
  component is the mean of the latest buckets, and `metric_ltv_invoice` has
  each paid invoice once. That `Window` months are the latest of at least as many
  (`LatestCount`) takes an induction on the set of months; that the usage routes and
  the cohorts answer what was billed takes grouping the invoices by their bucket's
  row, by customer and by their customer's cohort (`SumParts`).
* `ActivationsAreClassified` (`ClassifiedRight`): the code tells a reactivation by
  the sign of the sum of the customer's earlier movements. `OwnedInv` adds to the
  ledger's invariant whose each movement is, so that the earlier movements are
  those of the customer's subscriptions; each of them comes to what its
  subscription is worth, so the sum is zero exactly when nothing is active.

  All but the first two assume `AtRateOne`: the base currency's rate is 1 on every
  day. At other rates the properties are false (above).

`BillingProofs.tla` (of any number of turns, faults, resent and parked events):

* `BillingInductive`: the streams on the topic, in `late` and among the dead
  letters hold only what the connectors reported (`Sound`: `invoice.paid` only
  of an invoice that is paid now, `customer.deleted` only of a customer that is
  gone, ...), the tables are well formed, and every object of the provider has
  its row or an event that makes one waiting in a partition, late or parked
  (`Kept`). It needs one lemma per operator of the two connectors (which events
  it returns, whose object they name), one per upsert of `CoreState` (which
  tables it leaves alone, which row it makes, that no row goes away except by
  `customer.deleted`), and that a paid invoice, a gone customer and an existing
  object stay so through every act of the provider.
* `BillingRedeliveryHarmless` (`RedeliveryChangesNothing`): a crash between the
  two commits has the state consumer handle an event again, to no effect, for
  every event type.
* `OnlyPaidInvoicesArePaid` (`PaidIsReal`).
* `ObjectsReachTheTables` (`NothingLost`): with the topic empty and nothing late
  or parked, `Kept` leaves only the rows.
* `BillingTypes` (`TypeOK`), from `TypesAlways`. A row holds what events brought,
  and events hold what the provider's objects were, so the invariant `TypesInv` has
  a part for each: the objects (`Shaped`: a paid invoice is dated, a trial that is
  not over has an end, an amount is that of the plan), everything ever reported
  (`Formed`: its key, the object it is about, amounts, statuses and dates of the
  right sets) and the tables (`Typed`). `TurnIs` restates the provider's actions as
  a relation between its objects before and after an act and the events
  (`Turned`), by which each connector's events are shown to be formed; `SubEffect`,
  `InvoiceEffect`, ... say what an event makes of its row, column by column.

* `BillingAmounts` (`AmountFollows`), `BillingItems` (`ItemsAddUp`) and
  `BillingTrials` (`TrialOutcome`), from `UpcomingAlways`. These hold only in
  certain histories, so the invariant `Upcoming` speaks of the queue: what is due of
  the subscription (`Due`: its row, its amount, no end, its end, its items, the
  outcome of its trial) either holds of the tables and no waiting event undoes it,
  or some waiting event makes it so and none after that undoes it (`Comes`). An act
  of the provider appends a stream that leads to what is then due (`SubNews`, shown
  of each connector's translations), a handled event turns what it says
  (`SubTurns`) and spares the rest (`OthersTurn`), and a backfill brings all that is
  due again (`BackfillBrings`). Two exceptions had to be put into the invariant: a
  creation in a status that is not canonical is on its way to the dead letters
  (`Doomed`), and that a Stripe subscription in its trial was never ended, which no
  event of a backfill says, is true of everything ever reported (`Fresh`).

* `BillsAreFollowed` (`BillsFollow`), from `BillsDue` on top of them. In a history
  that nothing disturbed at most one event waits under the customer's key, so the
  rows are those of the provider's objects, or of the objects before the turn that
  this event reports (`Reports`: one event per turn of an invoice, a payment or a
  credit note, `BillTold`); `BillHandled` shows that handling it makes the row what
  the object became. The coupon waits in the other partition, and the date of a
  paid invoice is due after a backfill too (`BackfillDates`: the payment is reported
  after the creation, which leaves a paid row without a date); both come as what is
  due of the subscription does (`Comes`).

  They assume `NoRowIsNoRecord`: the value that stands for an absent row is not
  a record. It is a hypothesis of the theorems and not an ASSUME, as TLC gives
  `NoRow` a model value, whose DOMAIN it cannot evaluate.

`ExpenseProofs.tla` (of any books, rates, changes, requests, backfills, faults):

* `GapsComeFromSince` (`OnlySinceLeavesGaps`). `GapsJumped` says the same between
  any two stored days, which is inductive: an incremental
  synchronisation writes nothing before the last stored day, and from there on
  whatever has a quote; one that was given a day writes whatever has a quote from
  that day on, so that what it leaves missing lies below that day and, if it was not
  missing between stored days before, above the last stored one.
* `ExpenseInductive`: besides, every document in the books adds up, also when a
  payment changes its balance (`BooksOK`); whatever is on its way, in a request, on
  the topic or among the dead letters, is of a type that its object's handler knows,
  and an upsert's lines add up (`Messages`); and so do the rows (`TableOK`). It
  needs one lemma per operator of the connector.
* `VoidedNeverCounts` (`VoidedStaysOut`). `OneRowChanges`: an event changes one row
  at most, an upsert writes it, another event marks it; `UpsertKeepsMarks`: the
  conflict clause leaves the mark of a voided row alone.
* `StoredLinesAddUp` (`LinesAddUp`). `OneRate`: a payload whose conversion does not
  raise is converted with one rate throughout (that of the base currency is `Unit`,
  and if all amounts are zero any will do). `CutApart`: cutting two amounts apart or
  together differs by a cent at most, hence `CutLines` by induction on the lines.
* `BooksAreMirrored` (`BooksMirrored`). The property speaks of a company at rest,
  so the invariant `Following` speaks of the way there: as long as nothing
  overtakes (`orderly`), what a row lacks is still to be fetched (a notice, or its
  kind's turn in the backfill), is in `Flight` (the topic, followed by what each
  request has left), or waits among the dead letters (`Arriving`). The last message
  about an object is the one that counts because no message is newer than its object
  (`Versions`), none follows a newer one or one that was handled (`Sequenced`), and
  one of the present version says what the books say (`Present`). What was never
  deleted is nowhere said to be (`NeverGone`), what was never there is not mentioned
  (`NeverThere`). That a paid bill's row says so takes more (`Paid`): its
  `bill.paid` is dropped unless the row is there or is written by an event before it.
  A change adds notices, reading the books adds what they say to the end of
  `Flight`, appending it to the topic leaves `Flight` as it is and a delivery takes
  the first off: one lemma for each kind of step (`FollowBooks`, `FollowReading`,
  `FollowBackfill`, `FollowStill`, `FollowParking`, `FollowStoring`).

  Proving it corrected the property: a payment that was in the books before the
  company was connected was said to be a row at rest, which it is after a
  backfill or its next change only (`Told`), as for bills. The run never had such
  a payment without a backfill.

* `ExpensesFollowTheBooks` (`ExpensesAreTheBooks`). Besides the mirrored rows it
  takes that a row's lines are worth what their amounts are at the present rates
  (`RowsOK`), except for documents that were handled before the rates of their day
  were there (`early`): a synchronisation writes the feed's quotes and nothing else,
  so the rate of a day stays unless a quoted day is missing after the day it was
  taken from (`RateKnown`, `SyncKeepsKnown`). The total is then taken
  document by document, and each breakdown key by key (`SumParts`); a slot of the
  series asks for the lines of one day, which are those of the window on that day
  (`LinesOfDay`).

  All but the first two assume `NoRowIsNoRecord` too, and the last two that
  `NoObject`, which stands for what the books do not have, is no record either
  (`NoObjectIsNoRecord`). That the company's documents are documents and add up when
  it is connected and when they are edited (`BooksAssumption`) is an assumption on
  QuickBooks, which does not save others.

`ApiProofs.tla` (of any subscriptions, clients, users, requests and bounds):

* `StartsInAnyOrder` (`StartOrderIsFree`). `StartInv` adds what the two open
  transactions have seen: placeholders wait to be committed only for
  subscriptions without items, and a handler that does not cross the insertion
  has deleted all there was.
* `TokensInductive`, with `StoredTokensWork` (`StoredTokenWorks`) and
  `CallsOfLonersSucceed` (`CallsSucceed`). Between the answer of a refresh and
  its storing, the stored token is already dead: `StoredInv` says that then some
  client still holds the answer, or the history was spoilt.
* `WorkspaceInductive` and `DashboardsStayWhole` (`DashboardsAreWhole`): what is on
  a dashboard its owner put there, whoever's the chart is. A request writes what it checked earlier.
  `Promise` is what of its check is still true at the write whatever others did
  in between: rows may have gone, which the foreign keys notice, but ids are not
  used again and no row changes hands.

The assumptions on the constants are `ConstantsAssumption`,
`SentinelAssumption`, `TrialsAssumption`, `CustomersAssumption`,
`RowAssumption`, `HandlerAssumption` (the subscriptions, customers and invoices are finite,
their keys are distinct, `CustomerOf`, `RateAt` and the like are functions),
`BillingAssumption` (sentinels differ from the values they stand in for),
`RatesAssumption` (the days are an interval, the feed has a rate or none for each),
`ObjectsAssumption` (finitely many objects, each of one kind), `BoundsAssumption`
and `BooksAssumption` of the modules, which TLC evaluates on its instances.

Only model-checked:

* `EventuallyPassed`: liveness.
* `Reports`: the pages' figures, over two groups at different places of one log.
* `SegmentMeans`, as `SegmentQuery` is recursive over the tree of a definition.

## Not modelled

* Notebooks, charts, styling and frontend: presentation of what the pages
  compute. The notebooks are about 40 % of the repository's counted lines, most of
  them stored output.
* Cookies, JWT encoding, the OAuth login of users, listings; `init-db`; the DDL.
* Malformed records (one that is not JSON ends a consumer task, `bus.py:78`),
  partition rebalancing between several worker processes and Kafka's own
  failures: the repository deploys one worker.
* Signature checks, paging.
* Series at other grains than the month (trials: two grains; expenses: the day),
  the dimensions of a cube, measures other than counts in a segmented query, the
  SQL text itself.
* The registry's order of the metrics (`registry.py:64`), a topological sort run
  once at startup.

## Plan

1. The trimming of the usage mean and a fractional rate, in runs of their own.
2. The dimensions of a cube, and two worker processes that share a group.
