# Verification of the order orchestrator

TLA+ models of the order orchestrator: the transactional outbox with its retries
and dead letter queue, the order saga with its compensation, the creation of
orders with its idempotency key and identifiers, and the composition of outbox,
consumer, saga and failure rules. TLC checks them on small instances; TLAPS
proves the safety properties that hold for every value of the constants.
`PROJECT.json` lists components, runs, mutants, hazards, theorems and the source
lines of every definition.

## 1. Inventory of the system

Sources are under `src/src/`; `orders/` is `src/src/orders/`.

| Component | State | Operations | Interacts with |
|---|---|---|---|
| Outbox processor, `orders/outbox-processor.service.ts` | table `outbox_events`; in memory `activeDispatchCount`, `shuttingDown`, the timer | `dispatchPending` (timer or HTTP), `processSingleEvent`, `onModuleDestroy` | event consumer, DLQ, process life |
| Dead letter queue, same file | table `dead_letter_events` | dead-lettering, `reprocessDlqEvent`, `reprocessDlqBatch` | outbox rows |
| Worker process, `worker.ts`, `worker.module.ts` | life of the process | shutdown hooks, health | outbox processor |
| Event consumer, `orders/order-event-consumer.service.ts` | none | `consume` | saga, failure injection |
| Saga orchestrator, `orders/saga-orchestrator.service.ts` | the `CompensationContext` of each run | `handleOrderCreated`, `reprocessFailedOrder`, `executeSaga`, `compensate` | orders service, audit log |
| Order aggregate, `orders/entities/`, `orders/order-state-machine.service.ts` | rows of order, payment, inventory reservation, shipment | `assertTransition`, `applyStatusSideEffects` | saga, orders service |
| Orders service, `orders/orders.service.ts` | tables of the aggregate, outbox rows | `create`, `updateStatus`, `forceStatus` | state machine, outbox, UUIDv7 |
| Audit log, `orders/audit-log.service.ts` | table `audit_logs` | `log` | saga |
| Failure injection, `orders/failure-injection.service.ts` | rules in the memory of one process | `setRule`, `throwIfConfigured` | saga, consumer |
| UUIDv7, `common/utils/uuidv7.util.ts` | last timestamp and sequence | `generateUuidV7` | orders service |
| Seed script, `scripts/seed.ts` (under `src/`) | rows of one order | `run` | tables of the orders service |
| HTTP layer, telemetry | none the program reads back | | |

What makes each component correct:

- outbox: an event is processed by one dispatch at a time, retried at most
  `maxRetries` times after its time has come, published or dead-lettered in the
  end, and not forgotten when a process stops;
- DLQ: it holds exactly the dead-lettered events; reprocessing gives an event a
  fresh start and nothing else;
- saga: an order ends SHIPPED as a whole or FAILED as a whole, compensation goes
  in reverse, and the audit trail and the outbox tell what the rows say;
- orders service: one order per idempotency key, rows and outbox event together,
  an answer for whoever sends again, no order lost to an identifier collision;
- the whole: an order that was accepted is decided or its event is still queued,
  and its saga is run once unless an operator asks for another run.

Hard behaviours: every `await` is a point where another dispatch, request or
process runs, where a database call can fail and where the process can die. Two
processes (API and worker, `package.json` `start:api` and `start:worker`) share
the tables and nothing else. `PROJECT.json` lists the hazards one by one.

## 2. Plan

Done:

1. `EventLifecycle`, `OutboxProcessor`: outbox, DLQ, process life, refinement
   of the abstract lifecycle, and the proofs of the safety properties.
2. `OrderAggregate`, `SagaOrchestrator`: saga, compensation, operators, and the
   first proofs.
3. `UuidV7`, `OrderRegistry`, `OrdersService`: creation of orders as a refinement
   of a registry, with the seed script beside it.
4. `FailureInjection`, `OrderOrchestrator`: composition of outbox, consumer, saga
   and failure rules, and what a redelivered event does (`src/README.md:220`).
5. Proofs of all the invariants and action properties that runs find to hold: the
   outcomes of the saga under one run per order; idempotency, completeness and
   the refinement of `OrderRegistry`; the composition, whose proofs rest on those
   of the outbox and of the saga.
6. Two more promises of the documents that the code does not keep, as violation
   runs: the burial boundary and an order that a failed compensation strands. The
   end of a drain; the payment of an order under racing updates, proved for any
   number of runs and operators.

Next, in this order:

7. Proofs about the composition beyond its own properties: what the saga
   guarantees for any number of runs (`ShippedHasShipment`, `StatusAnnounced`,
   `PaymentMatchesStatus`) carried over to it, and the outcomes while no order
   has two runs.
8. Operators who change a status directly in the composition.
9. A proof of the first half of `RequestsAnswered`, from `IdentifiersIncrease`.

## 3. Modules

Common conventions: a step is what runs between two awaits. A TypeORM
transaction is one step. Reading a row and saving it changed is one step where
what was read does not decide what is saved, and two steps where it does
(`updateStatus`, `reprocessDlqEvent`, `processSingleEvent`). History variables
are named as such and influence no action. Definitions commented "faulty
variant" are not part of any specification: each replaces the definition it
precedes, to show that a property notices the mistake.

**EventLifecycle** is what the outbox promises: each event is absent, queued,
inflight, delivered or buried; which moves between these there are; and, as a
liveness property, that a queued or inflight event settles.

**OutboxProcessor** is the code. `outbox` and `dlq` are the two tables, `pc`,
`forced`, `batch`, `claim` and `loaded` the local state of an activation of
`dispatchPending`, `targets` and `found` that of `reprocessDlqBatch`, `life` and
`active` a process and its `activeDispatchCount`. Each call of the code is an
action: `DispatchPending`, `SelectBatch` (the query), `Claim`/`ClaimMiss` (the
conditional UPDATE), `LoadEvent`, `ConsumeOk`/`ConsumeError`, `SavePublished`,
`SaveRetry`, `DeadLetter`, `DispatchDone`. Database failures are
`SavePublishedFault` (inside the try), `Abort` (outside it, for an HTTP
dispatch, which answers 500), `AbortPoller` (outside it, for a poll: the promise
is dropped with `void`, the rejection is unhandled and Node.js ends the
process), `FindFault` and `RestoreFault`. `Crash`, `Shutdown`, `Drained`,
`ShutdownTimeout` and `Restart` are the life of a process. `nextRetryAt` is
"passed", "today" or "later", because all the code's comparison can tell apart
is the day: TypeORM writes a `datetime` column of SQLite with a blank between
date and time, the query's parameter has a `T`.

**OrderAggregate** holds the statuses, the transitions and what a change of the
order's status does to the other rows.

**SagaOrchestrator** is the code: `agg` the rows of each order, `announced` the
status in the latest outbox event of the order (what a consumer of the outbox
believes), `trail` the audit actions, `pc`, `on` and `context` the local state
of a run, `change` an `updateStatus` request between its validation and its
transaction. The table `Entry` gives the audit entries with the step that
follows each. `Fault` is a database failure inside the try (control reaches the
catch), `FaultThrown` one outside it, in `compensate` or before the try, where
the run ends as it stands. `hit` is history: which of fault, crash and operator
an order has met since it was last fresh; properties use it to say whose
interference they exclude.

**UuidV7** is the generator of identifiers: `lastTimestampMs` and `sequence` are
its module variables in each process, `waiting` the processes that its busy loop
blocks, `clock` what `Date.now` returns. `SequenceSize` stands for 4096. The
random bits are left to the module that uses it.

**OrderRegistry** is what creating orders promises: a book that only grows, with
one entry for each id and key, and answers that name an entry and never change.

**OrdersService** is `create`. `orders` is the table with its unique
constraints, `dependents` tells for each other table which orders have a row
there, `pc`, `id`, `attempt` and `seen` are the local state of a request.
`FindExisting`/`FindNothing` is the look before the transaction and the second
look after a violation, `SaveOrder` the SELECT with which TypeORM's `save`
begins, `Commit` the rest of the transaction, and `IdempotencyViolation`,
`OrderIdViolation`, `OtherViolation` the branches of the catch clause. `save`
updates a row that has the entity's id: when identifiers collide, `Commit`
replaces the row of another order, unless the constraint on `payments.orderId`
(`OrderIdTaken`) refuses the payment that follows. A violation of the key that does not lead to the second look, because the key is
empty, goes on as one of the id: the code tells them apart by the text of the
error, and "orders.idempotencyKey" contains "orders.id". A client without an
answer may send again. The seed script is one more creator, with a key of its own,
which saves row by row (`SeedOrder`, `SeedDependent`).

**FailureInjection** holds the rules of each process: set (and listed, which
purges expired ones), counted down by `Throws`, expired by the clock.

**OrderOrchestrator** composes. It extends `OutboxProcessor`, whose events stand
for the orders they announce, and instantiates `SagaOrchestrator` and
`FailureInjection`. Every step of the outbox is a step of `OutboxStep`, except
the end of a consumption, which here comes from the consumer: `ConsumeRefused`
(a rule for the event), `ConsumeFault` (the order cannot be read),
`ConsumeSkipped` (the order is not PENDING), or `ConsumeCreated`, which starts a
run of the saga; the run's last step settles the attempt (`Return`). A
dispatcher is the run of the saga of its event, an operator's request that of an
order it reprocesses. When a process ends, its runs and rules end with it
(`StopRuns`). Operators who change a status directly are left to
`SagaOrchestrator`.

**MCOutboxProcessor**, **MCSagaOrchestrator**, **MCOrdersService**,
**MCOrderOrchestrator** instantiate them for TLC.

**OutboxProcessorProofs** and **OutboxDrainProofs** hold the theorems about the
outbox, **SagaOrchestratorProofs** and **SagaOutcomeProofs** those about the
saga, **OrdersServiceProofs** (identifiers) and **OrdersRegistryProofs** (tables
and answers) those about the orders service, **OrderOrchestratorProofs** those
about the composition.

## 4. Runs

Bounds: `Max` bounds the disturbances of each kind (`fault`, `crash`, `timeout`,
`deploy`, `reprocess`) in a behaviour; `MaxRetries` and `Limit` are parameters
of the code, kept small. The saga needs no bound: its state space is finite.

| Run | Instance | Shows |
|---|---|---|
| `outbox_safety` | 2 events of the same second (symmetric), a worker's timer and a forced dispatch of the API, 1 operator, 1 fault, 1 crash, 1 reprocess, `MaxRetries` 2, `Limit` 2 | `TypeOK`, `ExclusiveClaim`, `DlqMatchesOutbox`, `RetryAccounting`, `ConsumedOnce`, `ActiveCountsDispatches` and the refinement `ImplementsLifecycle` hold |
| `outbox_delivery` | 2 events, 2 overlapping polls of one worker, 1 fault, 1 deployment, 1 timeout, no operator, `Limit` 1 | `NoSilentOrphan`, `ActiveCountsDispatches`; under fairness `EventsSettleOrOrphaned` and `DrainEnds` |
| `outbox_operators` | 1 event, 2 overlapping polls, 2 operators and 2 reprocesses, 1 fault, 1 crash | `BuriedIsListed` and, under fairness, `EventsSettleOrOrphaned` survive what `outbox_stale_dlq` shows |
| `outbox_backoff` | 1 event, the timer | violation of `BackoffHonoured` |
| `outbox_early_burial` | 1 event, the timer | violation of `BuriedWhenExceeded` |
| `outbox_shutdown` | 1 event, the timer, 1 timeout | violation of `EventsSettle` |
| `outbox_stale_dlq` | 1 event, 2 operators | violation of `ExclusiveClaim` |
| `saga_compensation` | 1 order, 1 run, 1 operator, faults and crashes anywhere | `TypeOK`, `SettledOutcome`, `FailedIsRefunded`, `ReverseCompensation`, `ShippedHasShipment`, `StatusAnnounced`, `PaymentMatchesStatus`, `AuditTellsOutcome`, `StatusMachine` and, under fairness, `SagaSettles` hold |
| `orders_create` | 2 clients with one key, 1 with an empty key, 3 requests, the seed script; `SequenceSize` 2, 2 attempts, clock 0 to 1 (and further for a generator that waits), 2 of fault, crash, clock set back | `TypeOK`, `Idempotent`, `AnnouncedIsComplete`, `IdsIncrease`, the refinement `ImplementsRegistry` and, under fairness, `RequestsAnswered` |
| `orchestrator_flow` | 1 order, a poll of the worker and a forced or unforced dispatch of the API, 1 operator; any 2 (`MaxTotal`) of 1 fault, 1 crash, 1 reprocess, 1 failure rule for the event or the shipment with up to 2 failures | `SystemTypeOK`, `OneDispatchPerOrder`, `UndecidedIsQueued`, `EndedIsNotRerun` and, under fairness, `OrdersSettle` |
| `orchestrator_double_run` | 1 order, 1 dispatcher and 1 operator of one process, 1 rule, 1 reprocess, no fault or crash | violation of `RedeliveryIsConsistent` |
| `orchestrator_stranded` | 1 order, 1 dispatcher, 1 rule, 1 fault | violation of `SkippedIsHandled` |

Why the bounds are enough. Two events distinguish the one a batch is working on
from the ones it has still to try, and with `Limit` 1 they compete for the
batch; two dispatches are the least that can race; `MaxRetries` 2 gives a retry
and a burial; one fault can fall on any call, one crash on any process at any
await, and one reprocess brings an event back while a stale batch still names
it. In the saga the orders do not share state, so one order shows what happens
to each; its runs follow each other without bound, so that failing, reprocessing
and failing again is covered, and its operator may act at every await.

In `orders_create` the random bits of a process always agree, so that only
timestamp and sequence tell its identifiers apart, and never agree with those of
the seed script: collisions, which are
astronomically rare, happen as soon as the clock is set back or the process
restarts within a millisecond, and three requests are enough for a winner, a
loser of the race for the key and one whose identifier collides. A sequence of
two values wraps at the second request of a millisecond. All attempts at an
identifier are used up by a client with an empty key that sends again.

In `orchestrator_flow` a rule with two failures is enough to dead-letter the
event (`MaxRetries` 2), which an operator then restores; a rule and a reprocess
are enough for the double run, whose start `EndedIsNotRerun` allows for, because
an operator asked. `MaxTotal` keeps the number of disturbances at two at a time
of whatever kind; each pair of kinds happens.

Deadlock is checked except in `orders_create`, whose clients may have all they
asked for. `RequestsAnswered` says of every request that it ends, also when the
clock of its process is set back while the busy loop waits, and of one with a key
that it ends with an answer unless something was disturbed.

## 5. Fairness

- A step of a dispatch, a reprocess request or a saga run that has begun is
  taken eventually: database calls return. Nothing is assumed of failures.
- The timer of a live process fires again (`setInterval`), time passes, a
  drained process exits, and a supervisor restarts a process that is down.
- A request to create an order that was sent goes on, and the clock advances: in
  `OrdersService` weak fairness of the steps of each request and of `Tick`. The
  seed script need never run.
- In the composition weak fairness is that of its parts: of each dispatcher's
  next step, be it of the outbox, the consumer or the saga, of the runs of
  operators, the timer, time, and the supervisor. No rule need ever be set and
  none need expire.
- No HTTP request, deployment, operator or new order need ever come, and a
  failing event may fail at every attempt.

## 6. What the violations say

1. **Backoff** (`outbox-processor.service.ts:107`): within the UTC day, the
   retry time does not delay anything; an event is retried at the next poll.
2. **Shutdown** (`:71`): an event that is in progress when the ten seconds are
   over stays PROCESSING for ever. Nothing in the code recovers such rows; a
   crash and a failed call between claim and save have the same effect, which
   `EventsSettleOrOrphaned` and `NoSilentOrphan` delimit.
3. **Stale DLQ row** (`:191`): the restoring transaction does not look whether
   the DLQ row still exists nor which status the outbox row has; with two
   requests an event in flight becomes PENDING and is consumed twice at once.
4. **Double run** (`saga-orchestrator.service.ts:50`): a failed saga leaves its
   event queued for a retry, although the retry can do nothing for a FAILED
   order. When an operator reprocesses the order, the retry finds it PENDING and
   starts a second saga; the one that loses a transition cancels the payment of
   an order that the other has shipped.
5. **Burial** (`outbox-processor.service.ts:293`): the documents state two
   boundaries. `src/README.md:40` buries an event when `maxRetries` is reached,
   `src/docs/architecture.md:20` (and the comments at
   `outbox-processor.service.ts:294` and `entities/outbox-event.entity.ts:50`)
   when it is exceeded. The code does the first: `RetryAccounting` states it and
   holds, and with `maxRetries` 2 there is one retry. `BuriedWhenExceeded` states
   the second and is violated.
6. **Stranded order** (`saga-orchestrator.service.ts:150`): a call that fails
   within `compensate` leaves an order PAID, and the retry of its event takes
   that for work in progress.

Some properties that hold are stated with an exception, and the exception is as
telling. The model contains these behaviours; no run is spent on each:

- *Stale update* (`orders.service.ts:139`). A transition validated on one status
  may be persisted on another, so that a FAILED order becomes PAID.
  `StatusMachine` excludes orders an operator touched; `PaymentMatchesStatus`,
  `ShippedHasShipment` and `StatusAnnounced` say what survives.
- *Lost release* (`saga-orchestrator.service.ts:216`). The flag of the context
  is set after the audit write of the step; when that write fails, a FAILED order
  keeps CONFIRMED inventory, against `src/README.md:51`. `SettledOutcome` and
  `ReverseCompensation` exclude orders whose calls failed.
- *SHIPPED, then FAILED* (`:146`). The last audit write is inside the try: when
  it fails, a shipped order is refunded and forced FAILED, and its shipment stays
  SHIPPED. Only the refund is stated (`FailedIsRefunded`).
- *Silent reset* (`:89`). A reprocess changes the status without announcing it,
  against `src/README.md:18`: the second case of `StatusAnnounced`.
- *Collision* (`orders.service.ts:114`). `save` turns an identifier of an
  existing order into an UPDATE; the constraint that refuses the request is that
  of `payments.orderId`, whose text the retry does not know, so that the retry
  promised by `src/docs/architecture.md:13` does not come. No order is lost
  (`ImplementsRegistry`). `RequestsAnswered` excludes the case, because a collision
  takes a clock set back or a crash, besides chance.
- *Rules of one process* (`failure-injection.service.ts:10`). A failure rule set
  in the API process does not exist in the worker, so that the scenario of
  `src/README.md:144` is one of a single process.
- *Interrupted reprocess* (`saga-orchestrator.service.ts:104`). A crash under an
  operator's reprocess leaves a PENDING order whose event may be published long
  since; `UndecidedIsQueued` and `OrdersSettle` exclude it.
- *Interrupted seed* (`scripts/seed.ts:44`). `AnnouncedIsComplete` excludes an
  order of a seed script that died between its saves, which the next run of the
  script reports as seeded.

## 7. Proofs

All theorems hold for every value of the constants, under the named assumptions
of the modules (types of the constants; only the worker installs shutdown hooks
and it serves no administration; what is said below of `OrdersService` and
`OrderOrchestrator`). The module `OutboxProcessorProofs` proves

- `TypeCorrect`, the type invariant, and `BuriedEventsAreListed`, without further
  assumption;
- `Invariance`, and from it `ClaimsAreExclusive`, `DlqIsExact`,
  `RetriesAreCounted`, `DuplicatesCostFaults` and `OutboxImplementsLifecycle`,
  assuming `SingleAdmin`: one operator at a time reprocesses the DLQ. The run
  `outbox_stale_dlq` shows that the assumption cannot be dropped.

The invariant `IInv` adds to the properties what makes them inductive: an event
that is held has one failure for each retry it was loaded with (`HeldCounts`),
so that the save after a failure counts right; a consumed event has been counted
(`SuccessCounts`); and the row an operator holds is still in the DLQ
(`FoundInDlq`), which is what a second operator breaks. The claim itself is
exclusive because a held event is PROCESSING and only PENDING rows are claimed:
the stale batch needs no invariant.

`OutboxDrainProofs` proves `DrainCountIsExact` and `DrainLeavesNothing`, without
`SingleAdmin`: the counter is the cardinality of the set of busy dispatches of
the process, which changes by one element at a time; a process that exits
because the counter is zero therefore holds no event, and nothing else
orphans one as long as nothing failed, crashed or timed out.

`SagaOrchestratorProofs` proves `SagaTypeCorrect`, `ShippedOrdersAreShipped`,
`StatusesAreAnnounced` and `PaymentsMatchStatuses` for any number of concurrent
runs and operators, even on one order. Whatever a step does to an order is one of
a few effects (`Effect`); none separates the status from its shipment, and only
the reset, which is preceded by the entry of the request (`ResetIsLogged`),
separates it from its announcement. `PaymentMatchesStatus` is not inductive,
because a run authorizes and cancels payments on its way: `PaymentsFit` says that
a PAID order whose payment is not authorized has a run that is undoing, and a
FAILED order that is not refunded one that is undoing or has just charged, which
goes on only if the order has not FAILED.
`FailedOrdersAreRefunded` holds while at most one run works on each order
(`OneRunPerOrder`, a premise of the theorem): `NotFailed`, that a run which is
still trying works on an order that has not failed, makes it inductive.

`OrdersServiceProofs` proves `IdentifiersIncrease` for every number of clients
and processes, every size of the sequence and every clock: each step of the
service is one of the generator or leaves it alone (`NextIsGeneratorStep`); an
invariant, `StampedByNow`, says that a clock which was never set back is not
behind what has been stamped, so that a different millisecond is a later one;
and `SuccessorGrows` that the masked sequence wraps only where the code looks
(`sequence === 0`).

`SagaOutcomeProofs` proves `OrdersSettleAsAWhole`, `CompensationIsReverse`,
`TheAuditTrailIsTrue` and `OrdersFollowTheStateMachine`, with the premise that at
most one run works on each order (`[]OneRunPerOrder`). The premise cannot be
dropped: `orchestrator_double_run` shows two runs leave an order with rows that
contradict each other. The invariant `Outcomes` says, for each place a run can
stand at, what its context knows, how far the rows are when no operator touched
them, exactly which rows there are when nothing disturbed the order, and what the
trail tells of a release. None of the properties is inductive without it, since
they speak of orders that no run works on, and an order at rest is what its last
run left. Because an order at rest counts as one whose run is "idle", all of it is
one predicate of five values (`Consistent`): each step has a lemma about those
values, and only the frame (`OneRunPerOrder` keeps every other order as it is)
needs the state.

`OrdersRegistryProofs` proves `OrdersTypeCorrect`, `OneKeyOneOrder`,
`AnnouncedOrdersAreComplete` and `OrdersImplementRegistry` for any number of
clients, processes, requests, faults and crashes. Idempotency is not inductive:
a request that looks a second time, or reads again what it committed, must know
that the row is there and has its key, and the constraints must hold of the table
when `save` overwrites a row. The invariant `RowsInv` says what a row owes to its
creator (`RowOf`), the constraints (`Unique`), how far the script is (`ScriptRun`),
which rows are announced (`Announced`), what a request has in hand where it stands
(`Request`) and whom an answer names (`Answered`). It uses one assumption about
chance, `RandomAssumption`: the script never draws the random bits that a process
draws which serves clients. The identifiers of clients may collide with each
other at will; that is what the retry of `create` is for. The script has no
such retry, so that with equal timestamp, sequence and 62 bits a request could
replace an order the script has not yet saved a payment for.

`OrderOrchestratorProofs` is about the composition.

- `SystemTypeCorrect` needs that a dispatcher which runs a saga is consuming, and
  what it has claimed is the order (`Linked`): a step of the outbox that ends no
  consumption keeps that unless the process ends (`ConsumptionGoesOn`), and then
  the run ends with it. The steps of the saga are those of `SagaOrchestrator`, so
  its lemmas are used for the instance in which nobody changes a status directly
  (`SagaTheory`); the lemmas `Same...` say that both instances mean the same.
- `EndedSagasAreNotRerun`: an order that is PENDING and was not asked to be
  reprocessed has no outcome in its trail, and no run on it is about to log one
  (`EndedInv`). It holds for any number of operators.
- `SystemInvariance`: seen from the outbox, a step of the system is one of its
  own, the end of a consumption, a failed call that ends one, or a disturbance
  that changes nothing else (`Elsewhere`), so `IInv` holds in the composition too,
  under `SingleAdmin`. `OneOrderOneDispatch` follows from it with `Linked`.
- `UndecidedOrdersAreQueued`, under `SingleAdmin`: as long as nothing but the end
  of dispatchers disturbed an order without a decision, a run is at work on it, or
  none has begun and its event is unconsumed, or the event is orphaned
  (`UndecidedInv`). The third case is where a process dies during a dispatcher's
  run, and needs that nobody else holds the event (`ExclusiveClaim`).

The assumptions are that a dispatch is no operator's request (`RunsAssumption`)
and that `MaxFail` is a number. `SingleAdmin` is needed where `ExclusiveClaim` is.

TLC has checked each of these invariants on the instances of the runs before it was
proved. Only model-checked are the liveness properties (fairness and ENABLED
are beyond the prover): `EventsSettleOrOrphaned`, `DrainEnds`,
`SagaSettles`, `RequestsAnswered` and `OrdersSettle`. Every other property of a
passing run is a theorem. The first half of `RequestsAnswered`, that an undisturbed
request with a key is answered, is an action property and not proved either: it
needs that identifiers do not collide while nothing is disturbed.

## 8. Abstractions and what is not modelled

- A TypeORM transaction is atomic. The SQLite driver shares one connection among
  the requests of a process; interleaving of foreign statements inside an open
  transaction is a matter of the driver and not modelled.
- Rows are never deleted except those of the DLQ, so "not found" branches on
  orders, payments and outbox rows cannot be taken and are left out, as is the
  branch of `reprocessDlqEvent` that re-creates a vanished outbox row.
- A process ends in one step. After the wait of `onModuleDestroy`, Nest closes
  the server and the database connection; a dispatch that still runs can write
  nothing from then on, so `ShutdownTimeout` stands for the whole end. A process
  without shutdown hooks does not end on SIGTERM at all (the handler of
  `common/telemetry/tracing.ts` replaces the default), it is killed: `Crash`.
- A call that fails has no effect; a call whose effect is committed and whose
  answer is lost shows as a failure of the next call.
- In `SagaOrchestrator` a step may fail by injection whenever it is tried; the
  rules themselves are in the composition.
- The composition leaves out STATUS_CHANGED events (consuming one does nothing)
  and operators who change a status directly.
- Two violations at once in one INSERT are reported one at a time; which one is
  SQLite's choice, and so a choice in the model.
- Amounts, items, texts, carriers and metrics are left out.
- Not modelled at all: wiring, HTTP layer and validation, which keep no state,
  and telemetry, which nothing reads back.
