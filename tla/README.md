# Verification of event-driven-orders

TLA+ models of the order system in this repository: three Python services
(order, inventory, notification) and one TypeScript service (assistant) that
cooperate only through a RabbitMQ topic exchange. TLC checks every module on
small instances. Every safety property that a passing run checks, the two
refinements among them, is also a theorem that TLAPS checks for every value of the
constants: any number of orders, products, replicas, requests, questions and
faults. Liveness is model-checked only.

Paths below are relative to `src/`. `PROJECT.json` maps each definition to the
lines it models, and lists the runs, the seeded bugs and the hazards.

## 1. The system

A customer posts an order. order-service commits it as pending and publishes
`order.created`; inventory-service reserves its stock, all lines or none, and
publishes `stock.reserved` or `stock.rejected`; order-service concludes the
order and publishes `order.confirmed` or `order.rejected`; notification-service
emails the customer about the outcome; assistant-service projects all five
events into a read model, serves an order's timeline through a Redis cache, and
answers questions about orders with a language model that may only read.

There is no transaction over two services. What holds the system together is:

* **publish after commit**: a use case commits, then publishes. Between the two
  the process may die (the dual-write window, which the repository accepts in
  ADR-0005 instead of an outbox);
* **at-least-once delivery** by the dispatcher every consumer is wrapped in:
  a failed message is republished to a retry queue (5 s, 30 s, 2 min), then
  dead-lettered; a lost connection or a crash requeues what was unacked;
* **idempotent consumers**: `processed_events` in the order and inventory
  databases, `order_event_log` in the assistant's, an in-memory set in
  notification-service.

### Inventory

| Component | State | Operations | Talks to | Hard part | What makes it correct |
|---|---|---|---|---|---|
| Retry policy (`shared/.../retry_policy.py`, `retry-policy.ts`) | none | classify an exception, decide retry or dead letter | used by the dispatchers | the last retry | a copy is retried exactly `MAX_RETRIES` times |
| Retry dispatcher and queues (`retry_dispatcher.py`, three `topology.py`) | main, retry and dead-letter queues; deliveries in flight | handler, ack, republish then ack, nack, requeue, replay by hand | broker | republish and ack are two steps; a handler outlives its connection; a failed republish leaves the delivery unsettled | no published event is dropped |
| Order creation (`create_order_use_case.py`, `router.py`) | `orders` | commit, publish | exchange | the dual-write window | a pending order always has a reason to be pending |
| Order conclusion (`confirm_/reject_order_use_case.py`, `inventory_results_consumer.py`) | `orders`, `processed_events` | conclude, publish | order queue, exchange | redelivery after a commit whose answer was lost | one outcome per order, in agreement with the stock |
| Stock reservation (`reserve_stock_use_case.py`, `sqlalchemy_inventory_repository.py`) | `products`, `processed_events` | reserve all lines or none, publish | inventory queue, exchange | savepoint rollback, redelivery | units leave the catalog once per reserved order |
| Notifications (`order_events_consumer.py`, `in_memory_event_deduplicator.py`, `smtp_email_sender.py`) | bounded set of seen events | email, mark seen, ack | notification queue, SMTP | the set is full, or dies with the process; an email sent by a failed conversation | every outcome is told; no second email while the set remembers |
| Broker connection (`shared/.../connection.py`, `lifespan` in three `main.py`) | connection, channel, consumer, watchdog | connect with backoff, declare, consume, reconnect, shut down | broker | an outage, or a shutdown, at each await | the service always serves, consumes again, and leaves no connection behind |
| Order history (`order-history/` of assistant-service) | `order_event_log`, `order_view` with a version | project an event in one transaction, `PREFETCH` at a time | history queue, PostgreSQL | concurrent transactions under READ COMMITTED, events out of order, zombie handlers | the view is what the logged events amount to |
| Retry dispatcher of the assistant (`retry-dispatcher.ts`) | deliveries in flight | as above, without awaiting confirms | broker | settles on a closed channel | no published event is dropped |
| Timeline cache (`redis-timeline-cache.ts`, `get-order-timeline.ts`) | generation and entry keys with TTLs | `getOrLoad`, `invalidate` | Redis, PostgreSQL | a slow read stores what an event made old; keys expire and are evicted | no hit older than the last invalidation; staleness ends |
| Rate limit (`ask-rate-limit.guard.ts`, `redis-rate-limiter.ts`) | a counter per client with an expiry | hit | Redis | a command whose reply is lost, the end of a window | less than twice the limit per window length; windows end |
| Daily budget (`redis-model-call-budget.ts`) | a counter per quota day | take | Redis | midnight between the count and the call; a Redis without persistence | the provider's quota |
| Agent loop (`ask-assistant.ts`, `order-tools.ts`, `read-model-order-queries.ts`) | turn, evidence, deadline | ask the model, run tools, answer | Gemini, read model | a model that may say or call anything, or hang | questions end |
| Answer grounding (`grounding.ts`, `evidence.ts`, `facts.ts`, `prompt-leak.ts`) | evidence of one question | record, check, cite | agent loop | facts from the model's own arguments, numbers that are no amounts, many orders in an answer | an answer names only what is there, and cites it |
| Gemini client (`gemini-llm.client.ts`) | none | call, one retry, abort | Gemini | the retry is not in the budget | part of the provider's quota |
| HTTP surface of order-service (`correlation_id.py`, `error_handling.py`, `order_schemas.py`, `router.py`, `database.py`) | connection pool, contextvars | POST, GET, `/health` | database, broker | a publish that raises past the middleware; a request that keeps its database connection while it awaits the broker, and sessions of GET and `/health` that keep theirs until they are closed; money through `NUMERIC(12, 2)` | what a client is told is so |
| Correlation ids (`context.py`, `retry_dispatcher.py`) | a contextvar per task | bind, read into events | all services | requests and deliveries interleave at every await | one id per request, from header to notification |
| Migrations (`alembic/` of inventory-service) | `alembic_version`, the seeded catalog | upgrade at startup | PostgreSQL | replicas that start together | the catalog is seeded once |
| HTTP surface of assistant-service, logging and metrics, deployment | | | | | not modelled (section 7) |

## 2. The modules

```
RetryPolicy <- Delivery <- OrderSaga -------- OrderLifecycle  (refined by OrderSaga
            |           <- OrderHistory        |               and InventoryReplicas)
            |           <- Notifications       |
            <- InventoryReplicas --------------
BrokerConnection <- OrderFlow
Grounding <- Assistant
TimelineCache

SetSums <- OrderSaga_proofs, InventoryReplicas_proofs, Assistant_proofs, OrderFlow_proofs
           OrderHistory_proofs, Notifications_proofs, TimelineCache_proofs
```

A `..._proofs` module EXTENDS the module it is named after; `OrderFlow_proofs` is
about `BrokerConnection`, too, and `Assistant_proofs` about `Grounding`.

`Delivery` is composed by `EXTENDS`: its operators constrain the delivery
variables only, and each consumer's module conjoins them with what its handler
does. The modules are joined by what they may assume of each other rather than
by one product: `OrderHistory` takes the event sequences that `OrderSaga` shows
to be the possible ones (`Story`), `Notifications` the one outcome per order
that `AtMostOneOutcome` gives, `TimelineCache` counts the commits of
`OrderHistory`, `Assistant` reads what was projected. `OrderSaga` reserves stock
in one step because `InventoryReplicas` shows that the statements of several
replicas amount to such steps: both implement `OrderLifecycle`.

`OrderFlow` is the composition along the other axis. It takes every variable and
action of `BrokerConnection` and runs the requests and deliveries of
order-service in the same process: its actions guard on the channel and the
consumer that `BrokerConnection` opens, and `Along` is what each step of the
connection does to requests and deliveries in flight.

| Module | Code | How state and actions correspond |
|---|---|---|
| `RetryPolicy` | `retry_policy.py` | pure; `DecideRetry` is `decide_retry` |
| `Delivery` | `retry_dispatcher.py`, `topology.py` | a message is its queue, its event, its `x-retry-count` and a name telling copies apart; a task is a call of `dispatch`, whose `pc` names the await it is suspended at. `Republish` and `Settle` are the two awaits of the retry branch, `Nack` the dead-letter branch, `RepublishFails` the exception nothing catches. `epoch` counts lost connections: a task of an old epoch is a handler that outlived its delivery |
| `OrderSaga` | order-service and inventory-service | `status`, `orderSeen`, `stock`, `inventorySeen` are the two databases. A transaction has no await inside, so it is one step with the delivery that starts it (`HandleOrderCreated`, `HandleStockResult`); the publication after it is another (`PublishOutcome`); in between come crashes, lost connections and other tasks. `...CommitUnanswered` are commits whose answer is lost. `minted`, `published` and `decision` are history variables |
| `InventoryReplicas` | inventory-service, several processes | `pc[r]` is the SQL statement or the await replica `r` is at; `taken[r]` what its open transaction has taken from each row, so that a row lock is a non-zero entry. `Decrement` is the conditional UPDATE, `FallShort` the rollback to the savepoint, `DeadlockDetected` PostgreSQL's choice of a victim, `Upgrade` and `CommitUpgrade` the migration |
| `OrderFlow` | POST, middleware, error handlers, contextvars, pool; the hops after it | `stage[h][r]` is what hop `h` does about request `r`; `Post`, `Store`, `Publish`, `Confirmed`, `Complete` are the awaits of a POST and `Refuse`, `StoreFails`, `PublishRaises` its failures. `context` is the contextvar of that task, `event` the `correlation_id` on the wire. `Holding` are the requests whose session has a transaction open, `Reading` the sessions of GET and `/health` that do, between `Query` and `Close`; both use up the pool |
| `OrderLifecycle` | the saga's promise | place, set aside wholly or turn down, close as decided; no queue, task or failure |
| `..._proofs` | | the inductive invariant of a module, and its theorems (section 6) |
| `SetSums` | | what a sum over a finite set is: lemmas for the modules that add up units, hits, calls or amounts |
| `OrderHistory` | projection of assistant-service | a task's `pc` names the next statement of its transaction: insert in the log (blocked by an open transaction that inserted the same event), read the view, write it under the optimistic lock (blocked by the row lock), commit, ack. `Apply` is `OrderView.apply` |
| `TimelineCache` | `redis-timeline-cache.ts`, `get-order-timeline.ts` | one action per Redis command (a MULTI is one) and per PostgreSQL statement; `Tick` takes a tick off every TTL |
| `Notifications` | notification-service | the handler awaits nothing from the duplicate check to `mark_seen` (the email is sent synchronously), so that is one step; its ack is another |
| `BrokerConnection` | `connection.py`, `lifespan` | `task` is the await the connecting coroutine is suspended at; `AttemptFails` the except block of `connect_with_retry`; `half` is the `RobustConnection` that `connect` has made and not yet stored: `Connected` and `ConnectFails` are the two ends of its await, and `Cancelled` is the third, the CancelledError that `Shutdown` has raised in the watchdog. `Reconnect` is aio-pika's own recovery, external |
| `Grounding` | `domain/*.ts`, tools' outputs | a text is the set of the facts it names; evidence is sets of orders, events and values; `Sizes` are the counts of orders that an output has, which `addValues` records as amounts; `GroundAnswer` gives the answers a text may end up as |
| `Assistant` | `ask-assistant.ts`, guard, limiter, budget, Gemini client | `ask[q].pc` is the await question `q` is at; `Ask`, `Take`, `CallModel`, `Retry`, the tools and `EndTurn` are the loop; `ModelReplies` is whatever the provider answers |
| `MC...` | | constants for TLC |

Each module that models code also holds *seeded bugs*: operators named after
the definition they replace (`Reserve_NoSavepoint`, `Store_CurrentGeneration`),
each a plausible mistake in that code. Putting one in place of the original
makes TLC report the property it is paired with in `PROJECT.json`, so that each
property is known to notice something.

## 3. The runs

| Run | Configuration | Asks |
|---|---|---|
| `saga_two_orders` | two orders that both want the last unit of a product, one also a unit of another; any one fault of any kind | is every outcome unique and truthful, stock conserved, every pending order accounted for, no event dropped; is the saga a refinement of `OrderLifecycle` |
| `saga_recovery` | one order, five faults (database, publish, crash, replay), fair | does the order conclude, through all its retries, the dead-letter queue and replays; is a stock result ever refused |
| `history_contention` | the three events of an order, prefetch 3, three faults (database, replay) | is the view what the logged events amount to under every interleaving of statements; can contention alone dead-letter an event |
| `history_reconnect` | prefetch 1, two lost connections or crashes, fair | is an event redelivered while its first transaction is open applied once; is none dropped; are all projected |
| `cache_reads` | two reads, two events, any two faults, fair | can a hit be older than the last invalidation while the generation counter lives; does staleness end |
| `mail_emails` | two outcomes, a set that holds one, any two faults, fair | does a customer get a second email while the set remembers; is everybody told |
| `inventory_replicas` | two replicas; three orders, of which two lock the same two products in opposite orders and one repeats a product; any one fault, fair | does what the replicas do amount to `OrderLifecycle`; is a row ever overdrawn or changed by two at once; is every order decided whatever blocks what |
| `order_flow` | two requests, one with an id of its own; bodies that are malformed, rounded or too large; a GET (or a `/health`); one database connection, one outage, one fault, one attempt before the watchdog, fair | is each id kept from header to notification; is what a client is told so, and who can keep an order out of a healthy database; does the service serve, consume again and leave nothing behind; does every event lead to a notification or into a known gap |
| `broker_restart` | one outage, fair | does the service end up consuming: **violated** (finding 1) |
| `broker_watchdog` | one outage, 1025 attempts | does the watchdog live: **violated** (finding 2) |
| `assistant_quota` | three interchangeable questions of one client, limit 1, windows of 2 ticks, budget 1, three half days, one Redis fault, one restart | what the rate limit and the daily budget still guarantee |
| `assistant_grounding` | one question, 2 orders, 3 events, 3 values (one in a payload, one that nothing carries, and 1.00, which a count of one order is recorded as), 2 turns of 2 tool calls, one Redis fault, fair | what an answer may say and must cite; does every question end |

Deadlock is not checked: every model stops once its orders, events, questions
and faults are used up, and a service that has nothing to do is idle.

### What they show

The saga keeps its promises under everything modelled, with the two exceptions
its documentation accepts: an order stays pending if the dual-write window
swallowed its event (`PublicationLost`), or if a person has yet to act on a
dead letter. `OrdersConclude` shows a third exception, which the
documentation does not mention: a failed republish leaves the delivery
unsettled, and the order waits until the connection of that consumer ends.

`OneEmail` holds for a process lifetime and as long as no more outcomes were
published than the set holds; the first premise is the one its class documents,
the second is its `max_size`. It counts the emails of handlers that came to their
end: when the SMTP server accepts an email and the conversation fails after that,
the handler is retried and the customer may get another.

`NothingLeftBehind` is about the one await where a shutdown is dangerous. While
`connect` waits, its `RobustConnection` belongs to nobody but the coroutine, and
goes on connecting by itself; `lifespan` closes `_connection`, which is not set
yet. So it is the cancelled coroutine that has to close it, and it does, because
`connect` catches `BaseException` (with `Exception`, the seeded bug, it would not).

`AnswersAreGrounded` states what the check of an answer is worth. An answer names
nothing that neither the question nor a tool brought; but "a tool brought it"
includes the model's own arguments and every *number* of an output, whatever it
counts: after `count: 3` (`order-tools.ts:185`) or a group's count (lines 201 and 204)
an answer may say $3.00, since `addValues` records numbers as amounts
(`evidence.ts:34`). The property admits the counts of known orders (`CountsOf`).

`AtMostOneOutcome` rests on `processed_events` alone: a commit whose answer was
lost is retried, found a duplicate, and acknowledged *without* publishing, which
is why `PendingIsAccountedFor` needs `PublicationLost`.

`DeadLetterTakesFaults` puts a number on an interplay of two mechanisms: losing
the optimistic lock costs a retry, an event can lose it at most twice to the two
other events of its order, and it has four tries; so contention alone never
dead-letters an event, and neither does one fault on top of it.

`ProviderDayBound` states what the budget really guarantees: twice the daily
limit (the retry of a momentary failure is not counted, a margin the code
documents), again after every restart of Redis, plus the calls under way at
midnight.

### Findings

1. **A half-made connection is taken for a connection** (`broker_restart`,
   `connection.py:57`). `_connection` is set before the channel is awaited. If
   that await fails, the next attempt returns at once, consuming fails on the
   missing channel, and the service is degraded until somebody restarts it, which
   `main.py:44-46` says is never needed.
2. **The watchdog dies of its own backoff** (`broker_watchdog`,
   `connection.py:127`). The delay is computed before it is capped; at attempt
   1025, after about eight and a half hours, a float overflows and ends a task
   that promises to retry for ever.

More disagreements were met and are expressed in the properties rather than as
runs that fail:

* A reset generation counter can match an old entry, which the comment at
  `redis-timeline-cache.ts:35` and ADR-0023 say cannot be. The TTL of the key
  runs from the last invalidation, not from the last store: a read may see
  generation 1, load, and be overtaken by the expiry of the key and by the next
  event, which counts to 1 again; it then stores its old timeline as generation
  1. It takes a read slow enough to straddle the expiry. `NoStaleHit` is
  therefore stated while the counter lives, and `StalenessEnds` without that
  premise: the effect ends with the entry's TTL.
* The middleware's docstring promises an id "echoed back in the response header"
  and "one structured log line per request". A publish that raises after the
  commit has no handler and leaves through the middleware, so that the 500 for an
  order that *is* stored has neither. `AnswersAreTrue` admits this one response
  without an id, and only for a stored order.
* README.md:427 waits for every `/health` to be healthy, because a consumer that
  is still connecting has no queue. `is_connected` is true from the moment the
  connection is open, before the channel, the queue and the consumer;
  `AnswersAreTrue` admits these steps, and the service that finding 1 strands.
* ADR-0016:31 says that Alembic takes a lock, so that racing replicas are safe.
  There is none in `env.py`. What makes the race safe is that the losers fail on
  a table that is there by then, undo their whole transaction, and are started
  again by Docker.
* Deadlocks between replicas are "TRANSIENT" and cost a try. `OrdersDecided` has
  the dead-letter queue as an alternative that needs no other fault: with retry
  delays left out, a victim may meet the same deadlock in each of its tries.

* `order-tools.ts:145` answers an unknown order with `{found: false, order_id}`,
  and the values of every output are recorded as evidence; so a value the model
  invented as an `order_id` counts as returned by a tool in the next turn, where
  `evidence.ts:10-12` says the model is "never trusted on its own".
  `AnswersAreGrounded` therefore admits `args`, the model's own arguments.
* ADR-0023 says the counters in Redis may be lost "sin consecuencias"; the
  daily budget of ADR-0024 was put there later. Hence the factor
  `1 + restarts` of `ProviderDayBound`.
* The class comment of the timeline cache bounds the staleness of a *lost
  invalidation*; a process that dies between the commit and the invalidation is
  the same case, because the redelivered event is a duplicate and invalidates
  nothing. `StalenessEnds` covers both.

What a request holds while it waits is not written down anywhere:
`SqlAlchemyOrderRepository.add` ends with a `refresh`, which opens a transaction
that is only closed with the request's session, after the response. In between,
the request awaits the broker. Once as many requests wait as the pool has
connections, the next checkout blocks the thread of the event loop until it
times out, and no request can go on in the meantime; the request, or the
delivery of a stock result, then fails although the database is well. GET and
`/health` use the same pool: they await nothing after their query, but their
session is only closed after the response is out, and a burst of them fills the
pool as well. `AnswersAreTrue` says who can be responsible when a healthy database
turns away an order that fits: as many orders that were stored and GETs that
queried as the pool has connections. `FlowEnds` says that it passes, and, since an
order-service that has handled a stock result has no excuse but its shutdown, that
a consumer is restored after an outage.

## 4. Bounds

Counters are bounded in the guards of actions, never by a state constraint, so
that liveness is checked on real behaviours. Every bound is a constant:

* `MaxFaults` (with `FaultKinds`) and `MaxDrops`, `MaxOutages`, `MaxRestarts`:
  how often things go wrong. One fault is what each window of the code needs
  to misbehave; `saga_recovery` has five because the way from a first delivery
  to a dead letter and back takes four failures and a replay; the history runs
  have enough for two tries of one event to overlap. In the proofs `MaxFaults`
  and `MaxDrops` are any naturals, except in `OrderFlow` (below).
* `CopyId`: names for broker copies that agree in everything else. Copies are
  numbered from the least free one, so the set has to be as large as the number
  of equal copies alive at once: duplication takes a fault, and three names (four
  for emails) are never all used up. The proofs take any set of naturals.
* `inventory_replicas`: two replicas are what a deadlock takes, and the third
  order keeps both busy while another waits in the queue. The stock covers two of
  the three, so that which one is rejected depends on the commits.
* `order_flow`: two requests, so that contexts can be mixed up and one connection
  can be in demand; `PoolSize` is 1 where the code has 15, and a price limit of
  9.9 cents, where prices are counted in tenths, so that rounding and range meet.
  `MaxAttempts` and `FloatMaxExponent` are 1: one attempt before the watchdog
  takes over and two of its own before it dies. The code's 5 and 1023 are in
  `broker_restart` and `broker_watchdog`. `MaxFaults` is at most 3, so that no
  delivery uses up its retries; what becomes of those is `OrderSaga`'s matter.
  With one GET and two POSTs for one connection, each of them can be the one
  that holds it; either POST, or a delivery, the one that is refused. Of the
  two requests, one may be too large and the other malformed, and both may be
  well-formed.
* two orders, two products: the smallest instance where orders compete, and
  where the lines of one order disagree.
* two readers and two events for the cache: a read overtaken by an event, with
  another read to see what it left. `EntryTtl` is one tick, and a generation
  lives ten of them as in the code; `ReadTicks` is one, because a read that
  straddles a single expiry is all that the race takes.
* three questions with limit 1: one the window lets in, and two that it should
  not or that wait for the next window. The code's limit is larger; a limit of
  two takes four questions, whose states TLC does not get through in minutes.
  Three half days hold a midnight for each of the two ways to count days.
* `MaxFacts` 1 and `MaxCitations` 1: an answer naming one thing meets every case
  of the check, and two orders make the cap of citations bite.

`Assistant_quota.cfg` uses symmetry over questions, which are interchangeable in
Init, in Next and in its three invariants; no liveness is checked there.

## 5. Fairness

* `OrderSaga`, `OrderHistory`, `Notifications`: weak fairness of `System` as a
  whole. An event loop runs every task that is ready and the broker delivers
  whatever it can; each of these steps consumes something (a message, a task, a
  TTL), so a weakly fair whole leaves none of them behind. Faults, replays,
  customers and publishers are under no obligation.
* `TimelineCache`: weak fairness of each read under way, of the invalidation and
  of time. Nobody has to ask, and nothing has to fail.
* `BrokerConnection`: weak fairness of the coroutine and of aio-pika's
  reconnection; that the broker comes back is never assumed but stated as the
  premise `<>[]up` where a property needs it.
* `InventoryReplicas`: weak fairness of each replica's own steps, which include
  PostgreSQL's deadlock check and the container that Docker starts again
  (`restart: always` in `docker-compose.prod.yml`).
* `OrderFlow`: that of `BrokerConnection`, and weak fairness of each request and
  each delivery. A publish that finds its connection lost need not raise: it may
  wait for the connection. Clients and faults are under no obligation.
  Sessions are closed: FastAPI runs the `finally` of `get_session` in a worker
  thread once the response is out.
* `Assistant`: weak fairness, question by question, of the service's own steps
  (Redis and PostgreSQL answer or fail) and of the timer of
  `AbortSignal.timeout`. The provider may hang for ever, which is what
  `QuestionsEnd` is about.

## 6. What is proved

Each theorem is for every value of the constants that the modules' named
assumptions admit: `FaultsAssumption`, `CopyIdAssumption`, `StockAssumption`,
`DemandAssumption`, `LinesAssumption`, `QueueAssumption`,
`NotificationsAssumption`, `HistoryAssumption`, `CacheAssumption`,
`GroundingAssumption`, `AssistantAssumption`, `ConnectionAssumption` and
`FlowAssumption`. They type the constants, say that limits and TTLs are not zero
where the code's are not, that a service starts with fewer attempts than a float
has powers of two, and that no client invents the fresh id of a request; TLC
evaluates them in the runs. Sets of orders, products, replicas, questions, requests
and readers are not assumed to be finite: where something is counted, the
invariant says that what has been begun so far is.

| Theorem | Property | Says |
|---|---|---|
| `OrderSaga_proofs` | | |
| `SagaInvariant` | `SagaInv` | databases, events and deliveries stay in step |
| `SagaTypeOK` | `TypeOK` | the variables are typed; stock is never negative |
| `SagaAtMostOneOutcome` | `AtMostOneOutcome` | one stock result and one outcome per order, over all event ids |
| `SagaOutcomeTruthful` | `OutcomeTruthful` | events agree with the order row, the row with the stock decision |
| `SagaNoDomainConflict` | `NoDomainConflict` | a stock result is never dead-lettered as a refusal |
| `SagaNoEventDropped` | `NoEventDropped` | a published event is processed or still held for its consumer |
| `SagaPendingIsAccountedFor` | `PendingIsAccountedFor` | a pending order has a reason to be pending |
| `SagaStockConserved` | `StockConserved` | units leave the catalog once per reserved order |
| `SagaImplementsLifecycle` | `LifecycleSpec` | `Spec => LifecycleSpec`, step by step or stuttering |
| `InventoryReplicas_proofs` | | |
| `ReplicasInvariant` | `ReplicasInv` | what open transactions took, migrated and found out |
| `ReplicasTyped` | `TypeOK` | the variables are typed |
| `StockNeverNegative` | `RowsGuarded` | one transaction at a time changes a row, within what it holds |
| `ReplicasImplementLifecycle` | `ReservesAtomically` | interleaved replicas amount to `OrderLifecycle`'s single steps |
| `OrderHistory_proofs` | | |
| `HistoryInvariant` | `HistoryInv` | what transactions read, inserted and locked; what retries were for |
| `HistoryTyped` | `TypeOK` | the variables are typed |
| `NoLostUpdate` | `ViewMatchesLog` | the view is what the logged events amount to |
| `EventsKept` | `NoEventDropped` | a published event is logged, or a copy is kept |
| `ContentionAloneNeverDeadLetters` | `DeadLetterTakesFaults` | lost locks alone never dead-letter |
| `Notifications_proofs` | | |
| `MailInvariant` | `MailInv` | what was handled was told and is remembered while there is room |
| `MailTyped` | `TypeOK` | the deduplicator keeps to its bound |
| `OneEmailEach` | `OneEmail` | no second email while the set has room |
| `NotificationsKept` | `NoNotificationLost` | an outcome was told, or a copy is kept |
| `TimelineCache_proofs` | | |
| `CacheInvariant` | `CacheInv` | what a read under the current generation may hold |
| `Typing` | `TypeOK` | the variables are typed |
| `HitsAreUpToDate` | `NoStaleHit` | no hit older than the last invalidation while the counter lives |
| `Assistant_proofs` | | |
| `AssistantInvariant` | `AssistantInv` | questions, windows and budget |
| `AssistantTyped` | `TypeOK` | the variables are typed |
| `NothingInvented` | `AnswersAreGrounded` | answers name and cite what is there |
| `AnswersCanBeChecked` | `NamedIsCited` | what an answer names is cited, up to the cap |
| `BurstsBounded` | `BurstBound` | less than twice the limit per window length |
| `WindowsEnd` | `WindowEnds` | hits do not prolong a window |
| `BudgetBoundsRequests` | `ProviderDayBound` | what a day's budget really bounds |
| `OrderFlow_proofs` | | |
| `FlowInvariant` | `FlowInv` | stages, events, row and answer of a request agree |
| `FlowTyped` | `FlowTypeOK` | the variables are typed |
| `OneIdPerOrder` | `OneTrace` | one id from header to notification |
| `ClientsAreToldTheTruth` | `AnswersAreTrue` | what a client is told is so |
| `FlowRunsTheConnection` | `Spec` of `BrokerConnection` | `FlowSpec => Spec`: the connection is what `BrokerConnection` says |
| `ConnectionInvariant`, `ConnectionTyped`, `StoppedForGood` | `BrokerInv`, `TypeOK`, `NothingLeftBehind` | of `BrokerConnection` on its own |
| `FlowLeavesNothing` | `NothingLeftBehind` | a stopped service whose watchdog has ended leaves no connection open, reconnecting or half-open |
| `WatchdogDiesOfItsBackoff` | | a watchdog only dies with `FloatMaxExponent + 1` failed attempts counted (finding 2: its only cause) |
| `StrandedForGood` | | an action property: stranded stays stranded (finding 1) |

### The arguments

Hardly any of the properties is inductive as it stands. Every proof module
begins with the strengthening it needs, which TLC confirmed on the module's runs
before it was proved; then come one lemma per action (`...Keeps`, `...Preserves`),
lemmas on parts that several actions share, and frame lemmas for what a step leaves
alone.

**`OrderSaga`.** That an order gets one outcome depends on which event ids each
database has recorded, and that depends on what the tasks in flight have already
done. `SagaInv` adds three relations. `DatabasesInStep`: an order is decided if
and only if an event of its is recorded in the inventory database, and concluded
if and only if one is recorded in the order database, with that event's verdict.
`EventsInStep`: an event exists only if the database of its service says the same,
and `order.created` exists at most once per order. `DeliveriesInStep`: copies are
where the exchange routes them, a task past its transaction has its event
recorded, and a message is nacked only with its retries used up. With these, a
stock result that is not recorded can only meet a pending order, since the one
result an order has is recorded if the order is concluded; so nothing is
refused and no second outcome is constructed. `NoEventDropped` is carried along
because an event leaves a queue only through a task, and a task leaves only by
an ack after its event was recorded, after its retry copy was published, or with
its connection, which requeues it. `SagaImplementsLifecycle` needs two refining
steps (`ReserveRefines`, `ConcludeRefines`) besides order creation; every other
action stutters.

**`InventoryReplicas`.** `RowsGuarded` needs to know what an open transaction took,
`TakenInStep`: exactly the units that the lines before its current one ask for.
The refinement needs more, because a replica decides before it commits. An order
to be reserved took its whole demand from rows nobody else could change; an order
to be refused has undone its decrements and holds no lock, so the invariant says
that a product is short in the *committed* rows, which only decrease.
`OrdersGuarded` (one open transaction per order, and only while it is undecided)
makes the decision the first one.

**`OrderHistory`.** `ReadInStep`: what a transaction read is the row's state until
the row's version moves on, and a transaction that wrote the row still matches it;
so a write under the optimistic lock applies the event to the view of exactly the
events logged. `TransactionsApart` are the two locks of PostgreSQL. A message's
retries are bounded by the other events projected for its order (`Others`) plus
the faults, which is why contention alone never uses up four tries.

**`Notifications`.** `Remembered`: an outcome this process sent an email about is in
the deduplicator, unless more outcomes were published than it holds; `NoneLost`
is the saga's argument for one queue.

**`TimelineCache`.** `Coherent`: a read that saw the *current* generation has, since
then, read nothing older than the last invalidation, because the generation moves
with every invalidation; `LivesPast` ties this to the life of the counter, so that
a reset counter that counts up to the same number is told apart.

**`Assistant`.** Three parts that each action preserves on its own. Questions: evidence is
held by the read model, a count of its orders (`CountsHeld`: the log only grows, so
that what was counted remains a set of known orders) or the model's own
arguments, and an answer is checked against it. Windows: `WindowHolds` splits the hits let in over the last `Window`
ticks by the opening of the current window; those since are at most the limit,
those before were in one earlier window that has lost a tick, hence *less* than
twice the limit. Budget: what the provider counted today plus what the questions
under way may still send (`Owed`) is at most twice the calls taken, in budgets
that a restart renews and `late` corrects at midnight.

**`OrderFlow`.** `BrokerInv` ties the await of the connecting coroutine to
connection, channel and consumer, and to the half-open connection, which exists
only while `connect` waits or is cancelled. `TraceHolds` adds to `OneTrace` the events that
a publish is about to send, `RequestHolds` the order in which a request and its
events go through the hops: a row before its event, an event before its answer.
The pool argument counts: whoever holds a connection has stored an order
(`PoolIsUsed`) or is a GET that has queried, and neither rows nor queries are undone
(`PoolGrows`), so that those which kept an order out are still there when its
answer is read. A sum over order lines is
shown to be a natural number in `TotalIsSum`.

**`SetSums`.** The specifications add up with the folds of the community modules,
which are recursive functions chosen by their equation. `SetSums` shows that the
equation has exactly one solution on the subsets of a finite set, and that a sum
can be taken in any order, split and shifted. It needs an induction over finite
sets, and does it with sets in the place of predicates (`SubsetInduction`),
from the fact that every non-empty set of naturals has a least element.

### Only model-checked

* All liveness: `OrdersConclude`, `OrdersDecided`, `EventsProjected`,
  `StalenessEnds`, `CustomersNotified`, `ServesRegardless`, `FlowEnds` and
  `QuestionsEnd` rest on fairness, and TLAPS does not reason about
  `ENABLED`.
* The two findings are counterexamples of TLC's (`NeverNeedsRestart` is itself a
  liveness property). What is proved about them is that `StrandedForGood`, and that
  the watchdog dies of nothing else.
* What `TotalAmount` and `Rounded` compute: the proofs only use that amounts are
  natural numbers and that the row, the event and the response go through the same
  ones.

## 7. What is left out, and why

In the modelled components:

* Delivering a message and running its transaction is one step in the Python
  services because the code has no await in between; replicas, whose statements
  do interleave, are in `InventoryReplicas`. The other services are single
  processes.
* A product that is not in the catalog is one with no stock. Repeated lines of
  the same product are summed in the `Demand` of `OrderSaga`; `InventoryReplicas`
  takes them one by one.
* The queues exist before the first event, except in `OrderFlow`, where a consumer
  may declare its queue late and an event published before that is gone.
* `OrderFlow` leaves out what the saga decides, the kinds of event, retry delays,
  retry counts and dead letters, and the connections of the other services. The
  database connection of a POST goes back to the pool with its response, where the
  code closes the session in a worker thread just after it; the pool clause of
  `AnswersAreTrue` counts the stored order either way.
* `InventoryReplicas` leaves out retry delays, a failed republish, and the tasks
  that wait in one process behind another's publish.
* The refusals of `Order.confirm` and `Order.reject` are modelled, and never taken
  (`StockResultLemma`); the branch for an unknown `event_type` is left out, because no
  binding lets one in. A non-numeric `x-retry-count` and malformed bodies are left
  out, because no service sends them.
* Publishing while there is no channel is the `PublishCreatedFails` of `OrderSaga`.
* A command that reaches Redis late is a command that happens later, so it needs
  no action of its own.
* The expiry of yesterday's budget counter, the LRU eviction of counters and the
  order in which evidence is kept are left out. Filters of the tools are a free choice of orders, a cached
  timeline is any non-empty part of the order's events, and the regular
  expressions that find facts in a text are replaced by the facts.

Whole components:

* HTTP surface of assistant-service and configuration: framework glue without
  state of its own. `POST /ask` is in `Assistant`, the timeline in `TimelineCache`.
* The health checks of the other services, and what order-service's says of its
  database: they read the state of connections, and only an orchestrator
  outside the repository acts on them.
* Logging and metrics: no behaviour depends on them. In assistant-service a
  correlation id is only stored.
* Schemas: the constraints that matter are in the modules. Of the migrations, the
  race of inventory-service's is modelled; order-service's is the same race with
  no rows to seed, and Prisma's is a tool outside the repository.
* Deployment, CI, scripts, dashboards: not part of the program; the Redis
  settings that matter (no persistence, `allkeys-lru`) are in the models.

## 8. Plan

The order was: the saga and its proofs first, because it is what the system is
for; then the consumers with concurrency of their own; then the infrastructure
each service rests on; then the assistant.

Done: `RetryPolicy`, `Delivery`, `OrderSaga`, `OrderLifecycle`, `OrderHistory`,
`TimelineCache`, `Notifications`, `BrokerConnection`, `Grounding`, `Assistant`,
`InventoryReplicas`, `OrderFlow`; the proofs of every safety property that a passing
run checks, of both refinements of `OrderLifecycle`, and of what `OrderFlow` may
assume of `BrokerConnection`.

Next, models:

1. The broker connection of assistant-service (`rabbitmq.connection.ts`): startup
   and recovery, as `BrokerConnection` does for Python.
2. An abstract cache, and `TimelineCache` as its implementation while the counter
   lives.

Next, proofs:

1. The premises that modules take from each other, as theorems about both: the
   `Story` of `OrderHistory` from `OrderSaga`, the one outcome per order of
   `Notifications` from `AtMostOneOutcome`.
2. The safety half of the liveness properties: the variants that the fair steps
   decrease.
