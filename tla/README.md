# Formal model of the shop backend

A NestJS API takes orders, a payments service authorizes them over gRPC, and a
worker behind RabbitMQ completes them; PostgreSQL holds the state. This project
models the parts that run concurrently or fail half-way, checks them with TLC on
small instances and proves their invariants, and that they fit together, with
TLAPS for all instances.

## The system

| Component | State | Operations | Talks to |
|---|---|---|---|
| `OrdersService` (`src/src/modules/orders`) | `orders`, `order_items`, `products.stock`; a connection of the pool per request | `createOrder`, `failOrderAndReleaseStock`, `getOrder`, `findOrders` | PostgreSQL, payments client, RabbitMQ |
| `order-policy.ts` | none | `aggregateItemQuantities`, `buildOrderPlan` | called by `createOrder` |
| `PaymentsClient` | none | `authorize` with a deadline | payments service (gRPC) |
| payments service (`src/src/payments`) | two in-memory maps | `Authorize`, `GetPaymentStatus`, stubs `Capture`, `Refund` | |
| `RabbitService` | exchange, queues `orders.process`, `orders.retry.5s`, `orders.dlq` | `onModuleInit`, `assertTopology`, `publishJson`, `consume`, `ack`, `nack` | broker |
| `OrdersWorker` | `processed_messages`, `orders.status` | `handle` | PostgreSQL, broker |
| GraphQL resolvers, product loader | per-request batch | the `orders` query, the field `product` | `OrdersService`, PostgreSQL |
| `AppService` | none | `getMetrics`, `getReadiness` | PostgreSQL |
| `FilesService` | `file_records`, `products.imageFileId` | `presign`, `complete`, `getFileUrl` | PostgreSQL, S3 |
| `deploy.sh`, `migrate.ts`, the bootstrap of API and worker | the schema, the topology | migrate, synchronize, declare, restart | Docker, PostgreSQL, broker |
| guard, filter, logging, seed | none that matters here | | |

What is hard about it:

- **Interleaving requests.** `createOrder` runs for many requests at once in one
  process over one database. Its steps are separate statements: look for an
  order with the key, lock and read the products, decide, write the stock, insert,
  commit. Correctness rests on `FOR UPDATE`, on the unique index
  `(userId, idempotencyKey)` and on the order of the steps.
- **Two resources held at once.** A request keeps its query runner's connection
  until `finally`, while the payment update, the compensation and the duplicate
  lookup each take a second connection. Transactions lock several rows.
- **Payment outside the transaction.** The order is committed first; the
  authorization may fail, time out, or succeed after the deadline.
- **A message after the commit.** Publishing is neither transactional nor confirmed.
- **At-least-once delivery.** The worker may die, or be cut off from the broker,
  between commit and acknowledgement or between republish and acknowledgement;
  the answer of its `COMMIT` may be lost.
- **Reads of several statements.** A page is found in one statement and read in
  another, a list is walked in several requests, and metrics are two counts, while
  the tables change.
- **Startup under outages.** Two services declare one topology step by step, and
  both would create the schema if the migrate job had not. The services of the former
  deployment run until they are replaced, and one that restarts meanwhile synchronizes
  the tables back to its own entities.
- **Multi-statement handlers without a transaction** (`FilesService.complete`).

`PROJECT.json` lists the hazards with their source lines and the properties that
guard against each.

## Modules

| Module | What it is |
|---|---|
| `OrderLines` | lines of an order; the quantity of a product as the size of the set of its units |
| `OrderPolicy` | the loops of `buildOrderPlan` as a state machine |
| `PaymentsStore` | the payments service's maps, `authorize`, restart |
| `Checkout` | `createOrder` and `failOrderAndReleaseStock` for many requests, with database, pool, payments and publish; extends `OrderLines` and `PaymentsStore` |
| `OrderBook` | abstract: what the tables promise to whoever reads them; `Checkout` implements it |
| `OrdersWorker` | `handle` and the RabbitMQ queues |
| `OrdersSystem` | `Checkout` and `OrdersWorker` over one database and one broker; implements both |
| `OrderQueries` | `findOrders`, the product loader and `getMetrics` over tables that change |
| `Startup` | `deploy.sh`, the migrate job, bootstrap and topology, restarts |
| `Files` | `presign`, `complete`, `getFileUrl` |
| `MC*` | constants for TLC, one module per specification |
| `OrderLines_proof`, `OrderPolicy_proof`, `Checkout_proof`, `OrdersWorker_proof`, `OrdersSystem_proof`, `OrderQueries_proof`, `Startup_proof`, `Files_proof` | TLAPS proofs |

### Checkout

One request is one value of `Requests`, and the order it creates has its name.
`pc[r]` says which statement of `createOrder` comes next:

    new -> connect -> lookup -> locking -> insert -> inserted -> authorize -> awaiting
        -> recording -> publishing -> done                         (order created)
    insert -> duplicate -> done                                    (23505, reused)
    awaiting -> failing -> releasing -> done                       (payment error)

`stock`, `status`, `payment` are the committed columns. A transaction's writes
appear at its commit; its locks (`lock`, and `awaited` for the row it is blocked
on) appear at once. `seen[r]` is the stock `r` read when it locked a row: the
commit writes `seen - quantity`, an absolute value, as `save(Product)` does,
while the compensation adds to whatever is there, as `increment` does.

Neither the locking `SELECT` nor the compensation's list of items has an
`ORDER BY`, so the rows come in any order in the model. A cycle of waiting
transactions ends with one of them aborted (`DeadlockAbort`); PostgreSQL chooses
which, so any may be.

A connection is in use from `connect` until the answer (`FirstConnection`); the
compensation holds a second one for its transaction, the payment update and the
duplicate lookup need a free one for a moment. `qr.release()` is in `finally`, so
the answer and the release are one step.

An `Authorize` call sits in `wire` until the payments service handles it. The
caller may give up (`AuthorizeFails`) before it is handled, after, or when it
never will be; a call handled late still creates its payment. A payment id is
named after the order it was created for.

`Faults` says which failures a run allows: `crash` (the API dies, open
transactions roll back, requests in flight are never answered), `statement` (any
statement, or the publish on a closed channel, throws), `rpc`, `publish` (an
unconfirmed message is lost), `restart` (the payments service loses its maps).

`WorkerCompletes` is the worker as these tables see it.

### OrderBook

Four steps and no requests: an order is placed (all its units or none, and no
rival under its user and key), paid, failed (its units come back in the same step)
or processed (only if it is paid). `Checkout!ImplementsBook` maps it by the
identity on `input`, `stock`, `status` and `payment`: the commit of `createOrder`
is `Place`, the update after `Authorize` is `Pay`, the compensation's commit is
`Fail`, the worker's is `Process`, and everything else stutters. What makes this
worth saying is `Place`, which compares with the stock of the moment of the
commit, while the code compared with what it read earlier.

### OrdersWorker

A message is an order and an attempt (the API sends one message id per order);
the queues count how many copies of each message they hold. `Slots` are the
deliveries `prefetch` allows at once. The insert into `processed_messages` blocks
on an uncommitted row of the same message and fails on a committed one. Commit,
republish and acknowledgement are separate steps, so that faults fall between
them. `failures` is a history variable: it counts the roll-backs of an order, and
no guard reads it.

The faults, at most `MaxOutages` of them together except `fail`:

- `fail`: the work throws; roll back and republish with the next attempt.
- `db` (`NackRequeue`): something outside `handle`'s `try`, or the rollback in its
  `catch`, throws. The `catch` in `consume` puts the message back, its attempt
  unchanged. A `COMMIT` whose answer is lost comes out here too, after it took
  effect or not.
- `crash`: the process dies; every unacknowledged message goes back.
- `disconnect`: the broker closes the connection in order. `amqplib` emits `close`
  and no `error`, and `RabbitService` listens to neither, so nothing reconnects:
  `connected` stays `FALSE`, the messages are back in the queue and the handlers go
  on with them. The worker has no HTTP server. Its next publish or acknowledgement
  throws, so does the `nack` in `consume`'s `catch`, the rejection is unhandled and
  Node ends the process; with no handler left nothing keeps it alive either (`Exit`).
  Docker starts a new one.

### OrdersSystem

The variables of both modules over one `status` and one `published`. Every action
is an action of one module with the other's variables unchanged, except the
publish of `createOrder`, which is also `OrdersWorker!ApiPublishes`. The worker's
commit replaces `Checkout!WorkerCompletes`. Two refinements say that neither
module idealises the other: `ImplementsCheckout` under the identity, and
`ImplementsWorker` with `Told` for the worker's `status`, because the worker's own
specification starts when an order is published and knows no order before that.

### OrderQueries

Orders are created (`createdAt` is `now()`, the start of the transaction, so an
order may appear behind newer ones), failed and processed, while one client walks
a list. `getMany` with `take`, `skip` and a join makes TypeORM send two statements,
the ids of the page (`FindIds`) and their rows, filter included (`FindRows`), so that
a page may come out shorter than its ids; the loader then gets the distinct product ids
of the page, once, and the rows of `findBy` come in any order and for any of the ids
(`found`; the foreign key of the items keeps all of them, but the loader has a `null`
for a missing one). The client's walk (next offset, stop at a short page) is
not part of the repository and is marked external. Creation times are distinct
here: ties, which the query leaves to the database, are not modelled, nor is the
default limit, which is a limit like any other.

`getMetrics` counts processed orders and then processed messages; the worker
writes both in one transaction.

### Startup

A run begins with nothing, with what a stopped deployment left (tables, topology, a
retry queue), or with one that still runs: its services serve, wait to be restarted, or
are cut off. `deploy.sh` runs under `set -e`: wait for the infrastructure, run the migrate
job with its retries, then let `compose up` replace the services one by one (`Replace`;
`replaced` says which run the new image). Until its turn a service of the former
deployment is restarted by Docker like any other (`Restart`), and synchronizes the
tables to its own entities (`Synchronized`): `schema` says whose entities the tables
are of. A service initializes its DataSource
(`synchronize` is on, so the first one to find no schema would create it), connects to
the broker, and makes the seven declarations of `assertTopology` one by one. A queue
that exists with another TTL is refused (406), which closes the channel. A service that
fails exits, and Docker starts it again. Database and broker stop and come back; a
broker that shuts down in order leaves the API, which has an HTTP server, alive without
a channel (`cutOff`).

### Files

`complete` is three statements: read and check, save `ready`, link the product.
Statements of other calls, failures and crashes come between them. A `presign` that
fails does so in the save, without a record, or in the signing, with a pending one.

### OrderPolicy

One step per iteration. A price is its number of cents. The reference definitions
are set cardinalities: the quantity of a product is the number of its units
`<<line, k>>`, the amount the number of cents of all units.

## Runs

| Run | Bounds | Result |
|---|---|---|
| `order_policy` | all orders of 1-3 lines over 3 product ids (one unknown), quantities 1-2, stocks 0-3 | the plan's sums and amount are exact; an order is rejected exactly when the business rule says so |
| `checkout` | 3 requests, 2 products, pool of 4, all faults; either three orders that meet on rows, or two repeats of a key and a third of another user, with an unknown product or user, or without key, or two bodies under one key | stock conserved, never oversold, plans not stale, one order per user and key, only paid orders published, answers truthful (503/504 final, rejections without trace, reuse of the own order), every payment held is on its live order or its client was told otherwise, payments belong to orders and are shared only between users with the same key, a pending order without a message is one whose client was told of an error or of nothing (or whose message the channel lost), only the pool can block all requests, the order book implemented |
| `checkout_progress` | 3 requests on one product, pool of 4, payment errors | every request answered, every order decided |
| `worker` | 1 message, 2 slots, `MaxAttempts` 2, 2 outages of any kind | nothing lost, nothing processed twice, attempts count failures and are bounded, the message ends processed or in the DLQ |
| `system` | 2 requests on one product, stock for both or for one, pool of 3, payment errors and restarts; 1 slot, `MaxAttempts` 1, 1 outage | the composition implements both parts; messages find paid orders; an order answered 201 is processed or has a message; every order is failed, processed or dead-lettered |
| `queries` | 3 orders, pages of 2 and of an invalid 3, 4 filters | walks miss nothing, items show their product or none, metrics agree |
| `startup` | 2 services, 2 attempts each for migration and database, 3 outages; no former deployment, or one with the same or another retry delay, stopped or running | one creator of the schema, the new one's schema in the end, no traffic without topology, every service ends up serving |
| `files` | 2 uploads, 3 calls, statement failures and crashes | product images are ready files of an admin, a product completed has an image, a file is ready only through its owner's complete, no record goes back |
| `pool_exhausted` | 2 requests, pool of 2 | **violated**: see below |
| `rows_deadlock` | 2 requests, 2 products | **violated** |
| `repeat_conflict` | the same request twice | **violated** |
| `lost_message` | 2 requests, API crash, payment errors | **violated** |

Why these bounds are enough for the cases that matter. In `checkout` every
conflict is between two requests (over a row, a key or a connection), and the
third adds a bystander that takes the stock or the key in between; two repeats with
the same body meet on the product rows first, so that a third input gives them
different bodies and leaves only the unique index between them; two products are
the least for a lock cycle, one product named on two lines the least for
aggregation; a pool of 4 lets the pool be the bottleneck without being exhausted.
In `worker` two slots are the least for two copies at once, `MaxAttempts` 2 tells
the first, a middle and the last attempt apart, and two outages let a duplicate be
duplicated; orders share no state but the slots, so one is enough. `system` needs
what crosses the border, an order that fails and one that is published, with one
outage on the other side. In `queries` three orders are two pages, and one order
has two items. In `startup` three outages stop a service in a retry of a retry.

The type invariants `TypeOK` are in no run: they are proved in every module (below)
and are the first conjunct of every inductive invariant.

All the passing runs check for deadlock except `startup`, where a failed
deployment, like a system that serves, takes no further step. In the others a
behaviour may end only when everything is answered, handled and processed
(`Settled`, `Drained`, `Quiet`, `Idle`, `Returned`); in `queries` the scraper never
stops.

### Waiting

A request may wait for a free connection, for a row, for an uncommitted order under its
key, or for a reply. `CanGoOn(r)` spells out, place by place, that the next statement of
`r` does not have to wait. It is written without `ENABLED`, which the prover does not
have; its disjuncts are the guards of `Step(r)` and of `PaymentsHandle(r)`, disjunct by
disjunct. `OnlyThePoolCanJam` says that when nobody can go on, all that are under way
wait for a connection and none is free. In the `checkout` run its third case does not
arise, because the pool has a connection more than there are requests; `pool_exhausted`
reaches it. A row-lock cycle counts as "can go on", because PostgreSQL aborts a member
of it; that nothing else closes a cycle which no one detects is what the property is
about.

### How often an order is tried

The attempt is a field of the message. When the worker dies between a republish and its
acknowledgement, the old copy comes back beside the new one and each goes on with an
attempt count of its own, so that `MaxAttempts` does not bound how often one order
fails. `RetriesAreBounded` is the bound that does hold: `MaxAttempts + 1` failures, and
as many again for every delivery that an outage may have put back, at most `prefetch` of
them per outage.

### What the violations show

- `pool_exhausted`: with as many concurrent requests as pool connections (the
  `pg` default is 10, without a timeout), each holds one connection and waits for a
  second. Nothing ever frees one. `checkout_progress` shows that one spare
  connection is enough.
- `rows_deadlock`: the compensation deadlocks with a new order over the same
  two products and is the victim; the client gets 500, the order stays pending
  and its stock stays taken.
- `repeat_conflict`: a repeat that looked for its order before the first request
  committed waits for the rows and is then told that stock is insufficient.
- `lost_message`: after a crash between commit and publish an order stays
  pending; a repeat of the request returns it and publishes nothing. (Payment errors
  are allowed in this run, so that no request waits for ever for a reply: the crash is
  the only reason an order can stay pending.)

### What holds only under a condition

- `PaymentHeldIsAccountedFor` says who knows of a payment, not that it is refunded: one
  authorized after the deadline stays authorized for a failed order, whose client was told
  503 or 504, and one whose update failed stays with an order that is pending, whose
  client was told 500. Nothing in the code gives either back.
- `ReadyByOwner` allows a ready image that no product has while the owner's `complete` is
  between its two writes, and for ever when it died there or was answered an error. A
  repeat is refused with 409.
- `SchemaFitsServices` speaks of the time when every service is replaced and through its
  initialization. Before that a service of the former deployment may put back its own
  tables under services that already serve.
- `EveryServiceServes` excepts three cases: a failed deployment; a retry queue with
  another TTL, which no restart gets past; and an API cut off from the broker, which
  `/ready` does not notice, since it asks the database only.
- `WalkIsComplete` excepts the filter `pending`: orders leave that list while it is
  walked, so that later ones move to earlier places and offset paging skips them.
- `EveryOrderSettles` and `EveryMessageSettles` count the dead letter queue as an end:
  nothing consumes it.

### Fairness

`Checkout!Fairness`: a request whose next statement can run takes it (Node runs
settled continuations, PostgreSQL grants free locks and breaks deadlocks), and the
gRPC deadline fires. The payments service is *not* assumed to answer. The worker is
assumed to process what was published, which makes `lost_message` the stronger.

`OrdersWorker!Fairness`: handlers run, the TTL runs out, a worker cut off exits and is
restarted (`restart: unless-stopped`), and a message that can be delivered again and
again is delivered in the end (strong fairness: queues are first in, first out). A
handler may fail every time; attempts bound that. Outages are finitely many, by
`MaxOutages`: requeueing without counting has no bound in the code, and a message whose
handling always meets an outage goes round for ever.

`OrdersSystem!SystemFairness` is both, without the worker's benefit of the doubt.

`Startup!Fairness`: the script and the services go on, `compose up` comes to every
service, Docker restarts what ended, and the database and the broker come up in the end.

## Proofs

Every theorem holds for all values of the constants under the assumptions stated in
the modules (finitely many requests, orders and slots; natural initial stock and
validated lines; `None` and `NoMessage` outside the sets they are added to).

| Module | Theorem | Property |
|---|---|---|
| `Checkout_proof` | `TypeCorrect` | `TypeOK` |
| | `StockIsConserved`, `StockIsNeverOversold` | `StockConserved`, `NeverOversold` |
| | `PlansAreNotStale` | `PlanIsNotStale` |
| | `KeysAreUnique`, `RepeatsGetTheirOwnOrder` | `OneOrderPerKey`, `ReuseAnswersOwnOrder` |
| | `RejectionsLeaveNoTrace` | `RejectionLeavesNoTrace` |
| | `PublishedOrdersArePaid`, `PaymentErrorsAreFinal` | `PublishedOrderIsPaid`, `PaymentErrorIsFinal` |
| | `PaymentsHaveOrders`, `SharedPaymentsCrossUsers` | `PaymentsAreForOrders`, `PaymentSharedOnlyAcrossUsers` |
| | `HeldPaymentsAreAccountedFor` | `PaymentHeldIsAccountedFor` |
| | `OrdersKeepTheirHistory` | `OrderHistory` |
| | `OnlyThePoolJams` | `OnlyThePoolCanJam` |
| | `SpareConnectionSuffices` | with `PoolSize > Cardinality(Requests)`, some request can go on until all are answered |
| | `PendingOrdersAreAccountedFor` | `PendingIsAccountedFor` |
| | `CheckoutImplementsBook` | `ImplementsBook` |
| `OrderPolicy_proof` | `PolicyTypeCorrect` | `TypeOK` |
| | `PlansAreExact`, `OutcomesAreJustified` | `PlanIsExact`, `OutcomeIsJustified` |
| `OrdersWorker_proof` | `WorkerTypeCorrect` | `TypeOK` |
| | `WorkIsRecorded` | `RecordedIffProcessed` |
| | `MessagesSurvive`, `AttemptsCountFailures` | `NoMessageLost`, `AttemptsAreFailures` |
| | `RetriesEnd` | `RetriesAreBounded` |
| | `OrdersAreProcessedOnce` | `ProcessedOnce` |
| `OrdersSystem_proof` | `SystemImplementsCheckout`, `SystemImplementsWorker` | `ImplementsCheckout`, `ImplementsWorker` |
| | `MessagesFindPaidOrders`, `SystemConservesStock` | `MessageFindsPaidOrder`, `StockConserved` |
| | `CreatedOrdersAreCarried` | `CreatedOrderIsCarried` |
| | `SystemImplementsBook` | `ImplementsBook`, of the whole system |
| | `WorkerKeepsItsPromises` | `AttemptsAreFailures`, `RetriesAreBounded`, `ProcessedOnce`, of the whole system |
| | `ApiKeepsItsPromises` | `NeverOversold`, `OneOrderPerKey`, `PaymentErrorIsFinal`, `RejectionLeavesNoTrace`, `ReuseAnswersOwnOrder`, `OnlyThePoolCanJam`, `PendingIsAccountedFor`, `PaymentHeldIsAccountedFor`, `OrderHistory`, of the whole system |
| `OrderQueries_proof` | `QueriesTypeCorrect` | `TypeOK` |
| | `WalksAreComplete` | `WalkIsComplete` |
| | `ItemsShowTheirProducts`, `MetricsAgree` | `ItemShowsItsProduct`, `MetricsNeverAhead` |
| `Startup_proof` | `StartupTypeCorrect` | `TypeOK` |
| | `SchemaIsMigratedFirst`, `SchemaFitsInTheEnd` | `SchemaIsMigrated`, `SchemaFitsServices` |
| | `TrafficHasTopology` | `TrafficFindsTopology` |
| `Files_proof` | `FilesTypeCorrect` | `TypeOK` |
| | `ImagesAreAdminsReadyFiles`, `CompletedProductsHaveImages` | `ImageIsAdminsReadyFile`, `CompletedProductHasImage` |
| | `FilesAreReadiedByOwners`, `RecordsMoveForward` | `ReadyByOwner`, `FileHistory` |

Few of these are inductive alone. The invariants that are:

**Checkout.** `StatusInv`: the place of a request determines what its order's row can
say (no row before the commit; pending and unpaid until the payment is recorded;
published only after the end). `LockInv`: only open transactions lock rows, and a row
once visited stays locked. `SeenInv`: what a request read from a row it has locked is
what the row says, because stock changes only under the lock of the one that changes
it. `PlanInv`: a plan in flight is covered by what it read. `KeyInv`: a row about to be
committed has no rival under its key. `TraceInv`: a call on its way, a payment on
record and a reply each belong to an order that was committed, and a payment found by
a key was made under that key. Conservation then follows from `HeldByOneMore`: one more
order holds exactly `QuantityOf` more units (cardinality of a disjoint union), so the
commit and the compensation move the same number in opposite directions. The
refinement uses the same invariant: `SeenInv` and `PlanInv` make the comparison with
the old reading one with the stock of the commit, `KeyInv` excludes rivals.
`PendingIsAccountedFor` is carried along as it is, with the places that lead to each
answer in `StatusInv`; `CreatedInv` says that an answer 201 means published, or lost by
the channel. `HeldInv` is what `PaymentHeldIsAccountedFor` needs: an order calls
`Authorize` once and stores nothing but its reply, and what the property says of a
payment on record holds of a call on its way already, since it may be handled at any time.

*Nobody waits for ever, but for the pool.* `WaitInv`: a call waited for is on its way or
answered, and the row a request is blocked on is one its statement still has to lock.
Suppose a request is locking rows and nobody can go on. The holder of the row it waits
for has an open transaction (`LockInv`); an order that is inserted could commit, and an
insert waits only for one that is inserted, so the holder is locking rows too
(`BlockedByBlocked`). "Blocked by" is then a function on a finite set of requests, and some
non-empty part of that set is permuted by it (`SomePartIsPermuted`: a least one of the
non-empty parts the function does not lead out of, which exists because strict inclusion
of finite sets is well-founded). That part is a cycle of waiting transactions,
`OnWaitCycle` holds of its members, PostgreSQL aborts one, and so somebody can go on after
all (`LocksNeverJam`, `NoJamButThePool`). `SpareConnection` counts: if all that are under
way need a connection, no compensation is open, and each of them holds one at most.

**OrderPolicy.** The loop invariants. `MapInv`: after `i` lines the map holds the number of
units of those lines, product by product; one more line adds a disjoint set of units
(`OneMoreLine`). `AmountInv`: the amount is the number of cents of the products visited;
one more product adds a product set of units and cents (`OneMoreProduct`).
`OutcomeInv`: how the second loop was left.

**OrdersWorker.** `HoldsInv`: a slot is idle exactly when it holds no message.
`WorkInv`: no two copies of a message are past the insert (`Serialised`, which is the
wait of the primary key), an order being worked on is not recorded yet, and a handler
that met 23505 is at an order that is recorded. `CopyInv`: stronger than `NoMessageLost`, it does not
count the copy of a slot that is about to be acknowledged, which the next step would
remove; nor does it count slots of a worker that is cut off, whose messages are back in
the queue. `AttemptsInv`: a handler that is about to republish has counted its failure.
`RetryInv` is a potential argument. `Worth(m)` is the number of failures a copy of `m` may
still cause, `MaxAttempts + 1` less its attempt. The failures an order has had and
the worth of its copies, in `orders.process`, in `orders.retry.5s` and in the slots, are
together at most what its publish (`MaxAttempts + 1`) and the outages brought in. Sums
over queues are out of the prover's reach, as induction is, so the worth is counted as
the cardinality of a set of units, `<<message, copy, failure>>` in a queue and
`<<slot, failure>>` in a slot: a publish, a republish and a delivery add or remove a block
of units (`PutUnits`, `TakeUnits`, `SlotUnitsChange`), and what the broker puts back maps
injectively to the units of the slots (`PutBackUnits`). A handler of a worker that is cut off
can fail once more and cannot republish, so it is worth one, and a shutdown costs no more
than a crash (`DisconnectUnits`).

**OrdersSystem.** `Tracked` adds to Checkout's invariant that every message, in a queue
or in a slot, is about a published order; `PublishedOrderIsPaid` says the rest, which is
why processing "whatever the status is" is `WorkerCompletes` or a stutter. In the other
direction `ApiSeen` shows that no step of the API changes what the worker sees except
the publish, because a published order is no longer the API's (`StatusInv`).

The refinements are then used: `OrdersWorker_proof` is instantiated with the view of
`ImplementsWorker` (`WP`), `SameWorker` shows that both instances name the same
specification, and every theorem of the worker becomes a theorem of the system.
`CreatedOrdersAreCarried` needs both sides: `CreatedInv` of the API and `NoMessageLost` of the
worker.

**OrderQueries.** `TimesInv`: creation times are distinct. `RankIsBijective`: the places of
the orders of a list are exactly 0 to its length less one, so a page that is not short
has exactly `limit` of them (`PageIsFull`). `WalkInv`: an order due and not yet listed,
unless it left the list, is at a place not yet passed, and `PlacesGrow` keeps it so: no
step of the tables moves an order of a list other than the pending one to an earlier
place.

**Startup.** `CountInv`: the last attempt of a migration or an initialization has not
failed yet while there is another. `OrderInv`: the declarations before a service's `step`
exist, whoever made them, there are tables wherever a service runs or the script has
started anything, and `SchemaFitsServices`, which survives a late synchronization because the service that
makes it has still to be replaced, and initialized again after that.

**Files.** `RecordsInv`: a record exists only for a presign that was allowed. `CallsInv`:
what a call knew after its check is still true, except that another may have readied
the file. `StillReadied`: the complete that made a file ready goes on witnessing it
through every later step, its own link, error or death included.

Not also checked by a run: the type invariants; `OrderHistory`, which follows from
`ImplementsBook`; what the system inherits from its parts; and `SpareConnectionSuffices`,
of which `checkout_progress` checks the temporal consequence.

Only model-checked: all liveness (`EveryRequestIsAnswered`, `EveryOrderIsDecided`,
`EveryMessageSettles`, `EveryOrderSettles`, `EveryServiceServes`; fairness and ENABLED
are out of the prover's reach), and of course the four violations. `SpareConnectionSuffices`
and `RetriesEnd` are the safety halves of two of these: some request can always go on, and
no order is retried without end.

## Not modelled

- `getOrder`: one read under an ownership filter. The guard: a stateless header check;
  requests carry their user.
- Error filter, logging: formatting. The codes of the answers are in `Checkout` and `Files`.
- `getReadiness` is `SELECT 1`; the other health endpoints are constants.
- The seed: run by hand on an empty shop. Run again later, it sets the stock of its
  products back without regard to the orders that hold units of them.
- `GetPaymentStatus` reads only and is never called; `Capture` and `Refund` are stubs.
- S3: a signed URL is an answer, the object store is outside.
- Ids that are not UUIDs make a statement fail, which is the `statement` fault. A
  `COMMIT` of the API whose answer is lost behaves for the database like a crash right
  after it. Messages that are not JSON do not come from this API.
- The payments service has neither database nor broker, so it has no part in `Startup`.

## Plan

Done: everything the table of modules lists, and a theorem for every safety property a
run checks. Left:

1. Ownership of `getOrder` beside `findOrders`.
2. `OrdersSystem` with `publish` losses and API crashes, for safety only: the theorems
   cover them, the run does not.
3. `RetriesAreBounded` counts every outage alike; one that finds the worker idle copies
   nothing, and the bound could say so.
