# A TLA+ model of the QuickBite order service

The order service is the part of a food-delivery platform that takes orders, collects
their payment, has them delivered and keeps the restaurants' balances. It is a TypeScript
program (Express, Knex on PostgreSQL, Redis, RabbitMQ, socket.io): an HTTP process with
`async` handlers (`src/src/server.ts`) and a worker process that runs three periodic jobs
(`src/src/worker.ts`), several of each, on one database per region.

This directory holds a model of it, TLC runs that check the model, and proofs that TLAPS
checks. Source paths below are relative to the directory that holds `tla/` and `src/`;
`app/` is short for `src/src/app/`, `lib/` for `src/src/lib/`, and file names such as
`deliveries.md` are in `src/docs/business-logic/`.

    tlc -workers 2 -config MCServiceConcurrent.cfg MCOrderService.tla
    tlapm ServiceProofs.tla

PROJECT.json lists the components, runs, theorems, findings, hazards and, for each
definition, the lines it models.

## 1. Inventory

| Component | State | Operations | Talks to |
|---|---|---|---|
| order (`app/order`) | `orders`, `order_items`; cached order details, branches, products | `placeOrder`, deferred `reserveStock`, `updateStatus` by customer, restaurant or administrator, `internalUpdateStatus` | core service (prices, stock), payment (cash collection row), outbox |
| payment (`app/payment`) | `transactions` (charge, cod_collection, refund), `payment_webhook_events`, `payment_sessions`; cached session | `initPayment`, `handleWebhook`, `refundPayment`, `settleDelivery`, the sweep job | the provider Kashier, order, finance, outbox |
| finance (`app/finance`) | `restaurant_balances`, payout transactions; cached balance | credit, debit, settle, `createPayout` | called in the transactions of payment and delivery |
| delivery (`app/delivery`) | `deliveries`, `orders.delivery_agent_id`, `orders.reassignment_count`, `agent_earnings` | `assignDelivery`, `reassignDelivery`, `updateDeliveryStatus`, `settleAndDeliver` | order, payment, Redis presence |
| delivery-agent (`app/delivery-agent`) | Redis: `presence:geo`, `presence:meta` (expires), `presence:busy` | `goOnline`, `goOffline`, `ping` | read by delivery and assignment |
| assignment (`app/assignment`) | Redis: offer, claim lock and attempts counter of an order, all with a TTL | `tickRegion` (worker), `claim`, `reject`, `adminAssign` (no routes yet) | order, presence |
| outbox (`lib/outbox`) | `outbox` | `writeOutboxEvent`, the drain job | RabbitMQ |
| core events (`lib/messaging`, `lib/core-events`, `lib/rbac`) | Redis dedup keys; permissions per process | the consumer of the core service's events | RabbitMQ, core service |
| pagination (`lib/http/pagination`) | the cursor, kept by the client; cached pages | ten lists of orders, transactions, payouts, balances, earnings, tasks, agents, outbox rows | all of the above |
| idempotency (`lib/http`) | Redis: stored response of a key | middleware | every POST that uses it |
| internal (`app/internal`) | none of its own | `POST /internal/webhooks/core`: the handlers of the core events, without the broker | core service, caches |
| admin, restaurant-orders, health | none of their own | routes to the services above | |
| lib, pkg | wiring: jobs, sharding, websocket, clients, auth, validation, errors | | |

What makes it hard:

- **Interleaving.** A handler reads rows, awaits, and later commits one transaction at READ
  COMMITTED whose UPDATEs name rows by id only. Nothing repeats the check that was made on
  the row read. Only `payoutFromAvailableBalance`, `claimReadyOrderForAgent` and the
  relative arithmetic on balances are safe by themselves.
- **Jobs that overlap.** `setInterval` starts a job whether or not its last run has ended,
  and each worker runs all of them. The outbox's `FOR UPDATE SKIP LOCKED` has no
  transaction around it and so holds nothing.
- **Uniqueness that is not enforced.** Tables are partitioned, so each unique constraint
  includes the partition's timestamp and refuses no duplicate.
- **Repetition and delay.** The provider repeats its notices; the broker redelivers; keys
  expire in Redis before what they stand for is over; `reserveStock` answers whenever it does.
- **Crashes and lost writes.** Redis writes and `reserveStock` run after the commit, without
  being awaited, and may be lost. A loop may stop anywhere, also between two Redis commands
  that belong together.
- **Copies.** Permissions, branches, products, orders and balances are read through caches;
  an answer that crosses an invalidation is stored after it.
- **Constraints that abort.** A balance that would leave 0..2^31-1 aborts the whole
  transaction it is part of, a delivery's completion included.

What makes each component correct:

- *order*: closed orders stay closed; the kitchen works on accepted, paid orders.
- *payment*: what is recorded as paid was confirmed; a payment that is acknowledged takes
  effect, once; refunds stay within the charge; an unpaid order is resolved; every notice is
  answered.
- *finance*: money is conserved; no recorded payment is missing from the balance, and none is
  in it twice; the constraints never refuse a legitimate operation; only settled money is paid
  out.
- *delivery*: one active delivery per order; delivery and order agree; closed
  deliveries stay closed; reassignments are bounded and lead to a new assignment; a
  completion settles once, and only a paid order is completed.
- *assignment*: the first claim wins; nobody is added to an offer that stands; an order that
  is ready is offered again and again.
- *outbox*: only committed events are sent; what is recorded as sent was sent; a committed
  event is sent, or given up after `MAX_ATTEMPTS` failures.
- *core events*: one message is handled at a time, however often it is delivered; every event
  is settled; no old copy stays for good; what is taken for done was done.
- *pagination*: a client that reads to the end misses nothing, sees nothing twice, and does
  reach the end.

The hazards of PROJECT.json name the line where each of these may go wrong.

## 2. Modules

| Module | Models | Builds on |
|---|---|---|
| `OrderStatus` | the statuses and the transition tables of `updateStatus` (constants only) | |
| `Orders` | `placeOrder`, `reserveStock`, `updateStatus`; the requests in flight | `OrderStatus` |
| `RestaurantBalance` | one row of `restaurant_balances` and the statements of `finance.repo.ts` (constants only) | |
| `Payments` | the payment component, the provider and the sweep | `Orders`, `RestaurantBalance` |
| `Delivery` | assignment by an administrator, reassignment, the courier's requests, presence | `Orders` |
| `OrderService` | all of these on the same rows, with settlement and payouts | `Payments`, `Delivery` |
| `Assignment` | the worker's offers, claims, rejections, presence with its pings | `Orders` |
| `EventDelivery` | what the outbox promises (abstract) | |
| `Outbox` | the outbox table, the drain jobs of several workers, the broker's connection | refines `EventDelivery` |
| `CoreEvents` | the consumer of core events, and every cached copy of data | |
| `Listing` | cursor pagination over the ten lists | |
| `OrdersProofs`, `OutboxProofs`, `AssignmentProofs`, `CoreEventsProofs`, `ListingProofs` | theorems | the module they are named for, `TLAPS` |
| `PaymentsProofs`, `DeliveryProofs` | theorems | `Payments` and `Delivery`, with `OrdersProofs` |
| `ServiceProofs` | theorems of the composition | `OrderService`, with `PaymentsProofs` and `DeliveryProofs` |
| `MCPayments`, `MCDelivery`, `MCOrderService`, `MCAssignment`, `MCOutbox`, `MCCoreEvents`, `MCListing` | instances for TLC | |

**Requests.** `jobs[h]` is the request that handler `h` carries out and what it has read;
`Handlers` bounds how many overlap. An operation that reads, awaits and commits is two
actions (`UpdateStatusRead`, `UpdateStatusCommit`), and a webhook, which reads twice in its
transaction, is three (`WebhookReceive`, `WebhookMatch`, and the outcome). All reads that a
request makes before its transaction are one step. `Abort` stands for a transaction that
fails, or a process that stops before COMMIT. A commit is one step because its effects
become visible together; row locks only delay it. With one handler, requests never overlap.

**Rows.** An order is its status, its payment method and whether `accepted_at` is stamped;
the order's agent and reassignment count are variables of `Delivery`. A charge is its
status, `is_refunded`, and the number and the sum of the refund rows that name it. The `cod_collection` row
of an order is `collection[o]`; the payout rows of a restaurant are their sum, `paidOut[r]`.
`webhookEvents` holds the events whose row is committed; an uncommitted one is nobody
else's to see. Ids are not reused.

**The provider** is external: `notices` holds what it has sent. It may deliver a notice any
number of times, in any order, and twice at once; so a notice stays in the set. A session is
paid at most once. Whether a customer may try again in a session that failed is the constant
`RetriesInSession`, for nothing in the repository tells: it is TRUE in `payments` and
`webhook_body` and FALSE in the other runs; the theorems hold for both.

**The body of a notice.** `app.ts:22-25` leaves the body raw for the path
`/api/payments/webhook` only, and the route is `/webhook/:provider`. `express.json` has
parsed a notice when `payment.controller.ts:36` calls `JSON.parse(body.toString())`; that
throws, and the request ends in a 500 before `handleWebhook`. `BodyIsRaw` says whether the
body arrives as the controller expects it. With FALSE, which is the code as it is mounted, no
notice is ever taken up (`webhook_body`). The other runs have TRUE and show what the service
does behind its controller; the theorems hold for both.

**Money** is in minor units of one currency. `placeOrder` sets every fee and the discount to
0, so the total of an order is its subtotal, commission is 0, and an agent earns nothing: no
row of `agent_earnings` is ever written.

**Redis** in `Payments` and `Delivery` holds the session cache (any entry may vanish),
presence (an agent may stop pinging at any time) and the busy set, written after the commit
by a job that a crash may cut off. With `RedisErrors` a command on the busy set may fail too,
which the code ignores.

**Deliveries.** `AssignRead` stands for the agent the administrator names and for the
nearest eligible one alike: both must be online and not seen as busy. A rejection frees the
agent and goes on to `ReassignRead`; a reassignment goes on to `AssignRead`. When the next
step is refused, as it always is, the job ends in `Abort`.

**Offers.** In `Assignment` every awaited Redis command is a step, for keys expire and
requests run between any two of them: `claim` is `ClaimRead` (the offer), `ClaimLock`
(SET NX), `ClaimCommit` (`claimReadyOrderForAgent`), `MarkWinnerBusy`, `CloseOffer`; a tick
is `TickStart` (the SELECT), and for each order `Look`, `MakeOffer`, `CountAttempt` (INCR)
and `LimitAttempts` (EXPIRE). A tick or request that fails stops where it is. That an answer
to COMMIT may get lost is covered by `Abort` and the expiry of the lock, and that a presence
key cannot be read by its expiry. All agents are in reach of all restaurants; which are
nearest, and which orders oldest, is left open. `ping` is `PingRead` and `PingWrite`, with
`goOffline` possible in between. The component writes no delivery row: an order that is
claimed has an agent and no delivery. It is therefore not composed with `Delivery`; no route
calls `claim`, `reject` or `adminAssign` yet. The worker never attaches a socket server, so
that `task.offered` reaches nobody; nothing depends on it.

**The outbox.** `ticks[t]` is a run of the drain job: the rows it has selected and whether it
is about to publish the row at hand, to mark it sent, or to mark it failed. `publish` waits
while the broker is away and, when the connection breaks before the confirmation, sends
again (`PublishUnconfirmed`): that is how `amqp-connection-manager` behaves, which is
external. SIGTERM stops the interval and closes the channel, but a tick in progress goes on
until the process exits. The table has an `event_id` in `writer.ts:13` and `outbox.repo.ts:18`
that the migration does not create; the model takes the table as the code uses it.

**Copies.** `CoreEvents` numbers the changes of an item, so that a copy is current or old.
`lookup[p]` is an answer that process `p` has and has not cached yet. An order is read from
the database before Redis is asked (`AskRedis`), everything else after Redis had nothing.
The consumer has up to `Prefetch` events at a time. It marks each (`Mark`: SET NX on its
routing key and the hash of its body), handles it and acknowledges it; what a crashed process
held goes back to the queue. The three events of a branch and the two of a product have marks
of their own, so that two of them may be handled at once. Whether a body tells two changes of
an item apart is the constant `EventIdInBody`, since it is the core service that writes it:
the payloads of `lib/core-events/types.ts` hold only the item's id, so that a second change
within the hour is taken for a duplicate (FALSE, in `core_events`); the envelope of
`system-design.md:214-221` has an `eventId` (TRUE, in `core_duplicate`), but `handlers.ts`
reads `payload.branchId` at the top level, where an envelope has none. The core service may
also post an event to a server (`CoreWebhook`), which handles it without a mark. Products are
invalidated under a key that nothing is cached under, deliveries and the
sweep change orders without deleting the copy, and the DEL after a commit is not awaited:
`Handle` and `RowChanges` do as the code does. A mark lives for an hour, and no handler takes
that long (`MarkExpires`).

**Lists.** A row is its id and the time in its sort column. `ListKind` records what each of the
ten lists does differently. `contents` holds all that the list has been since the start, of
which a cached page may show anything: more than a TTL of 30 or 60 seconds allows.

## 3. Runs

Every configuration has `CHECK_DEADLOCK FALSE`: a system in which all bounded ids are used up
and no request is in flight may stop. Handlers, events and the like are model values;
symmetry over handlers, events, agents or delivery ids is used only where no liveness
property is checked.

Passing runs:

| Run | Instance | Shows |
|---|---|---|
| `payments` | two handlers, two events, one session with retries, refunds of 1 and of 3 (the charge is 2) and of the whole charge, under `FairPaymentsSpec` | `SucceededOnlyIfConfirmed`; `ConfirmedPaymentTakesEffect`: an acknowledged payment has its effect, unless an attempt failed too; `NoPaymentIsLost`: recorded payments are in the balance; `CreditsBounded`, `RefundsBounded`: overlap multiplies a credit or a refund by no more than the requests that overlap; `UnpaidIsResolved`, `NoticesAreProcessed` |
| `service_sequential` | one handler, restaurant and administrator who overrides, one order, online or cash, with two sessions, two deliveries, payouts | `DeliveredOnlyIfPaid`, `DeliveryMatchesOrder`, `ClosedDeliveriesAreFinal`, `ReassignmentsBounded` (which with one handler is the maximum itself), `SettledOnce`, `AvailableIsSettled` |
| `service_concurrent` | two handlers, customer and restaurant, one session, three deliveries, Redis failing, payouts, the sweep | `Conservation`, `PaidBeforeKitchen`, `AcceptedBeforeKitchen`: under overlap, nothing unpaid or unaccepted is cooked and no money is made or lost; `ActiveDeliveriesBounded`: one active delivery per request that overlaps |
| `assignment` | two ticks, one request, two agents, under `FairMCSpec` | the first claim wins; nobody is added to an offer that stands; a ready order is offered again and again, unless the counter of its attempts lost its TTL |
| `outbox` | two events, two workers with one tick each, under `FairOutboxSpec` | the outbox implements `EventDelivery`; attempts are bounded; a committed event is sent or given up once the broker is back and a worker stays up |
| `core_events` | a server and a worker with two events each, one item of each kind, of which one changes, under `FairMCSpec` | one message is handled at a time; events are settled; old copies go |
| `listing` | three rows in each of the ten lists, pages of one or two | nothing skipped, nothing repeated, walks end |

The runs of `Delivery` and `Assignment` alone have `Methods = {"cod"}`: these components read
neither the payment method nor the money, which come in with `OrderService`.

Some properties carry an exception, because the code does: `ReadyIsOffered` gives up an order
whose counter was left without TTL by a crash between INCR and EXPIRE (`CounterStuck`);
`NothingRepeated` and `WalksEnd` except the list of balances, whose cursor is inclusive, so
that it repeats a row per page and does not advance with a limit of 1; the lists sorted by
time with a cursor on the id are right only for rows whose times and ids agree
(`Consistent`). `WalksEnd` is unconditional for a walk downwards, where ids below the cursor
run out; upwards it is for lists that change no more, since a new row for every page keeps
`hasMore` true for ever. `AttemptsBounded`, `ReassignmentsBounded`, `ActiveDeliveriesBounded`,
`CreditsBounded` and `RefundsBounded` allow one too many for each tick or request that
overlaps: the limits are compared with what was read before.

Violations. Each is a disagreement between the code and what a document or comment says of
it; the findings of PROJECT.json quote both.

| Run | What happens |
|---|---|
| `payments_twice` | one notice handled twice at once credits twice (`CreditedOnce`) |
| `webhook_body` | the controller cannot parse the body of a notice: nothing the provider sends is ever recorded |
| `delivery_stranded` | a reassigned order is not `ready`, so `assignDelivery` refuses it; likewise a rejected delivery is not active, so `reassignDelivery` refuses it |
| `service_checks` | a cash order was never credited, so settling it takes another order's pending money, and here there is too little: the delivery cannot be completed |
| `core_duplicate` | a process stops between marking an event and handling it; the redelivered event is acknowledged as a duplicate and the old copy stays until its TTL. Bodies are unique here; with those of `types.ts` a second change of the item is acknowledged in the same way, without a crash |

What holds only without overlap. Four properties are checked with one handler only, and no
theorem states them: nothing in the code keeps them when requests overlap, and with a second
handler TLC finds a counterexample to each.

| Property | With two handlers |
|---|---|
| `DeliveryMatchesOrder` | a status request checked before an assignment commits after it |
| `ClosedDeliveriesAreFinal` | a courier's request that was checked against an old row rewrites a closed delivery |
| `SettledOnce`, `AvailableIsSettled` | two completions of one delivery settle twice |

That the logic is right when it is not disturbed is still worth knowing: `service_sequential`
has rejections, reassignments, overrides, late payments and late failures of the reservation
between the steps of an order.

Where code and documents disagree and no run shows it. Each of these is one step of the model
that does what the code does, so that a run would only repeat it:

- `total_earned` is decremented by a refund (`finance.repo.ts:62`). The migration
  (`20260501000008_create_restaurant_balances.ts:8`) and `docs/database-design.md:439` call it
  a running total that is never decremented. `Conservation` and `NoPaymentIsLost` take it as
  the code does, net of refunds.
- The delivery of a cash order credits nothing: `settleDelivery` moves money from pending to
  available that was never pending (see `service_checks`). `restaurant-finance.md:30` and
  `docs/database-design.md:455` say that the delivery credits the balance.
- The amount of a refund is compared with nothing (`payment.service.ts:378`), though
  `payments.md:173`, `:271` and `:317` say that it is at most the charge. The `payments` run
  asks for 3 of a charge of 2; what holds is that the balance never loses more than the refund
  rows say, and that a charge is refunded once per request that overlaps.
- A success that is reported for a cancelled, rejected or delivered order sets it back to
  `placed`, for `updateOrderStatus` names the order by its id alone. `orders.md:40` and `:208`
  call `cancelled` terminal, and `payment.service.ts:224` and
  `docs/implementation-plan.md:943-947` take such a webhook for a no-op, which it is only when
  no charge is pending.
- `reject` is documented to trim the list of candidates (`assignment.service.ts:209`); its
  SET NX (line 222) does nothing while the key is there. `OfferStands` holds of both: it only
  forbids that anybody is added.

Three things the model does that no property forbids, for nothing in the code prevents them:
the sweep cancels an order that was paid between its SELECT and its UPDATE (`SweepCancel`
names it by id); a rejected order that was paid is not refunded; and a status request that
was checked before a claim commits `ready` after it, so that the order has an agent, is ready
and is never offered again.

### Bounds

- One order, in all but `service_checks`, where a second order of the restaurant has the money
  that is taken. A component names the rows of one order; orders share the restaurant's
  balance, the worker's ticks and the agents. Properties about balances are theorems for any
  number of orders, but for `AvailableIsSettled`.
- Two handlers: every race above is between two requests, and each commit is one step.
  `assignment` has one besides two ticks: a second claim comes after a crash and an expired
  lock; claims that cross are the matter of the theorem `FirstClaimWins`, which holds for any
  number.
- Two events: a repeated notice, and one that finds no pending charge; in `payments` they are
  of one session, in `service_sequential` of two sessions of the order as well.
  `service_concurrent` has one event, so that two deliveries of it meet.
- `service_concurrent` has no administrator, whose override would void `PaidBeforeKitchen` and
  `AcceptedBeforeKitchen`; `service_sequential` has one, who moves orders past their payment.
- `IntMax` is 2 in `service_concurrent`, so that a second credit overflows and aborts, and 4
  elsewhere (3 in `service_checks`). In `payments` a credit must fit: one that never does is a
  notice that is never answered, and `NoticesAreProcessed` would not hold.
- `MaxReassignments` is 1 in `service_sequential`, with two delivery ids, so that the bound
  is reached and could be exceeded; it is 0 in `service_concurrent`, where three deliveries of
  one order are enough to exceed two active ones.
- Refund amounts: 1, the full charge, and more than the charge, in `payments`; the full charge
  elsewhere.
- `outbox`: two events let a batch go on to its next row; `MaxAttempts` is 2 (5 in the code),
  so that a retry and giving up both happen; `copies` counts to 2.
- `assignment`: `MaxAttempts` is 1, so that the last attempt is the first and TTLs matter at
  once; it and the batch of 1 suffice for one order. With more ready orders than `BatchSize`
  the oldest may keep the others from being selected as long as they cannot be assigned, and
  `ReadyIsOffered` would not hold for those.
- `core_events`: `MaxVersion` 3, so that an item changes while its last change is still being
  dealt with; a branch changes once, in one of three ways. One item changes, for items share
  only the processes. `Prefetch` is 2, so that handlers of one process overlap. One server: a lookup that
  crosses an invalidation happens; two servers' lookups that cross each other do not. There is
  no balance, which behaves as an order does once Redis was asked.
- `listing`: three rows, of which two have times in the other order; `MaxSeen` ends the one
  walk that has no end.

### Fairness

- `SweepFairness` and `WebhookFairness`, for `payments` and `webhook_body`. The worker ticks every
  minute (`lib/jobs/scheduler.ts`), so a SELECT that stays possible is made (weak). A loop may
  be cut short before an UPDATE; at the next tick the order is selected again, so an UPDATE
  that is possible again and again is made (strong). The provider repeats a notice until it
  is answered 200, so it is received again and again, and one of the attempts gets through
  (strong, on receipt and on each step). A request does not hang for ever (weak, on `Abort`).
- `DrainFairness`, for `outbox`: the interval of a worker that is up goes on, a `publish` that
  can end ends, an UPDATE ends (weak); an UPDATE of `attempts` that is made again and again
  succeeds at last (strong). That a worker and the broker stay up is not assumed: it is the
  premise of `EveryEventIsSent`.
- `TickFairness`, for `assignment`: commands that are sent are answered (weak) and not every
  tick is cut off at the same place (strong); a TTL runs out (weak). Nothing is assumed of the
  EXPIRE of a tick that has crashed.
- `CoreEventsFairness`, for `core_events`: a TTL runs out and an answer is cached (weak);
  consumers that start on events again and again are not cut off by a crash every time
  (strong).
- `WF(NextPage)`, for `listing`: a client that has begun to read goes on.

Nothing is assumed of customers, restaurants, administrators or agents. A system that stays
down for ever is excluded.

### Refinement

`Outbox` instantiates `EventDelivery` with `sent` as the events the broker has a copy of,
`closed` as `dispatched` and `failures` as `attempts`. `WriteEvent` maps to `Write`, `Publish`
and `PublishUnconfirmed` to `Send` (or a stutter, when the event was sent before),
`MarkDispatched` to `Close`, `MarkFailed` to `Fail`, everything else to a stutter. TLC checks
it in `outbox`, together with the abstract liveness under `DrainFairness`; the safety part is
the theorem `OutboxImplementsDelivery`.

## 4. Proofs

Proved by `tlapm` for every value of the constants that satisfies the named assumptions
(ids are any sets; `IntMax` and `MaxReassignments` any natural numbers; subtotals and amounts
positive; the events and ticks of the outbox, and the rows of a list, finite sets; times of
rows distinct). No theorem assumes that requests do not overlap: `Handlers` is any set, finite
where requests are counted. Every invariant and action property of the passing runs is the
conclusion of one of these theorems, but for the four that hold only without overlap.

| Theorem | Says | Under |
|---|---|---|
| `AcceptancePrecedesKitchen` | `OrdersSpec => []AcceptedBeforeKitchen` | no administrators |
| `PaymentsTypeCorrect` | `PaymentsSpec => []PaymentsTypeOK` | |
| `ChargesAreConfirmed` | `PaymentsSpec => []SucceededOnlyIfConfirmed` | |
| `PaymentPrecedesKitchen` | `PaymentsSpec => []PaidBeforeKitchen` | no administrators |
| `AcknowledgedPaymentsTakeEffect` | `PaymentsSpec => []ConfirmedPaymentTakesEffect` | |
| `PaymentsAreNotLost` | `PaymentsSpec => []NoPaymentIsLost` | finitely many charges |
| `CreditsAreBounded` | `PaymentsSpec => []CreditsBounded` | finitely many handlers and charges |
| `RefundsAreBounded` | `PaymentsSpec => []RefundsBounded` | finitely many handlers |
| `DeliveryTypeCorrect` | `DeliverySpec => []DeliveryTypeOK` | |
| `ActiveDeliveriesAreBounded` | `DeliverySpec => []ActiveDeliveriesBounded` | finitely many handlers |
| `OvershootIsBounded` | `DeliverySpec => []ReassignmentsBounded` | finitely many handlers, at least one |
| `ServiceTypeCorrect` | `ServiceSpec => []ServiceTypeOK` | |
| `MoneyIsConserved` | `ServiceSpec => []Conservation` | |
| `PaymentBeforeDelivery` | `ServiceSpec => []DeliveredOnlyIfPaid` | |
| `PaymentPrecedesKitchenAndRoad` | `ServiceSpec => []PaidBeforeKitchen` | no administrators |
| `AcceptancePrecedesKitchenInService` | `ServiceSpec => []AcceptedBeforeKitchen` | no administrators |
| `DeliveriesInService` | `ServiceSpec => [](ActiveDeliveriesBounded /\ ReassignmentsBounded)` | finitely many handlers, at least one |
| `PaymentsInService` | `ServiceSpec => [](ConfirmedPaymentTakesEffect /\ RefundsBounded)` | finitely many handlers |
| `LedgerInService` | `ServiceSpec => [](NoPaymentIsLost /\ CreditsBounded)` | finitely many handlers and charges |
| `OutboxTypeCorrect` | `OutboxSpec => []OutboxTypeOK` | |
| `OutboxImplementsDelivery` | `OutboxSpec => ImplementsDelivery` | |
| `AttemptsAreBounded` | `OutboxSpec => []AttemptsBounded` | |
| `AssignmentTypeCorrect` | `AssignmentSpec => []AssignmentTypeOK` | |
| `FirstClaimWins` | `AssignmentSpec => WinnerKeepsOrder` | |
| `OffersStand` | `AssignmentSpec => OfferStands` | |
| `CoreEventsTypeCorrect` | `CoreEventsSpec => []CoreEventsTypeOK` | |
| `HandlersExclude` | `CoreEventsSpec => []OneHandlerPerMark` | |
| `ListingTypeCorrect` | `ListingSpec => []ListingTypeOK` | |
| `NothingIsSkipped` | `ListingSpec => []NothingSkipped` | |
| `NothingIsRepeated` | `ListingSpec => []NothingRepeated` | |

An administrator may override any status (`order-status.service.ts`), hence the one hypothesis
of another kind.

*Orders.* `AcceptedBeforeKitchen` is not inductive: a request that was checked against an
accepted order commits long after. `StampInv` says that the order of a request that moves it
on in the kitchen is stamped. It holds under any overlap because `accepted_at` is never
cleared: whatever else has happened to the order meanwhile, the stamp is still there.

*Payments, under overlap.* `PaidBeforeKitchen` is not inductive for the same reason.
`InFlightOK` says what a request in flight knows: a status request other than a
cancellation is about a paid order, and a matched webhook holds a notice of its charge's
order. This stays true because `notices` only grows and a placed order stays placed with its
method. `Careful` collects what every step respects (it forgets no notice, records only
confirmed payments, moves only paid orders on, takes up only consistent requests);
`CarefulKeepsInv` shows that a careful step keeps the invariant, and each action is shown to
be careful.

*What an acknowledged payment brings about.* A notice is booked on any pending charge of its
order, and the outcome of a charge may be overwritten by a request that was matched with it
too. `EffectInv` says what is left: a charge that is closed as failed belongs to an order of
which some attempt failed (`FailuresOK`); a notice of a payment that was recorded found a
charge, and the order has a succeeded one unless a failure was reported (`PaymentsOK`). The
case to see is `WebhookNoCharge`: there is a charge, for the notice is about one
(`NoticesOK`), and it is not pending, so it succeeded, or some attempt failed.

*What overlap costs.* Each limit that is compared before the transaction has an invariant that
counts the requests which were let through and have not committed: `RefundsLeave` (refunds of
a charge, and the requests that read it before it was refunded), `CreditsLeave` (the credits of
a charge, and the webhooks matched with it while it was pending), `ReassignmentsLeave` (the
reassignments of an order) and `DeliveriesLeave` (its active deliveries, the assignments that
found none, and the courier's requests that may take a closed one back). Taking a request up
needs the limit not to be reached, and committing ends a request; so the sum never exceeds what
the invariant leaves.

*The ledger.* `NothingLost` and `CreditsLeave` bound `earned` from below and above by sums over
the charges of a restaurant. A step changes the sum at one charge. That a sum over a finite set
changes by what one of its terms changes, and is monotone in its terms, is proved in
`PaymentsProofs` without induction over an operator: `Sums` states what the folds of `Functions`
compute, and a smallest set for which it fails (`SmallestSubset`, from the well-founded order of
strict subsets) has an element to take away. `SumChanges`, `SumsOrdered` and `SumScaled` are the
facts the proofs cite. The refund of a charge debits the balance by no more than the refund row
says, because `debitRestaurantBalance` never goes below zero; the lower bound needs no more.

*Service.* `ServiceInv` adds `TasksOK` to the payment invariant: a request of the delivery
component names a delivery that exists, and without administrators a delivery, or a request
that will make one, is of a paid order. `Considerate` extends `Careful` to deliveries and to
orders that become delivered. `Conservation` is preserved by each statement of
`finance.repo.ts` (`StatementsConserve`), whatever the amount and however often: it is a matter
of each row's own arithmetic, which is why it survives the double settlement that breaks
`SettledOnce` with two handlers. `DeliveredOnlyIfPaid` needs no restriction on roles: the
settlement looks for a succeeded charge in the transaction that delivers, and
`SucceededOnlyIfConfirmed` does the rest. What is proved of a component alone is
lifted by showing what the steps of the others are to it (`ServiceStepMoney`,
`ServiceStepDeliveries`): a step of a delivery, a settlement or a payout leaves charges, notices
and what was earned alone and takes up no webhook and no refund; a step of a payment leaves the
deliveries alone and takes up no request about one.

*Outbox.* That nothing is recorded as sent that was not needs `MarkedIsSent`: a tick about to
mark a row holds one that the broker has. It stays true because copies are never taken back
and nobody changes another's row at hand. `AttemptsBounded` is not inductive either: it says
nothing of the ticks that have selected a row and not yet failed. `AttemptsLeave` counts them:
the failures of an event, and the ticks that hold it, stay below `MaxAttempts` plus the number
of ticks. Selecting needs fewer than `MaxAttempts` failures, and recording one ends the hold.

*Assignment.* The agent of an order is written by `ClaimCommit` alone (`AssigneeWriter`), which
repeats the check that there is none in its UPDATE: `FirstClaimWins` depends on no lock. An
offer is written by `MakeOffer`, `RejectWrite`, `CloseOffer` and expiry (`OfferWriter`), of
which the first two add somebody only where there is none.

*Core events.* `HandledIsMarked` (whatever is handled is marked as consumed) makes
`OneHandlerPerMark` inductive: another handler of the same routing key and body, in any process,
would have to set a mark that is there, and the mark outlives the handling.

*Listing.* The page is `ORDER BY ... LIMIT`, so the proof first shows that a finite set of rows
has a sorted enumeration at all (`Place`: a row's place is the number of rows up to it), and
that only its elements are in it. `WalkOK` then says that all a walk has seen lies at or
before its cursor, and that of the rows at or before the cursor it has seen every one that was
there all along. Where a list is sorted by time and its cursor is an id, the page and the
cursor agree only for rows whose ids and times do (`FoundInOrder` from `Consistent`), which is
the exception the properties carry.

Only model-checked: the liveness properties (`UnpaidIsResolved`, `NoticesAreProcessed`,
`EveryEventIsSent` with the liveness of the refinement, `ReadyIsOffered`, `EventsAreSettled`,
`StaleCopiesGo`, `WalksEnd`), for temporal reasoning under fairness is outside what the provers
do here; the four properties that hold only without overlap; and the counterexamples of the violation runs.

## 5. Not modelled

- *Idempotency keys*: the middleware reads, runs the handler and stores the answer without a
  lock, so that it gives no guarantee under overlap; see the plan.
- *Websocket*: messages are best effort, and no state of the service depends on them.
- *Reads without state*: health checks, the outbox counters.
- *Tables no decision depends on*: `payment_sessions`, `order_items`, `agent_earnings`.
- *Validation*: a basket against the core service, the signature of a webhook and malformed
  payloads, all of which return before any state is touched. Retries with backoff in the core
  client: what a repeated `reserveStock` does is decided in the core service.
- *Wiring*: partitions and their retention, regions (each is a copy of the model),
  configuration, dependency injection, logging, formatting. `lib/outbox/dispatcher.ts` is the
  loop of the drain job again, and nothing starts it.

## 6. Plan

1. `Idempotency`: one key, the handler it wraps and its retry, with what the middleware does
   promise when requests do not overlap.
2. Abstract specifications: a restaurant's account, which `OrderService` implements, and an
   order's lifecycle, which `Orders` implements under the guards the code lacks.
3. `Assignment` composed with `Delivery`, once a route calls `claim`.
4. Proofs: what `DeliveryMatchesOrder` and `ClosedDeliveriesAreFinal` become when requests
   overlap, as bounds on what a stale request can write, and the refinements of step 2.
