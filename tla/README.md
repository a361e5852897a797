# TLA+ verification of go-grpc-http

An e-commerce backend of six Go services that talk over gRPC, NATS JetStream
and RabbitMQ, with event sourcing and CQRS in the order service. This directory
holds TLA+ modules translated from the code, TLC configurations that check them
on small instances, and proofs TLAPS checks for every instance.

Contents: [the system](#the-system), [the modules](#the-modules),
[the runs](#the-runs), [bounds](#bounds-and-why-they-are-enough),
[fairness](#fairness), [the proofs](#the-proofs),
[what is not modelled](#what-is-not-modelled), [the plan](#the-plan).

## The system

A client's PlaceOrder travels like this:

    client -> order service ---GetProduct, ReserveStock--> product service (stock)
                  | Append (event_store)
                  | Publish orders.created --> stream ORDERS
                                                |          |            |
                                          projector   payment service   bridge -> RabbitMQ
                                          (Redis)     | INSERT payment             |
                                                      | publish payments.completed notification
                                                      v                            service (mail)
                                                stream PAYMENTS --> payment subscriber of the
                                                      order service: Append order.paid,
                                                      publish orders.paid

There is no transaction across two of these systems and no outbox. Every
consumer runs one goroutine per subscription and acknowledges a message
whether or not its handler succeeded.

| Component | State | Operations | Correct when |
|---|---|---|---|
| order command side (`internal/order/command`, `server.go`) | the local variables of each request | PlaceOrder, CancelOrder, rollbackReservations | units are in stock or sold, never both; what it reserved it sells or gives back |
| order aggregate (`internal/order/aggregate`) | status and version, rebuilt from events | replay, PlaceOrder, Cancel, MarkPaid | one created event, then at most one outcome |
| event store (`internal/order/event/store.go`) | table `event_store`, UNIQUE(aggregate_id, version) | Append, Load | of two writers on one version one wins |
| event publisher (`internal/order/event/publisher.go`) | none | Publish | every stored event is announced, once and in order |
| payment subscriber (`internal/order/event/payment_subscriber.go`) | the message in its hands | MarkPaid on payments.completed, Cancel on payments.failed | a payment changes its order once, whatever is delivered twice |
| order service process (`cmd/order-service`) | subscriptions | start, crash, shutdown | a restart repeats nothing harmful |
| read model (`projector.go`, `repository/redis_read.go`, `query/`) | `order:<id>` (24 h), `user_orders:<id>` in Redis | three projections, two queries | a view follows the history of its order |
| product stock and catalogue (`internal/product`) | table `products` | ReserveStock, ReleaseStock, UpdateStock, Create, Update, List | a reservation takes only what is there, updates do not undo reservations, a page is the one that was asked for, and who reads page after page misses no product |
| payment service (`internal/payment`) | table `payments` | on orders.created: Create, UpdateStatus, publish; RefundPayment | one payment per order unless its event comes again, announced once it is charged; refunds are final |
| bridge, notification service | RabbitMQ queue, table of notifications | forward, send, log, acknowledge | a customer is told, once |
| user service, token verification (`internal/user`, `pkg/auth`) | users and their token secrets | Register, Login, Verify | one account per address, a token is verified with its owner's secret |
| gateway, interceptors (`internal/gateway`, `gen/go/*/v1/*.pb.gw.go`, `pkg/interceptors`) | the requests in progress | route, forward, recover, check the token | a request reaches its one RPC and is answered |
| start of the processes (`cmd/*/main.go`) | connections, goroutines | connect, create streams, subscribe, serve, end | a subscription that should stand stands |
| health, logging, web frontend | none that others see | - | - |

What makes it hard: handlers interleave between any two calls (nothing is
locked from Load to Append); six systems fail separately; a client that
cancels its request cancels the calls of the rollback with it; delivery is at
least once and possibly out of order; a graceful shutdown makes consumers
start over; an error after the commit cannot be told from one before it.
`PROJECT.json` lists each of these hazards at its line.

## The modules

| Module | Models | Correspondence |
|---|---|---|
| `Faults` | failures of the environment | a budget `MaxFaults` of failures of the kinds in `FaultKinds`; an error path conjoins `Fault(kind)` |
| `JetStream` | NATS JetStream as the services use it (external) | `streams`: the messages; `consumers`: per durable consumer the first message never delivered and those to be delivered again |
| `OrderAggregate` | `aggregate/order.go`, `model/events.go` | pure operators: replay, the check of Cancel and MarkPaid, the event each command makes |
| `EventStore` | `event/store.go` and its table | `store`: the rows; `Load`, `PartialLoads`, `Conflicts`, `Commit` |
| `EventMessages` | the payloads and subjects of both streams | pure operators |
| `ProductStock` | ReserveStock and ReleaseStock | `stock`: `stock_quantity` by product; one conditional UPDATE is one step |
| `OrderWriteSide` | `command/handler.go`, `payment_subscriber.go`, the process; composes all of the above | `place[o]`, `cancel[c]`, `sub`: the program counter and local variables of each goroutine; one action per call to another system |
| `OrderLifecycle` | abstract: none, pending, then paid or cancelled for ever; the stream announces each fact once, and only facts | implemented by `OrderWriteSide` (`ImplementsLifecycle`) |
| `OrderWriteSideStock` | the books of the stock, across both databases | sums over carts, as folds |
| `OrderReadModel` | `projector.go`, `repository/redis_read.go`, `query/` and the two query RPCs | `views`, `index`: the keys of Redis; `proj`: the projector's message and the view it is about to save; `query[q]`: the loop of a query; one action per Redis command |
| `PaymentService` | `payment/event/subscriber.go`, `payment/server.go`, its repository | `payments`: the table; `sub`, `refund[r]`, `reader[q]`: the goroutines; one action per statement or publish |
| `PaymentLedger` | abstract: a payment is opened, charged, at most refunded, and announced once charged | implemented by `PaymentService` (`ImplementsLedger`) |
| `ProductCatalog` | `internal/product` whole: server, service, repository, seeding | `products`: the table; `call[c]`: what a call of two statements keeps; `account`: a history of what the stock should be; `walk[c]`: a history of the pages a client read one after the other |
| `Notification` | `notification/event/bridge.go`, `subscriber.go`, `sender/`, `repository/` | `bridge[c]`: a forwarding consumer; the exchange's binding, the queue and the notifier as they are across restarts of either service and of RabbitMQ |
| `UserAccounts` | `internal/user/repository`, `pkg/auth/jwt.go` | `users`: the table; the tokens signed with its secrets |
| `Gateway` | `internal/gateway/server.go`, the generated routes and service descriptors | pure operators: which RPC a verb and a path stand for, which methods of which server there are |
| `RequestPath` | a request from the gateway through the interceptors (recovery, logging, token) to the handler and back; the user-service's handlers statement by statement | `call[r]`: where the request is, its RPC, its token and claims, its answer |
| `ServiceStartup` | the six `cmd/*/main.go`: connect, create streams, spawn goroutines, serve, end | `at[p]`: the step a main is at; `stands[g]`, `state[g]`: the subscriptions of a goroutine; `up`, `existing`: the backends that answer and the streams that exist |
| `OrderSystem` | write side, payment service and read model composed over the two streams | INSTANCEs of the three modules; what each takes for its environment is a step of another; both services crash and shut down; `cut`: a history of the orders whose message a shutdown lost |
| `MC...` | the instances TLC checks | constants as model values and small functions, symmetry where the values are interchangeable |
| `JetStreamProofs` | lemmas about `JetStream` and `Faults` that the proofs share | checked by TLAPS |
| `OrderWriteSideProofs`, `OrderReadModelProofs`, `PaymentServiceProofs`, `ProductCatalogProofs`, `NotificationProofs`, `RequestPathProofs` | inductive invariants of a component, and the refinements and action properties that follow | checked by TLAPS |
| `OrderSystemProofs` | the composition: INSTANCEs of the proofs of its three components; and the start of the processes | checked by TLAPS |

How code becomes actions: `PlaceOrder` is `PlaceStart`, one `ReserveLine` per
item (with `ReserveRefused` and `ReserveReplyLost` for its error paths),
`RollbackLine` per item given back, `PlaceAppend` or `PlaceAppendFails`,
`PlacePublish`. `CancelOrder` is `CancelLoad` (Load, replay and the check are
one database read and local code), `CancelAppend` or `CancelAppendFails`, one
`CancelRelease` per item, `CancelPublish`. The callback of the subscriber is
`SubHandle`, `SubAppend` or `SubAppendFails`, `SubPublish`, `SubAck`. `Crash`
drops every local variable and the messages in the client's buffer; `Shutdown`
is SIGTERM. `PaymentSettled` stands for the payment service, which answers an
order it heard of, perhaps twice and with either outcome (PublishFailed exists
in its publisher although nothing calls it today); in `OrderSystem` the payment
service itself takes its place.

The projector's callback is `ProjReceive`, `ProjLoad` (GetByID, except for a
created order), `ProjSet` and `ProjIndex` (the two commands of the pipeline in
Save), `ProjAck`; `GetOrder` is one GET, ListOrdersByUser is `ListStart` and one
`ListNext` per id. The payment subscriber's is `SubReceive`, `SubCreate`,
`SubComplete`, `SubPublish`, `SubAck`; RefundPayment is `RefundCheck` and
`RefundUpdate`. UpdateProduct is `UpdateRead` and `UpdateWrite`, ListProducts
`ListCount` and `ListPage`; the other RPCs of the product service are one
statement each. int32 arithmetic wraps (`Wrap`) at a width that is a constant.

`OrderReadModel` and `PaymentService` each carry an environment of their own
(`OrderAnnounced`): what the write side may put on the stream. `OrderSystem`
replaces it by the write side and its invariant `EnvironmentsHold` states that
the assumption was right.

The aggregate carries neither prices nor names, and a created event does not
repeat its items: they are those of `Cart[o]`, which never change.

What is taken from outside the repository (marked external in the map), from
how nats.go 1.x behaves for the calls in the code:

- `Subscribe` with `Durable` creates the consumer when it does not exist, and
  `Unsubscribe` then deletes it; with `DeliverAll` the next start gets every
  message from the first (`Recreate`).
- A message that is not acknowledged in time is delivered again, after
  messages that came later (`Redeliver`, `LoseClient`).
- A callback runs one message at a time.

A mutant of a definition, when there is one, stands before it and is marked
so: the definition with a plausible bug. Each property is shown to fail when
its mutant takes the place of the original, so no property holds by the shape
of the model alone.

## The runs

| Run | Allows | Checks | Shows |
|---|---|---|---|
| write_faults (`WriteSide_faults`) | two failures of any of ten kinds | `TypeOK`, `HistoryWellFormed`, `HandlersInv`, `PaidByItsPayment`, `ImplementsLifecycle` | the history of an order and what the stream says of it survive everything |
| write_stock (`WriteSide_stock`) | three failures, all but those of the consumer | `NoOversell`, `StockConserved` | failures may leak units but never sell one twice, save those given back after an Append that failed and committed; without a failure none leaks, however two orders, two cancellations and a payment interleave |
| write_crash (`WriteSide_crash`) | a crash or a lost Ack, with fairness | `CreatedFirst`, `PaymentSettlesOrder`, `EveryEventAnnounced` | outcomes follow their orders in the stream; each payment settles its order; without a failure every stored event is announced |
| read_faults (`ReadModel_faults`) | two failures, among them expiry, shutdown and either half of a Save | `TypeOK`, `ViewsTrue`, `ProjInv`, `IndexedHasView`, `ListComplete`, `OutcomeStays` | no view and no answer tells what was not announced, lists are complete and in order; only a failure takes a view back |
| pay_faults (`Payment_faults`) | a failure of any of seven kinds | `TypeOK`, `ServiceInv`, `ChargesJustified`, `AnnouncedOnce`, `AnswersStand`, `ChargedOnce`, `ImplementsLedger` | table and stream agree, what clients were told stands, a second charge of an order has a failure behind it |
| catalog (`Catalog`) | a failure, a restart, a page cut short | `TypeOK`, `NoLostStock`, `WalkMissesNone`, `PageIsWindow`, `ImplementsStock` | no update and no seeding undoes a reservation; a page is its window, or the beginning of it where the connection was lost, wherever the size is one the repository takes and the offset fits in 32 bits; page after page, no product with an instant of its own is missed while others are created |
| notify (`Notification`) | three failures of seven kinds, with fairness | `HandedOn`, `RepeatsNeedFailures`, `EventuallyMailed` | nothing the bridge acknowledged is lost but by a step that gives it up, repeats are bounded by failures, every event is mailed or given up |
| requests (`Requests`) | a failed access, a panic, a crash or a client that goes away, with fairness | `TypeOK`, `AnswersTrue`, `TokensStayGood`, `RoutedRight`, `EveryRequestAnswered` | answers agree with the accounts also when two clients register one address at once; a token serves its owner; each request reaches its one RPC and is answered |
| startup (`Startup`) | a failed call, a crash, a lost backend or lost streams | `SubscriptionsStand` | in whatever order three services start, a subscription ends only by a failed call or for want of another process's stream |
| system (`System`) | a lost Ack, a crash, an expiry or a shutdown of either service, with fairness | `OutcomesAgree`, `EnvironmentsHold`, `OrderSettles` | three databases agree on the outcome of an order; what the modules assume of each other holds; every placed order is settled, charged and shown, but for the message a shutdown cuts short |

Two runs refute what the documentation says, and TLC's trace is the shortest
way to it:

| Run | Statement | What the code does |
|---|---|---|
| failed_payment_keeps_stock | "On `payments.failed`: cancels the order and releases stock." (docs/phase4-setup.md:104) | `PaymentSubscriber.cancelOrder` calls no ReleaseStock |
| refund_twice | "Refund enforces business rule: only completed payments can be refunded." (docs/phase4-setup.md:79) | RefundPayment reads the status and updates without a condition: two calls both pass the check and both succeed |

Four more statements do not hold and have no run of their own, for a passing
run holds the same behaviour as one of its failures: "On any failure, rolls back
stock reservations" (docs/phase3-setup.md:152: the line whose answer was lost is
not in `reserved`; `NoOversell` allows the leak); "Events are persisted but not
published — projector can replay from store" (handler.go:90: the projector reads
only the stream; `EveryEventAnnounced` needs that no publish failed); "ReserveStock,
and ReleaseStock still require JWT auth" (docs/phase2-setup.md:164: both stand among
the public methods, pkg/auth/interceptor.go:28-29, and `Gateway` has them so); and
that a payment is persisted once its event is handled (docs/phase4-setup.md:104: the
Ack follows an error, too; `PaymentSettlesOrder` needs that the handler did not
fail).

An Append may report an error after the transaction committed (`commit_unknown`).
PlaceOrder takes every error for "nothing stored" (handler.go:83) and gives the
units of an order back that exists: they are in stock and sold. The code has no way
to ask, so no property can exclude it. `NoOversell` says that nothing else oversells:
units in stock, sold and held are at most the initial stock and the units given
back by calls whose order exists (`GivenAway`).

`CreatedFirst` holds because a client learns an id only from the answer to
PlaceOrder, which comes after the publish, or from the stream itself, and the
payment service only from the stream. It needs a publish that does not fail.

Neither `List` of the product repository nor `GetByOrderID` of the payment
repository asks `rows.Err()` after its loop. A connection that is lost between two
rows cuts the answer short, and an OFFSET that overflowed to a negative number is
refused by PostgreSQL without anyone noticing: both are answered OK. `ListPage` and
`ListPaymentsByOrder` model this (`partial_read`), `PageIsWindow` says that without
a failure a page is complete, and with one that what there is of it is its beginning;
it promises nothing where the offset does not fit (`Fits`).

`WalkMissesNone` is what paging by OFFSET does keep: the list is in descending order
of `created_at`, so a product created between two pages pushes the rest back, and a
client sees rows twice rather than not at all. It holds because no update touches
`created_at` and no product is deleted. The instant is taken before the INSERT
(product_service.go:23), so products may be inserted out of order, and two of one
instant have no fixed order: `Alone` leaves those out.

A shutdown ends the context of the callbacks before their consumers are deleted: a
handler whose next statement fails for it acknowledges its message, and what the
message asked for is lost. `OrderSettles` excepts the orders in `cut`, which are
those, and no others: crashes, lost Acks and the consumers that start over lose none.

`OutcomeStays` is the promise the read model does keep: a redelivered
orders.created sets the view of a paid order back to pending, so the property
speaks of behaviours without a failure, and `ViewsTrue` of the others.

`OrderSettles` takes an order that a client cancelled while its payment was
charged for settled: the order is cancelled, the payment stays completed until
someone calls RefundPayment, and no document asks for more.

### Bounds, and why they are enough

- Two orders in the runs of one component: enough for a race on the last units,
  and for a message of one order to be redelivered after one of another. The
  carts take two products in opposite order with one unit short, so a
  reservation can fail on the first and on the second line. Orders meet only in
  the stock, in a user's list and in the stream. The composition
  (`System`) has one order, for nothing relates two orders there that the
  components' runs do not have already.
- One or two CancelOrder calls and two payments: two writers race on a version,
  and a third comes late. A version has no more kinds of writers than cancel and
  payment.
- Two refunds and one reader race on one payment; two callers of the catalogue
  suffice for an update that read before another's write. The catalogue's int32
  has four bits and both page sizes of the code, 20 and 100, are 3: page 4 has an
  offset that overflows to a negative number, a page size of 4 is above the limit,
  and pages of one row make walks of several pages, with one seed and two more
  products created on the way. An offset that overflows to a positive number is left
  to the proof, which is for any width.
- One address and two clients, four calls in all: register, log in, use the
  token, and one that interferes. One of each kind of method of another service.
- Notification: one event per stream, each bridged by a consumer of its own.
- Startup: three processes, of which one needs a stream of its own, one a
  stream of another, and one both streams; the other three main functions are
  the same kinds of steps in the function `Main`.
- `MaxFaults`: two where a second failure can hit the handling of the first
  within a component, three for the chain of two brokers and for the stock (an
  Append that failed and committed, and two more), one in the compositions. All
  kinds of failures a component reacts to are in its run.
- Nothing else is bounded: streams grow only by the orders and payments.

### Fairness

All liveness properties assume weak fairness, per actor, of what the process
does by itself. `OrderWriteSide`: each running PlaceOrder and CancelOrder call
and the subscriber; `OrderSystem`: these, the payment subscriber and the
projector; `Notification`: each consumer of the bridge and the notifier;
`RequestPath`: the steps of gateway and services for each request. A goroutine
that can run will run, every RPC and database call returns (possibly with an
error), and the server goes on delivering. Clients do not have to call, payments
do not have to be made, no view has to expire, and nothing forces a failure.
Weak fairness is enough, for only the actor itself disables its next step.

Deadlock is checked in every run: where a system may come to rest, `AtRest`
stutters exactly when nothing is in progress and nothing waits, so a goroutine
stuck for ever would be reported.

## The proofs

`OrderWriteSideProofs` proves, for every set of orders, products, payments and
calls, every cart, every number of failures and every choice of their kinds:

- `TypeCorrect`: `TypeOK`; in particular the stock of a product never becomes
  negative.
- `OneHistory`: `HistoryWellFormed`: an order has one created event and at most
  one outcome.
- `HandlersSound`: `HandlersInv`: no handler acts on a version the order never
  had, gives back a line it does not hold or announces what it did not store.
- `WriteSideImplementsLifecycle`: `ImplementsLifecycle`: the status of an order
  goes from none to pending to one final outcome, and the stream ORDERS says of
  an order only what is so, each thing once, under every failure there is.
- `PaidOnlyByPayment`: `PaidByItsPayment`.

The first three are not inductive alone. That a cancelled event gets version 2 needs
that the handler that stores it loaded version 1; this needs that what the
handler loaded some steps ago is still in the store; and that a Load cut short
never makes an event after an empty history. The inductive invariant is

    IInv == TypeOK /\ HistoryWellFormed /\ HandlersInv

`HandlersInv` says for each program counter of each goroutine what its local
variables tell about the store. The proofs go action by action; the lemmas
`StoreGrows` (nothing is ever deleted), `CommitWellFormed` (storing the event
of a handler whose invariant holds keeps the histories sound) and
`LoadedPending` (a handler passes the check only with exactly the created
event, even after a partial load) carry the argument. Assumptions: the ASSUMEs
of the modules, that is: carts are not empty and hold positive quantities, as
the gRPC server checks; the initial stock is not negative; the sentinels are
not ids; the consumer reads PAYMENTS.

The refinement maps the status to what replay makes of the rows and the feed
to the messages of ORDERS. That an announcement is never repeated needs
another invariant, `FeedInv`: the stream holds stored events only, and each
event that is stored and not yet announced is owed by exactly one handler. It
is proved once for three abstract kinds of steps (`Quiet`, `Stores`,
`Announces`, lemma `FeedSteps`), and every action is shown to be of one of the
kinds (`KindOfEveryStep`). `StepMaps` then takes a `Stores` step to Place, Pay
or Cancel, an `Announces` step to Announce and every other to a stutter. For
`PaidOnlyByPayment` only the subscriber stores a paid event (`NewPaidEvent`),
of the message in its hands, and the stream keeps what it holds.

A section of its own proves `CreatedIsFirst` (`CreatedFirst`), for every instance in
which `publish_error` is not a kind of failure. No code checks it; it holds
because of who knows an order's id. The invariant is

    FirstInv == IInv /\ KnownInv /\ CreatedFirst

and `KnownInv` says that whoever can make an outcome happen (a client with an
answer from PlaceOrder, a CancelOrder call past its check, a message of the
payment service) has the id of an order whose created message is in the stream.
Crashes and lost calls may be of any kind and number.

The last sections are about the units of the stock, which two databases keep:
`NeverOversold` (`NoOversell`), `NoneGivenAway`, `StockIsConserved`
(`StockConserved`) and `UnitsAreBack` (`UnitsComeBack`, what the documentation says
of orders that were refused or cancelled). `NeverOversold` holds for every number and
kind of failures. `NoneGivenAway` is its corollary without `commit_unknown`: then
nothing is given away, and the bound is the initial stock. The last two are proved
for every instance without failed payments, for the reason given with the runs; the
runs and their counterexample show that the restrictions cannot go. All four assume
`FiniteRequests`, that orders and calls are finitely many, without which there is
no sum. A sum over a cart or over the orders is a fold of the community modules,
that is a function over the subsets of a set that takes one chosen element at a
time. `SubsetsInduce` is the induction it needs: a set of subsets of a finite set
that holds each subset whose proper subsets it holds, holds them all, for the strict
subset ordering of the finite sets is well-founded. From it follow that a
sum exists, takes any element first, and changes by as much as one of its values
(`SumTake`, `SumChange`). `StepBooks` then is bookkeeping, one lemma per actor: a
step moves units between stock, orders and handlers, or, at a failure, drops them,
and never adds any. The invariants are

    OversellInv  == IInv /\ BooksInv /\ NoOversell
    ConservedInv == IInv /\ BooksInv /\ StockConserved

`IInv` is what says that a handler which gives a line back still holds it. In
`BooksInv` stands `GivenBackUnknowing`: the call of an order that exists gives lines
back only after an answer of Append that was not true. So the step that stores the
order turns what its call holds into units sold and gives none away, and each line
that is given back later moves stock and bound alike (`StepGivenBack`,
`ReleasedMoves`).

The proof modules of the other components follow the same plan: the invariant the runs
check is strengthened until it is inductive, one lemma per action or group of
actions shows that it is kept, and the theorems read off what they need.

`OrderReadModelProofs`, for any orders, users, queries and failures:
`TypeCorrect`, `ViewsAreTrue` (`ViewsTrue`), `ProjectorHoldsTruth` (`ProjInv`),
`IndexedViews` (`IndexedHasView`). The invariant is

    ReadInv == TypeOK /\ QueryInv /\ TruthInv /\ IndexInv

What is true of an order stays true, for the stream only grows (`TrueStays`);
so the view the projector made of what it read some steps ago is still true
when it saves it, whatever expired meanwhile (`LoadedTrue`, `KeepsProj`).
`QueryInv` says that each part of a sorted set has a newest member, without
which the loop of a list would not be defined for an infinite set of orders;
`IndexInv` that between the two commands of a Save the view is there, has expired,
or was refused (`viewless`: Redis carries out each command of a pipeline for itself,
so the ZADD of a Save may take effect where its SET did not).

`ListsAreComplete` (`ListComplete`) is an invariant of the loop of a list
(`ListInv`): what is left of it is to be found or has expired, and everything in
the answer is newer than what is left, so each GET extends it in order however
views change and expire between two of them. `OutcomesStay` (`OutcomeStays`) is
about behaviours in which nothing has failed: `OutcomeInv` says that then each
message is handed over once and in order, that an order's created message comes
before its outcome, and that a view that shows an outcome has it from a message
that is done with. So nothing is saved as pending over it.

`PaymentServiceProofs`, for any orders, payments, calls and failures:
`TypeCorrect`, `ServiceSound` (`ServiceInv`: what the subscriber and the refunds
rely on between two statements), `ChargesAreJustified`, `AnnouncesOnce`,
`AnswersStay`, and `LedgerImplemented`: the service refines `PaymentLedger`. The core is that
every step moves every row along pending, completed, refunded or leaves it
(`StepTable`), for a refund only ever updates a payment that it saw charged and
no statement takes a charge back; from it follow the invariants and the
refinement (`StepLedger`), in which SubPublish is Announce (`SendsOrders`).

`ChargesAreCounted` (`ChargedOnce`) says that the payments of
an order are at most one more than the failures. The handler checks nothing, so
the count must come from the deliveries. `CountInv` counts a payment that is
still to be made, because its message waits or is in the subscriber's hands, as
one that is there: a delivery then turns one into the other, and only a failure
makes a message wait again (`QueueInv`). Each step is one of four kinds for each
order (`Counted`), and `CountKept` is the arithmetic, on the theory of finite
sets.

`ProductCatalogProofs`, for any products, any width of the integers, any page
numbers and quantities: `TypeCorrect` (no stock leaves its column's type),
`StockIsNotLost` and `StockImplemented` (each step of the catalogue is a step of
`ProductStock` or an administrator's). The invariant adds that products are never
deleted (`RowsStay`), so that a seed is always there and a later start changes
nothing, and that the table is finite. `PagesAreWindows` (`PageIsWindow`) places the
rank of a row between the number of rows that are newer and of those that are as
new (`RankOfRow`, `WindowOfRanking`), for a ranking is a bijection with an initial
part of the numbers, and shows that the multiplication of page and size does not
wrap where the offset fits (`OffsetOfPage`). `PageWalksMissNone` (`WalkMissesNone`)
adds to the invariant that a walk began with products that are still listed:

    ListsInv == CatalogInv /\ PageInv /\ WalkInv

A step that creates a product only raises the number of rows before another
(`PushedBack`); a page that was answered whole shows each row of its window, so a
row of its own instant which it does not show stands behind it (`OnePageMore`).

`NotificationProofs`, for any events and failures: `NothingLostBetweenTheBrokers`
(`HandedOn`), whichever of the bridge's two consumers a shutdown deletes, and
`MailsAreRepeatedForFailures` (`RepeatsNeedFailures`). The
invariant is

    NotificationInv == TypeOK /\ BridgeInv /\ NotifierInv /\ HandedOn /\ StreamsInv
                       /\ MailsInv /\ LogsInv

`HandedOn` needs that what was handed on stays so (`KeptStays`): the message in the
notifier's hands is either put back by the broker or, when the connection was gone
before, in the queue already (`NotifierInv`). The count of mails needs more than
the property: `MailsInv` counts the mails of an event with its messages in the
queue, in the notifier's hands and, once, with the position the bridge has yet to
forward; each step moves one of these to the next place, and only a failure makes
one more (`MailsStep`, `ComingStays`). That the bridge forwards an event from one
position only is `StreamsInv`.

`RequestPathProofs`, for any number of clients, requests, crashes and failures:
`RequestTypes` (`TypeOK`), `AnswersAgree` (`AnswersTrue`), `TokensHold`
(`TokensStayGood`), `RequestsAreRoutedRight` (`RoutedRight`). The first section is
about the routes alone: each of the sixteen is looked up in the concatenated list
(`RouteAt`), and no two take the same verb and path (`OneRoute`), whatever ids the
path holds. The invariant

    RequestInv == TypeOK /\ AccountsInv /\ InsertInv /\ DrawnInv
                  /\ \A r \in Callers : CallRight(r)

says of the table that addresses are unique and every token was signed with the
secret of a row that is there (`AccountsInv`); of two calls of Register between
check and insert that they hold different, unused ids (`InsertInv`); that there are
never more drawn ids than calls (`DrawnInv`); and of each call what its progress
so far has established (`CallRight`). As rows, tokens and failures are only ever
added (`Grows`), a step of one call keeps what is right of the others.

`OrderSystemProofs` composes. Its invariant is the conjunction of those of the
three components,

    SystemInv == WP!WriteInv /\ PP!PaymentInv /\ RP!ReadInv

and nothing about a component is proved a second time: a step of the system is a
step of one component, for which the invariant was proved in its own module; for
the others it is a step they live beside, `Aside` (another service extends a
stream, or a consumer or the count of failures changes) or `Restarts` (the process
they share with it ends, by a crash or a shutdown), and each proofs module shows that its invariant survives
both. `OutcomesAlwaysAgree` (`OutcomesAgree`) follows for every failure:
an order stored as paid has a payment charged for it in the payment service's
table, and a view shows no outcome but the stored one. `EnvironmentsAreMet`
(`EnvironmentsHold`) is the justification of the components' own environments: if no publish fails, what one service
announces is what the model of its reader expects.

The last section of that module is about `ServiceStartup`, which shares the count
of failures with the rest and nothing else (its definitions are named `StartupInit`,
`StartupNext` and so on to stand beside those of the composition).
`SubscribersStand` (`SubscriptionsStand`) holds for every set of deployed processes
and all failures. The invariant

    StartInv == StartupTypeOK /\ (\A g \in Goroutines : Alive(g))
                /\ (\A p \in Processes : Running(p) /\ p \notin hit => Fresh(p))
                /\ SubscriptionsStand

says that a goroutine which lives was spawned by a process that runs, and that of
such a process the streams it knew at its start and those it has added exist, unless
a call of it has failed. As every main adds its stream before it spawns (`MainOK`, the
one place where the proof looks at the steps of the six mains), a stream that a
goroutine misses is none of these (`NeededExists`).

Assumptions beside those named: the sentinels are not values, `Recency` gives
no two orders one rank, the seeds are finitely many with distinct skus, page
sizes and quantities are 32-bit integers; those of the composition are collected in
`SystemAssumption`. Each is an ASSUME of the module that declares the constants,
which TLC evaluates in the runs.

Only model-checked: all liveness properties (`PaymentSettlesOrder`,
`EveryEventAnnounced`, `EventuallyMailed`, `EveryRequestAnswered`, `OrderSettles`),
for the prover does not reason about fairness.

## What is not modelled

- The web frontend: rendering. Its calls are those the gateway's model routes.
- Marshalling in the generated `.pb.go`, JSON, prices, totals, names, texts of
  mails, log lines, CORS: no property depends on them.
- The health service, which nothing in the repository calls, and `pkg/errors`,
  which nothing uses.
- Forged tokens and passwords: a token is one the user-service signed, or
  garbled.
- Request deadlines are not actions: a context that ends makes calls fail,
  which `rpc_error`, `append_error` and `release_lost` are, or is the client
  that goes away in `RequestPath`.
- Calls that never return: `smtp.SendMail` (sender/email.go) and the token resolver's
  call of the user-service (pkg/auth) have no deadline of their own, so
  `EventuallyMailed` and `EveryRequestAnswered` take for granted that they come back.
- In `OrderSystem`, the calls that only read (GetPayment, ListPaymentsByOrder and the
  queries of the order service): they change nothing another component sees. Errors of a database or
  of a publish are in the runs of the components only.
- A NATS client that closes after its reconnect attempts are used up: the
  process then receives nothing until it is started again.
- Loss of a whole database: the services have no answer to it. The loss of
  JetStream's streams is in `ServiceStartup`.

## The plan

Done, in this order: the write side with its abstraction; the read model; the
payment service with its ledger; the catalogue; notifications; requests and
accounts; the start of the processes; the composition of write side, payment
service and read model.

Then the theorems: type correctness, the safety invariants and the action
properties of every component, the refinements of `OrderLifecycle`,
`PaymentLedger` and `ProductStock`, the books of the stock, the composition, and the
start of the processes.

Left: the refinement of `ProductStock` by the catalogue put to use, so that
`NeverOversold` speaks of the table `products` itself.
