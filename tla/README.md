# Verification of the Souq shop

TLA+ models of the services and the web applications behind an order: placing
it, holding its stock, charging for it, and what surrounds it (cart, session,
reviews, notifications, merchandising), with TLC configurations and TLAPS
proofs. Paths are relative to `src/services/` unless they start with `docs/` or
`apps/`.

## 1. The system

A customer's checkout is a saga over three services that share nothing but
Kafka. Every service writes its events to an outbox table in the transaction
that changes its state; a relay publishes them; a consumer records the id of
what it handled in an inbox table. The browser talks to route handlers of its
Next.js application (the "BFF"), which call the services over HTTP with
timeouts and, for safe or keyed calls, retries.

| Part | State | Operations | Correct when |
|------|-------|-----------|--------------|
| order-service: state machine (`internal/saga`) | none, a pure function | `Next(state, trigger, ctx)` | compensation and roll-forward never mix |
| order-service: orchestrator (`internal/orchestrator`) | `orders` (status, version, reason), `saga_steps` (state, attempts, deadline), inbox, outbox | `PlaceOrder`, `Handle` an event, `CancelOrder` | one outcome, cancelled only after everybody let go, terminal states final, every order ends |
| order-service: sweeper | the deadlines in `saga_steps` | claim an overdue step, fire `Timeout` | a lost answer is resent; never compensates past PAID |
| order-service: HTTP API, idempotency keys | `idempotency_keys` | claim, complete, release, purge; status, stream | one order per key |
| order-service: consumer, relay | offsets, outbox | fetch, retry, dead-letter; publish | at-least-once |
| inventory-service: stock engine (`internal/stock`) | `stock_levels`, `reservations`, `stock_ledger`, outbox | `Reserve`, `Release`, `Commit`, `SweepExpired`, `Adjust` | no oversell, no unit lost or returned twice, tombstones |
| inventory-service: consumer | inbox | claim, apply, dead-letter | no command lost |
| payment-service (`internal/service`) | `payments`, `ledger_entries`, inbox, outbox | `Authorize`, `Capture`, `Void`, `HandleCallback` | charged once, told the truth, booked once |
| payment-service: providers (`internal/psp`) | external: the customer's money | mock; Paymob wallet, card, cash on delivery | external |
| cart-service | Redis hash with a version, the user's index | add, update, remove, coupon, merge | no lost update, nothing lost at login |
| cart-service: circuit breaker | state, rolling window | allow, record | one probe, never half-open for good |
| identity-service | refresh tokens, users with a second factor | issue, refresh, revoke; begin, confirm, disable | as many live tokens as there should be, a second factor its owner has |
| review-service | reviews, rating summary, purchases | submit, moderate, rebuild, list | aggregate equals the published reviews, one live review each |
| notification-service | dedupe table, suppression list, delivery log | claim, check, send, release, commit | at most one message, none dropped silently |
| catalog-service | products with versions, variants, price history, outbox | update, change a price, archive, relay | history is a chain, the compacted topic is current |
| storefront | checkout form, status page, basket, search box, toasts, session, account pages | one module each, section 2 | one order per checkout; never shows what is not so; never spins for ever |
| admin | catalogue page, saga inspector, dead letters | edit, cancel, replay, discard | nobody overwrites what they did not see |
| search, recommendation, pricing | index, co-occurrence counts, rules | projections, queries, pricing | not modelled |

The saga (`docs/CONTRACTS.md`, "State machine"):

PENDING -> STOCK_RESERVED -> PAID -> STOCK_COMMITTED -> CONFIRMED \            \
+-----------> COMPENSATING -> CANCELLED      (PENDING -> CANCELLED when stock is
short)

Emitting Commit, on entry to PAID, is the point of no return.

What is hard: several consumers, the sweeper and HTTP handlers write the same
order with an optimistic lock only some paths check; events are late, repeated
and reordered; a timeout races the late answer; a compensation overtakes what it
compensates; a process dies between two transactions, or between a transaction
and the provider call; a browser gives up on a request that is still worked on
and sends it again; answers reach a page in another order than they were asked
for; two people edit what neither has locked. `PROJECT.json` lists each hazard
at its line with the properties that watch it.

## 2. Modules

| Module | Models | Composes |
|--------|--------|----------|
| `Saga` | `order-service/internal/saga/machine.go`: one operator per `case` of `Next` | - |
| `OrderSaga` | orchestrator, sweeper, consumer and store of order-service, one order | extends `Saga` |
| `OrderSagaProofs` | theorems about `OrderSaga` | extends it |
| `Inventory` | stock engine, store and consumer of inventory-service | - |
| `Payment` | service, store and consumer of payment-service, one payment, four rails | - |
| `CircuitBreaker` | the breaker around the calls to the pricing engine | - |
| `Cart` | the cart store, its routes and merge | extends `CircuitBreaker` |
| `LinearCart` | the abstract cart: one operation at a time | implemented by `Cart` |
| `Reviews` | submission, moderation, summary, listing | - |
| `Notifications` | from the event to the provider | - |
| `Bff` | what a call of a route handler may come to | used by the parts below |
| `Checkout` | form, route handler, idempotency keys of order-service | extends `Bff` |
| `OrderProgress` | status page and history with stream and polls | extends `Bff`, instantiates `Saga` |
| `Basket`, `SearchBox`, `Toasts` | basket provider and routes, type-ahead, notices | extend `Bff` where they call |
| `Session` | session provider, sign-in and password forms, auth routes | extends `Bff` |
| `Tokens` | refresh tokens of identity-service (`TokenService` and its repository) | - |
| `Account`, `AccountForms` | second factor with `MfaService`; registration, reset link | extend `Bff` |
| `Storefront` | all of the storefront | extends its parts |
| `AdminApi` | what a call of the admin app may come to, its guard | used by the parts below |
| `AdminCatalog` | catalogue page, routes, catalog-service and its relay | extends `AdminApi` |
| `AdminOrders` | saga inspector, dead letters | extends `AdminApi` |
| `Admin` | all of the admin app | extends its parts |
| `MC*` | the instances TLC checks | extend the above |
| `InventoryProofs`, `PaymentProofs`, `CartProofs`, `ReviewProofs`, `NotificationProofs`, `StorefrontProofs`, `AdminProofs` | theorems about the module of that name (section 4) | extend it |

Definitions keep the names of the code. Definitions that a comment calls a
mutant are not used by any specification: they are plausible bugs, and each
property has one that breaks it.

### OrderSaga

Orders do not interact inside order-service, so one order is modelled. `order`
is its row, `steps` its `saga_steps` rows (a deadline is only "timed": any armed
deadline may pass at any moment, which covers every clock). `commands` and
`events` are the messages of both directions; nothing is ever removed, so a
message may arrive late, again or never, and two messages in either order.

Every operation is one READ COMMITTED transaction in the code, and two steps
here: the reads go into `tx[a]`, the writes apply later to the rows as they are
then. What the code checks at write time is checked there and nothing else: the
version on a status change (`UpdateStatus`), the row lock that only the sweeper
takes, and the unique inbox row. `HandleBegin`/`HandleCommit` is
`orchestrator.Handle`, `SweepBegin`/`SweepCommit` is `Sweeper.tick` and `fire`,
`CancelBegin`/`CancelCommit` is `CancelOrder`; `Stale`, `HandleIllegal`,
`Exhausted` and `Crash` are the ways a transaction ends without effect.

The participants are an environment, with what their code can do: any command
may be answered at most once per id, inventory's TTL sweep may release unasked,
and a customer may still pay after an attempt that failed (`PaidAfterFailure`),
so that Authorized follows AuthFailed.

### Inventory

`onHand`, `reserved`, `rsv` and `ledger` are the tables. A transaction that
finds the reservation row holds its lock to the end and is one step; one that
finds no row holds nothing and is two (`Miss`, then an insert that the unique
indexes may reject); a reservation that falls short is rolled back and answered
in a further transaction (`ReserveShort`, `PublishFailure`). The lines of one
reservation are taken in one step, because `TryTake` leaves every row it touched
locked until the commit. The inbox claim is a transaction of its own, before the
command is applied, as in `eventbus.go`.

### Payment

Each command is three steps: the first transaction (claim the command, lock and
move the row), the provider call with nothing locked, and the second transaction
with the outcome. Callbacks and other handlers come in between. `money` is what
the provider did with the customer's money; `AuthorizeAnswers` says what each
rail may answer and what it did, including an answer that is lost after the
charge. An order at Paymob sees several attempts, each a transaction of its own
with its callbacks (`AttemptPends`, `CustomerFails`, `CustomerApproves`); one
that failed leaves the order open, so a FAILED or VOIDED row may hear of a later
success. `Key` is the dedupe key of `HandleCallback`, transaction and kind, in
which `normaliseCallback` gives a pending transaction the kind of a success.
`SupportsCapture` is evaluated with the method the row is loaded with, which the
table does not store.

### Cart and CircuitBreaker

A request is a record in `rq` whose `pc` moves at every `await` of its handler:
load (a merge reads the user's index and then the cart it names), ask the
catalog, compare-and-set, price through the breaker around the pricing engine.
`stored` is the Redis hash; the Lua script is one step. Keys expire, calls fail,
and a pod may restart between any two awaits. `CartsAreLinear` is the
refinement: with `carts <- stored`, every behaviour of `Cart` is one of
`LinearCart`, in which a cart changes by one operation at a time on the content
it has. The script accepts any version when the key is absent, so a cart that
expired or was merged away may come back with old content; `LinearCart` allows
that, because the code does.

### Reviews

MongoDB makes single operations atomic and nothing more: `moderate()` is a read,
a write of the status, an increment, a read of the summary and a write of the
average. `raced` remembers that two decisions on one review overlapped, that a
request died between its writes or that a rebuild overlapped a moderation;
outside of those the histogram must be exact.

### Notifications

Each worker takes an event that is not committed, claims the dedupe key, checks
suppression, sends, and commits or releases. A rebalance gives an event that one
worker has in hand to another. The SDK's clients repeat attempts on their own
(`SdkRetries`) and a claim expires after thirty days (`ClaimExpires`). `accepted`
counts what the provider took and `unaware` what of it the code cannot know:
taken and answered with a 5xx, taken in an attempt the SDK repeated, or taken
under a claim that expired.

### Storefront

The parts of the storefront keep their state apart and meet only in the
services, so a behaviour of `Storefront` is one of a single part, chosen at the
start in `part`.

`Checkout` joins the three levels that retry: the button, the BFF's attempts and
the customer who comes back; each attempt is a run of `placeOrder`, in which the
claim of the key, the order and the completion of the key are transactions of
their own. `OrderProgress` lets the stream and both poll loops deliver in any
order. `Basket` has the ticket counter of the provider and another device.
`Account` has two tabs on the enrolment page and the statements of `MfaService`
as steps.

`Session` has two tabs on one cookie, and what comes of a sign-in as the code
stands: nothing. identity-service answers with a flat body and keeps the refresh
token for its own cookie (`Dtos.java:61-72`, `AuthController.java:193-201`); the
storefront parses `LoginResponse`, which is strict and wants `tokens` and `user`
(`api.ts:68-71`), so every sign-in ends in a 502 and no cookie is set. A
signed-in page cannot be reached, and with it sign-out: the route handler posts
the token in the body and forwards no cookie, while `AuthController.logout`
reads only its cookie (142-153), so that it would revoke nothing. Neither is an
action. The other parts (`Checkout`, `OrderProgress`, a signed-in `Basket`,
`Account`) model what the pages do once a route handler has its access token,
and leave open whether it gets one.

`Tokens` is the other side, a part of its own: the rows of `refresh_tokens`
under `TokenService`, with the clients that service is written for. `refresh()`
is a read and a write with other requests in between; a handler that throws
changes nothing, because its transaction is rolled back.

### Admin

`AdminCatalog` has pages that go stale, an edit as a transaction (lock, change,
read again for the event, commit), the outbox and relays whose locks are
released at once (the transaction of `publishBatch` is never opened, because it
is called on `this`); a row that failed `MaxAttempts` times is parked, and a send
that failed may have reached the topic all the same. `AdminOrders` has the saga
inspector's offers and the dead letter actions. `desk` chooses the part.

## 3. Runs

| Run | Result | What it shows |
|-----|--------|---------------|
| `OrderSafety` | holds | two consumers, sweeper, customer, unsolicited TTL release: point of no return, one outcome, settled cancellation, stable terminal states |
| `OrderLive` | holds | two consumers, one fault: every compensation that was sent is acknowledged, or the order ended without it |
| `OrderTermination` | violated | two consumers, cards that may be declined: an order can stay in COMPENSATING for ever |
| `InventorySafety` | holds | two workers, two orders, stock for one, TTL sweep, stocktakes, a fault: no oversell, counters equal to open reservations and to the ledger, no contradicting answers |
| `InventoryLive` | holds | two reservation ids of one order; nothing dangles although a command is lost; a fault costs one command at most, every other is answered by its own event, found settled or parked |
| `PaymentSafety` | holds | four rails, two workers, resends, lost answers, two attempts of the customer, callbacks, a crash: charged and booked once, the saga is told the truth but for a payment after a failed attempt |
| `CartSafety` | holds | `Cart` implements `LinearCart`; a half-open breaker has its probe in flight |
| `CartMerge` | violated | signing in with a cart that is already the user's own deletes it |
| `ReviewSafety` | holds | exact histogram, one live review, exact paging |
| `NotificationSafety` | holds | at most one message but for those the code cannot know of, no silent drop, every event committed in the end |
| `Storefront` | holds | one order per checkout, true outcomes, held second factors, live tokens accounted for, no regressing basket or suggestions, nothing that spins for ever |
| `Admin` | holds | price history is a chain, the topic is current, a status change replaces what was seen, every control comes back |

The violated properties state what the repository's documents and comments
promise; `PROJECT.json` quotes the line and explains the trace.
`OrderTermination` fails for two reasons. TLC reports the shorter one, a declined
card (`orchestrator.go:149`): AuthFailed emits RELEASE only, and the context
counts the payment as settled only once a VOID was acknowledged. With
`PayAnswers = {"authorized"}` in its `.cfg` TLC reports the other
(`orchestrator.go:176`): two consumers handle Released and Voided at the same
time, each reads the other's step as open, and the path that only acknowledges
does not check the version. `OrderLive` says how far such an order gets: both
steps are acknowledged, and only the cancellation is missing. With one consumer
and no declined card `Termination` holds.

Some properties name an exception, because the code is exposed to it and the
property would otherwise fail. Each is a history variable that is set exactly in
that case; several are counts, so that the property still says how much the case
may cost. In these cases the code does go wrong, often against what a comment
says, and section 5 tells how:

| Property | Exception |
|----------|-----------|
| `ToldIsTrue`, `SettledIsFinal` (payment) | a payment after a failed attempt |
| `HistogramIsExact` | decisions on one review overlap; a crash between two writes; an overlapping rebuild |
| `SentOnce` | one more message for each taken and answered 5xx, repeated by the SDK, or older than its claim |
| `SecondFactorIsHeld` | enrolments overlap |
| `LiveTokensAreAccounted` | one more token for each exchange that lost its race |
| `TopicIsCurrent` | edits cross; a message is sent after a newer one |
| `OutcomeIsTrue` | a poll answered before the end of the order arrives after it |
| `BasketNeverRegresses` | the refresh of the mount overlaps a mutation |
| `OneOrderPerCheckout` | one more order for each key given back after its order was committed, or purged |
| `PagingIsExact` | reviews of one millisecond |

Bounds. One order with two consumers is the smallest instance with every race
between two handlers, the sweeper and the customer; a third consumer adds no new
pair. `MaxSends = 2` lets a compensation be sent again, so answers to both
emissions interleave. One fault per run is enough for every single point of
failure; two would only combine. `OrderSafety` has payments authorized and
declined; the retriable failure, on which a waiting order only acknowledges, is
left to the theorems, which prove the same six properties for every
`PayAnswers`, and `OrderLive` has only authorized ones. For inventory two orders that want the one unit
of two SKUs make every Reserve a race and an all-or-nothing decision; quantities
are one because every comparison is between a quantity and the rest; `Commands`
holds every command once and a resent Commit, so that a command whose work is
already done arrives again under a new message id, and `MaxOnHand = 1` caps
manual adjustments. `Payment` has two workers because a rebalance can leave two
of them believing they own a partition, and `MaxFailures = 1`: one failed attempt
and one that may succeed are every pair of attempts.

`Cart` has two requests at a time and four in all, two carts (the anonymous one
and the user's), two SKUs so that a line can be pushed out, quantities up to 2
and one line (two for the merge), and a breaker window of 2, so that a quantity,
a cart and the window are each reached at their limit. `Reviews` has two users,
one of whom may be verified, two reviews, two moderators, three decisions (out
of and back into PUBLISHED) and pages of one. `Notifications` has three events,
one confirmation announced twice and one without a template, two refusals and one
fault. `Storefront` has two mounts and two submissions of the form with two
attempts each (3 in the code; a third attempt meets the same states), two clicks
on the basket, four generations of the query, two forms and three enrolment
requests, one fault each; two sessions with two requests at a time and four
tokens, a pair of sign-ins and two exchanges. `Admin` has two operators, two
prices (the product starts at the lower one), two statuses (every status but
ARCHIVED is treated alike), two edits, two faults and two attempts to send a row
(10 in the code), so that a row can fail twice and be parked.

Symmetry is used over interchangeable workers, consumers, requests, carts, SKUs,
reviews and moderators, in runs without fairness only.
Deadlock is not checked: a saga that has ended, a topic that is consumed and a
customer who has what they want do nothing.

Fairness. Consumers fetch and finish what they fetched (`Consumer.Run` loops),
the sweepers tick, an open transaction ends, participants answer what they are
sent. Commits of order-service get strong fairness because PostgreSQL queues
waiters for a row lock: a sweeper that takes it again and again cannot starve
them. A worker of notification-service goes on consuming. A route handler goes
on, a call it makes ends at its timeout (`AbortSignal.timeout`), a browser's
timer that is due fires; each form and page is fair by itself, so none counts on
another. Nothing obliges a customer, an operator or another
device to act, or a fault to happen; in particular the status page may only count
on its own 90 second timer.

## 4. Proofs

Every safety property of a passing run, invariant or action property, is a
theorem of the module's specification, for every value of the constants that
satisfies the module's assumptions: any number of consumers, workers, requests,
orders, SKUs, commands, reviews, edits, retries and faults, where TLC checks the
small instances of section 3. The only exceptions are those the properties
themselves name (section 3). None of the properties is inductive; what each
proof needed beyond it follows.

| Module | Theorems | Properties |
|--------|----------|------------|
| `OrderSagaProofs` | `TypeCorrect`, `PointOfNoReturn`, `CancellationHasReason`, `TerminalStability`, `NoWayBack`, `CancellationIsSettled`, `OutcomeIsUnique` | all of `OrderSafety` |
| `InventoryProofs` | `TypeCorrect`, `StockIsNeverOversold`, `LedgerIsExact`, `OneRowPerOrder`, `SettlementIsFinal`, `AnswersAgree` | all of `InventorySafety`, `OneReservationPerOrder` |
| `PaymentProofs` | `TypeCorrect`, `ChargeIsUnique`, `AnswersAreTrue`, `SettlementIsFinal` | all of `PaymentSafety` |
| `CartProofs` | `TypeCorrect`, `CartsChangeOneOperationAtATime`, `HalfOpenIsSound` | all of `CartSafety`, the refinement of `LinearCart` included |
| `ReviewProofs` | `OneReviewIsLive`, `HistogramAddsUp`, `PagesAreExact` | all of `ReviewSafety` |
| `NotificationProofs` | `OneMessagePerKey`, `NothingIsDropped` | all of `NotificationSafety` but its liveness |
| `StorefrontProofs` | `OneOrderForEachForm`, `PagesTellTheTruth`, `SecondFactorHolds`, `BasketOnlyMovesOn`, `SuggestionsAreCurrent`, `TokensAreAccounted` | all of `Storefront` but its liveness |
| `AdminProofs` | `PriceHistoryIsAChain`, `StatusIsReplacedAsSeen`, `TopicTellsTheProduct` | all of `Admin` but its liveness |

### OrderSaga

1. `MachineSound`: facts about each decision of `Machine` (from a state past the
   point of no return it emits no compensation, from COMPENSATING it goes only
   to CANCELLED, CANCELLED comes with a reason, and so on), by cases over
   states and triggers.
2. `TypeInv`: `TypeOK`, and a transaction of kind "handle" has a real event.
3. `SagaInv`: a decision is taken on a snapshot. The strengthening says what a
   snapshot in `tx` may claim: its version is at most the row's; if it equals the
   row's, so does the status; a snapshot that was past the point of no return, or
   rolled back, says so of the row for ever. With it the version check in `Apply`
   makes a status change a change from the current status, and the decisions
   without a check emit only what the status of every later row allows too.
4. `SettledInv`: an ACKED step row, or a context read from one, has its event in
   the inbox; this gives `CancelledIsSettled`.

### Inventory

`StockInv`: for each SKU the set `Held` of units in open reservations is finite,
`reserved` is its cardinality and at most `onHand`, and both counters are the
sums of the ledger. An action opens or closes one reservation, which adds its
units to the set or takes them out; the cardinality lemmas of
`FiniteSetTheorems` then give the counters.
`AnswerInv` is for the answers: what was announced is what the row says for
ever, a claimed command is in the inbox and in the hands of one worker, and a
Reserve that is still to be done finds no row but a tombstone. This last part
needs `ReserveOnceAssumption`: the saga decides RESERVE when it places the order
and never again, so there is one Reserve message for a reservation, delivered as
often as it may be.

### Payment

`MoneyInv` ties what the provider did to the callbacks it gave rise to (a success
is the last attempt's, and every failure one before it), `RowInv`
the row, the reference and the events to the money, `WorkInv` what a worker in
the middle of a handler knows: while an Authorize is being called nothing was
asked yet, and no second worker is on the same step. The proof is by cases over
the handlers, each brought to one of three shapes (a worker begins a call, gets
its answer, goes home).

### Cart and CircuitBreaker

`CartInv` says of each request between two awaits what it may still assume: its
version was current, versions only grow, and if the stored version is still that
one then what it is about to write is one operation on the stored content. A
compare-and-set that succeeds is therefore a `Write` step of `LinearCart` (a
`Revive` for a cart that was deleted once), creation and deletion are its
`Create` and `Delete`, and every other step stutters; this is the step
simulation, and with `Init` it gives the refinement. `ProbeInv`: while the
breaker is open every call it admitted is at least as old as the opening, so
when it is time to probe (`ProbeAfter`, 10 s) each has run into its `Deadline`
(250 ms). The assumption `Deadline < ProbeAfter` is needed: otherwise a call from
before the opening could answer as if it were the probe.

### Reviews

`HistInv`: unless moderations raced, a bucket of the histogram, with the
increments that are decided and not yet written, is the number of published
reviews of that rating; `FreshInv` says that a rebuild nothing overlapped would
write just that. `PageInv`: everything seen is at least as new as the cursor,
and what stayed published from the start of the listing is seen, tied, or older
than the cursor. That a page is cut where it should be rests on lemmas about the
newest reviews below a cursor (`FiniteSetTheorems`, `WellFoundedInduction`).

### Notifications

`OnceInv`: a key that no table row claims, or whose owner has not sent yet, was
accepted no more often than the code cannot know of, and a key has one owner.
`DropInv`, while no fault happened: events in hand are apart, a claimed key is
closed in the log or owned, and every key of a committed event is accounted for.

### Storefront

A step of the storefront is a step of one part and leaves the variables of the
others alone (`StepOf...`), so each part has an invariant of its own.

- `CheckoutInv`: the run that holds an idempotency key is the only one, and while
  it has yet to place the order none is placed beyond those excused; a form
  without a key has placed none.
- `ProgressInv`: every status that is shown, in a frame, or in an answer under
  way is one the order has been in (`Past`): terminal ones, and those past the
  point of no return, say so of the order for ever.
- `TokenInv`: a row that was read by an exchange belongs to its session for ever
  and is never ACTIVE again once it was not; the bound on live tokens then
  follows by counting, with one token more only where an exchange wrote over a
  row that was gone.
- `AccountInv`: a request under way has its page waiting for it, so the codes it
  brings are seen; and unless enrolments cross, one transaction at a time has
  read the pending secret it is about to promote.
- `BasketInv`: an answer under way is a state the basket has been in, no older
  than the one on display; the refresh after CART_STALE is part of its mutation.
- `SearchInv`: only the current generation has a call that is not cancelled.

### Admin

`CatalogInv`: an edit that holds the lock of the variant's row has read the price
that is still in force, one that sent a version has seen the status that version
has, and the changes form a chain. `TopicInv`: unless transactions crossed, one
edit at a time has its rows in the outbox and is not committed, the last of them
tells what it makes of the product, and the last committed row tells the product
as it is; unless a message was sent after a newer one, the topic stands at the
greatest id published.

### What the proofs changed in the models

Attempts that failed for a good reason corrected `Account` (which panel an
enrolment page shows is one chain of conditions, as in the component), `Basket`
(the version a `PATCH` carries guards only that operation; ids of guest baskets
are taken in turn) and `AdminCatalog` (a relay's batch is the set of rows it read,
sent by id). `ReserveOnceAssumption` and `Deadline < ProbeAfter` were implicit
before.

### What stays with TLC

Liveness under fairness and anything with ENABLED:
`CompensationsAreAcknowledged`, `NoDanglingReservation`, `FaultsLoseOneCommand`,
`EveryEventSettles`, `NothingSpinsForEver`, `OperatorsAreAnswered`. The violated
properties are refuted by TLC's traces. What a recursive definition computes for
every input is out of the prover's reach too; no property here depends on one.

## 5. Disagreements met on the way

Besides the violated runs, the following were reproduced with the models (a
property without its exception, or one that states the quoted line, is violated)
or read in the code. They are not kept as runs.

Order, stock and money:

- `saga/machine.go:217`: PAID has no deadline, so a lost Committed leaves a
  charged order in PAID; `docs/CONTRACTS.md:213` says "retry `Commit` with
  backoff, alert after 5".
- `inventory-service/internal/eventbus/eventbus.go:300`: the inbox row commits
  before the command is applied; a crash in between loses the command, although
  `docs/CONTRACTS.md:115` says "**Delivery:** at-least-once."
- `payment-service/internal/service/service.go:394`: Capture decides with a
  method the table does not store, so an authorize-only card (`paymob.go:196`)
  is booked as revenue and never captured.
- `saga/machine.go:221`: a retriable `AuthFailed` is acknowledged and its
  deadline cleared; the comment says the retry policy resends AUTHORIZE.
- `saga/machine.go:210`: the TTL sweep's `Released` is an illegal transition in
  STOCK_RESERVED, which the comment at line 147 says cannot happen.
- `orchestrator/orchestrator.go:187` and `:341`: the first reason is not kept
  until the cancellation, and the published reason may differ from the row's.
- After a timeout the RESERVE or AUTHORIZE row stays SENT and overdue, so the
  sweeper fires on it at every tick while the order is COMPENSATING.
- `payment-service/migrations/0001_init.sql:39` lists the providers and rejects
  `paymob`; the model assumes the list is widened.
- Cash on delivery is booked by `Capture` and again by the courier's callback;
  `ChargedOnce` excludes it.
- The mock's void, under the void's own key, does not undo the charge, and
  approves while an authorization is under way; `ToldIsTrue` and part of
  `SettledIsFinal` exclude the mock.
- A customer who pays after a failed attempt pays for an order that is being
  cancelled: the FAILED row is voided without a call to Paymob, which still holds
  the money; `payment.failed` was told.
- `payment-service/internal/service/service.go:651`: a failure callback is ignored
  in AUTHORIZED and CAPTURED only. The failure of a first attempt that arrives
  while the second, which succeeded, is being captured moves the row from
  CAPTURING to FAILED and emits `payment.failed`. The comment says "A failure
  callback for something we know succeeded. Log and ignore rather than reversing
  state on a late message."
- `service.go:598` with `psp/paymob.go:976`: a pending transaction has the kind of a
  success, so its callback claims the dedupe key, changes nothing, and the success
  of the same transaction is dropped as a duplicate; the row stays AUTHORIZING
  although the customer paid. The comment says "Still in flight. The service layer
  records it and keeps waiting."
- The version check of payment's `UpdatePaymentState` compares with a version
  read under the same lock and can never fail.
- `order-service/internal/httpapi/api.go:185`: an error of a commit that took effect
  all the same releases the idempotency key, and a retry places a second order
  (`excused`); the comment at line 182 says "The order was never created and
  nothing external happened". `store/idempotency.go:124` says of the completion of
  the key that it is "Called in the same transaction as the work it describes";
  it is another one, and a crash in between leaves the key IN_PROGRESS for its
  whole day.

Cart:

- `merge()` ignores the result of its compare-and-set; an absent key accepts any
  version; the user's index is not renewed with the cart it names.

Reviews:

- `order.confirmed` carries no items (`orchestrator.go:329`), so the projection
  at `review-service/src/index.ts:204` records no purchase and nothing is ever
  verified.
- `reviews.ts:236`: `moderate()` updates by id alone and applies the delta of the
  status it read, so two moderators who publish one review at the same time count
  its rating twice (`raced`); the comment at line 228 says "An incremental delta
  is exact for integers and O(1)."
- `reviews.ts:296`: `summarise()` throws on the object that the first upsert
  creates, so until a rebuild no moderation of the product writes its average,
  and each fails after its other writes are done; line 267 says that the average
  "can never drift from the histogram". `shape` of the model's summary tells the
  object from the array.
- The average and count are `$set` from a read that may be older than another's;
  `rebuildSummary` and `applyDelta` have no callers; reviews of one millisecond
  across a page end are dropped.

Notifications:

- `delivery.ts:330`: every 5xx is retriable, so the claim of a message that was
  taken and answered 5xx is given back and the message sent again (`unaware`);
  line 314 says that retriable means "we are certain the provider did not accept
  it".
- The SDK's clients repeat an attempt after a timeout (`index.ts:30-33`), which
  `isRetriable()` takes care not to do.
- There is no inbox table, though lines 20-23 count on one.
- `payment.failed`, `payment.refunded` and `order.shipped` carry no user id and
  end as NO_ADDRESS; the opt-out is not looked up without a recipient;
  `sendAfter` is ignored.
- A zombie's duplicate commits the offset that the retry of the first attempt
  needs; `NoSilentDrop` therefore asks for no rebalance.

Storefront and identity:

- The routes the status page polls and streams do not exist in order-service at
  the paths used; cart-service ignores the key of an add and has neither
  `/v1/carts/mine` nor `/lines`; the BFF's order body has no items, which is a
  422. The models take the service to answer what the route expects.
- Signing in, and signing out, as told in section 2; the comment at
  `apps/storefront/src/app/api/bff/auth/login/route.ts:16` says
  "identity-service returns it in the body", of a refresh token that
  `Dtos.java:61` does not have, and the one at `auth/logout/route.ts:18` counts
  on a revocation. `requireAdmin` of the admin app parses `TokenPair`, strict
  too, and ends in a 502 the same way. Were the bodies to match, `/me` and
  `/orders` would still not get the cookie, whose path is `/api/bff/auth`, and
  the rotated token would be dropped (`lib/session.ts:70`), so that the second
  request of a session is a reuse.
- An answer after the submission reopens the search dropdown; the refresh of the
  basket at mount takes no ticket.
- `TokenService.java:145`: `refresh()` does not look at how many rows `markUsed`
  updated, so two exchanges of one token both insert a successor (`lost`);
  line 167 says "the client holds exactly one live token per session" and
  `JdbcRefreshTokenRepository.java:87` that the loser triggers the revocation on
  its next read, which it does not do.
- `TokenService.java:120`: the revocation of the family after a reuse is rolled
  back by the exception that reports it; `GlobalExceptionHandler.java:73` says
  "The family is already revoked by the time this runs". In the same way
  `clearPending` in `MfaService.confirm` and the revocation for a disabled
  account are rolled back by the exception that follows them. `purgeExpired` of
  the refresh tokens has no caller.
- `MfaService.java:160`: `confirm()` checks the code against the secret it read and
  promotes the one that is pending when it writes. A second tab's `begin()` in
  between puts a secret in force of which no code was checked, against
  `mfa-enrolment.tsx:33`, "The secret is not active until a code is verified"; a
  second confirm sets it to NULL (`crossed`).
- `acknowledged` of the enrolment page is not reset for a second set of codes.

Admin and catalog:

- `ProductService.java:204`: `update()` locks the product's row and
  `changePrice()` the variant's, and each reads the product for its event before
  the other has committed, so that the last message lacks one of the changes
  (`crossed`); an archive that crosses a price change can be followed by an
  upsert of the archived product. `OutboxRelay.java:140`: a row whose send
  failed is sent in a later batch, behind newer messages of its key, a tombstone
  among them (`reordered`). `CatalogEvents.java:30` says of the message that
  compaction keeps that it "has to be the <em>full current state</em>".
- `publishBatch` is called on `this`, so its transaction is never
  opened and its locks are released at once, and two relays may send one row.
- A price change carries no version and sends the reference price of the page
  (`apps/admin/src/components/price-control.tsx:72`); archive ignores the
  version.
- Nothing writes the step state FAILED, so its retry is never offered; a cancel
  is offered for COMPENSATING; the paths for orders and dead letters do not
  exist in order-service (`routed` is free in the model).
- The guard asks whether a second factor is enabled, not whether it was used; it
  runs twice per page, each time dropping the rotated token.

## 6. Plan

In this order.

1. What the saga relies on in its participants, as theorems: `Inventory` and
   `Payment` each shown to implement the environment `OrderSaga` assumes of them
   (at most one answer per command id, no Reserved after a Released).
2. With it the promises of `docs/CONTRACTS.md` across services: no stock without
   money, no money without stock.
3. The order outbox relay: per-order order of events.
4. Lock order of Reserve, Release and the TTL batch.
5. Pricing: promotion arithmetic against a reference.

## 7. Not modelled

Server-rendered pages and layout, recommendation scores (floating point), search
queries and index writes, pricing arithmetic, schemas, deployment, metrics and
logging, bearer token verification, expiry of tokens and signing keys, rate
limits, the HTTP exchange with Paymob and the verification of callback
signatures, the helpful-vote counter of reviews, the creation of products and
variants and the availability consumer of catalog-service, the retry of a FAILED
step (a state order-service never writes). The order outbox relay, row lock
order in inventory-service and pricing are in the plan. `PROJECT.json` gives the
reason for each component.
