# Verification of the crumbs shop

crumbs is a Django shop for a bakery-café: customers fill a cart, check out online
(Zarinpal, or Stripe where it is enabled) or at the counter, the kitchen prepares, the
customer picks up; Celery tasks send messages, give points, and plan the next day's baking.
This directory holds TLA+ models of the parts whose correctness depends on the order of
events, the TLC configurations that check them on small instances, and TLAPS proofs for
instances of any size. Paths below are relative to `src/apps/` unless they begin with `src/`.

## 1. The system

| Component | State | Operations | Hard because |
|---|---|---|---|
| Stock service (`inventory/services.py`) | `ProductInventory` (stock and a cached `reserved_quantity`), `DailyProductionCapacity` per day, `StockReservation` rows | reserve for cart or order, confirm, release, fulfil, expire | the counters are caches of the rows; every path must move both; the expiry task runs against everything |
| Stock pages of the admin site (`inventory/admin.py`) | the row as the form loaded it | open, save, edit or delete a reservation, delete a day's capacity | the form writes all columns back without a lock; nothing tells the counters |
| Cart (`cart/services.py`) | `CartItem`, `Cart.active_checkout_order` | add, set, remove, clear, merge | reads before locks; several requests of one customer |
| Checkout (`delivery/services.py`, `orders/services/`) | the order being made | validate, create the order, move the holds, start the payment | all or nothing, double submit |
| Order lifecycle (`orders/services/order_service.py`, `delivery/state_machine.py`) | `Order.status`, `payment_status` | transitions, cancel, refund, deliver | staff, callbacks and the cleaner act on the same order |
| Payments (`payments/services.py`, `providers/zarinpal.py`) | `Payment`, `PaymentEvent`; outside: the gateway | open a session, callback, verify, cleaner, cash | callbacks are late, repeated, lost; the gateway is not part of the transaction |
| Stripe (`payments/providers/stripe.py`) | the same rows; outside: sessions and events | webhooks | events in any order, again and again |
| Kitchen, pickup, lookup, dashboard, shift summary (`core/*_views.py`, `core/order_lookup.py`, `core/shift_summary.py`, `orders/customer_status.py`) | none of their own | buttons on a list that may be old | two transactions behind one button; the lists select by different conditions, with different limits and dates |
| Lifecycle tasks (`orders/events.py`, `orders/tasks.py`, `core/tasks/`) | `BackgroundTaskLog`, the Celery queue | claim a key, publish, run, retry | published inside a transaction that may still roll back |
| Daily number (`orders/daily_sequence.py`) | `Order.daily_sequence` | take the next | concurrent takers, a constraint that aborts the transaction |
| Notifications (`notifications/`) | `SMSLog` | policies, send, resend | the provider's answer may be lost; the periodic resend |
| Loyalty (`loyalty/`) | accounts, EARN rows | award, reward a referral | unlocked read and write of one account by several tasks |
| Growth (`growth/`) | coupons, redemptions, referrals, attribution, value and segment of a customer, cart reminders, campaigns | finalize after payment, periodic tasks | limits checked at one time and consumed at another; tasks run twice |
| Accounts and sessions (`accounts/`, `core/checkout_access.py`, `core/table_session.py`) | session rows, their copies in the cache, cookies, `Order.user` | log in, log out, look at an order | every request writes a copy of the session back as a whole, first to the row and then to the cache |
| Rate limit (`core/middleware/rate_limit.py`) | a counter in the cache per address and path | count a post | read and write in two steps; each write restarts the window |
| Demand (`intelligence/`) | statistics, pairs, forecasts, bake recommendations | four nightly tasks | tasks overtake each other, run twice, die between two rows |
| Habits (`intelligence/customer_intelligence_service.py`) | `CustomerIntelligenceProfile` | nightly recomputation | starts from what another task has written |

Components interact by calls inside one database transaction (checkout calls the stock
service, the payment service, the pricing; a callback calls the order service, which calls
the stock service), by shared rows (the cart's pointer to its order, the order's
reservations, a customer's account), by signals (`post_save` of an order publishes its
lifecycle task), by the broker (that task starts the loyalty, growth and analytics tasks), by
Celery beat (`src/config/settings/base.py:277-345`) and by the browser, which carries the
session key and the gateway's answer.

What makes each correct: the cached counters equal the live rows and nothing is promised twice; a
hold is kept as long as the customer was told and no longer; a cart has one checkout at a time and
the order takes exactly what the cart held; an order is paid only on record and is not sold twice,
and stock is never left with a closed order; what is abandoned ends; an order never goes back a
step and is never missing from the screen of those who must act on it, unless others fill the
screen; a task acts only on what is committed and is not lost; messages repeat only for a reason;
points, coupons and rewards are never made from nothing; a page shows a customer only orders of
their own account, of a guest, or that the session has placed; the bakers get a plan every day,
and it follows what was sold.

## 2. Modules

| Module | Models |
|---|---|
| `Inventory` | the stock service, one action per transaction |
| `StockLedger` | what the stock service promises, without counters: which units are promised to whom |
| `StaffForms` | the stock service while staff edit and delete its rows at the admin site |
| `Storefront` | carts and both checkouts as steps of web workers, on top of `Inventory` |
| `Accounts` | sessions in the database and the cache, log-in, log-out and access to orders, on top of `Storefront` |
| `OrderStates` | the state machine of an order, shared by the modules that move orders |
| `OrderPayments` | orders, payments, the gateway, the cleaner, the staff; online, counter and legacy cash-on-delivery orders |
| `StripeWebhooks` | Stripe's sessions and events, on top of `OrderPayments` |
| `StaffDesk` | kitchen, pickup, lookup, dashboard, shift summary and the customer's timeline, on top of `StripeWebhooks` |
| `Messages` | SMS policies, logs and resends, as operators |
| `Lifecycle` | events of orders, the tasks they publish, the task log, retries and crashes, the daily number; takes the steps of `Messages` |
| `Pricing` | discounts, promotion rules, points, tiers and segments, as operators |
| `Rewards` | what follows from a payment, the periodic tasks about customers, reminders and campaigns; uses `Pricing` |
| `Demand` | the nightly pipeline from sales to the bake recommendation |
| `Sums` | the sum of a function over a finite set, used by `Pricing`, `Rewards` and `Demand` |
| `InventoryProofs`, `StorefrontProofs`, `OrderPaymentsProofs`, `StaffDeskProofs`, `LifecycleProofs`, `SumsProofs`, `RewardsProofs`, `DemandProofs` | theorems |
| `MC*` | constants for TLC |

Composition: `Accounts` extends `Storefront` extends `Inventory`; `StaffDesk` extends
`StripeWebhooks` extends `OrderPayments`; `StaffForms` extends `Inventory`; `Inventory`
implements `StockLedger`, and `Storefront` and `Accounts` step as `Inventory` and `Storefront`
allow.

Operators marked "Defect" are faulty variants of the definition that follows them. No
specification uses them; each is put in its definition's place to see that a property of
the passing runs notices.

### Inventory

Every function of `inventory/services.py` runs under `transaction.atomic` and takes
`SELECT ... FOR UPDATE` locks on the rows it reads before it decides, so a whole call is one
action and a call that raises is no step. The state is the columns of the three tables,
`Product.availability_status` and the date. `Release` and `ReleaseThenReserve` are the two
halves every operation is made of. A sum of quantities is the cardinality of a set of units
`<<owner, k>>`, which lets the proofs use finite sets in place of a recursive sum. The
capacity window (14 days in the code), the least default capacity (50) and the untracked
default (100) are constants. `HoldTimesOut` is the passing of `expires_at`.

### StaffForms

`Inventory!EnterStock` lets staff change one column. A `ModelAdmin` does more: it loads the
row unlocked and saves all columns. `StaffForms` splits the edit in two steps and lets the
service run in between. The stock form keeps `reserved_quantity` readonly, but writes back what
it loaded; the capacity form carries all three counters, and staff may enter any of them
(`SaveCapacityForm`). `DeleteCapacity` removes a day's row, which the service makes again when it
needs one. The reservation page writes every field of a row (`EditReservation`) or deletes it
(`DeleteReservation`), and the counters stay as they are.

### Storefront

PostgreSQL runs requests at READ COMMITTED. A request is the sequence of its unlocked reads
and its commit: `BeginAdd`, `GetItem`, `SaveItem` for `add_item`; `BeginSet`, `SetItem`;
`BeginRemove`, `ReleaseHold`, `DeleteItem` for `remove_item`, which has no transaction of
its own; `Begin...Checkout` and `Commit...Checkout` for the checkouts, which hold the
cart's locks in between. `RollBack` is an exception, a lost deadlock or the death of the
worker at any of these points. An order is seen as its `phase`, all that
`is_order_checkout_in_progress` depends on; `OrderPayments` has the detail. Staff entries and
midnight are left to `Inventory`.

### Accounts

A cart is named after what owns it, a user or a session key, so `Carts = Users \cup Keys`.
Sessions are `cached_db`: a row (`store`) and a copy in Redis (`cached`). A request (`visit`)
takes its copy from the cache or else from the row, and then fills the cache (`Load`,
`FillCache`); it is written back as a whole if it was changed, first to the row, if that is still
there (`Respond`), then to the cache (`SaveCache`), and only then does the browser learn of a new
key. A log-out deletes the row and then the copy (`Logout`, `DropCache`). A call of the cache that
fails is ignored (`IGNORE_EXCEPTIONS`), and a copy may be evicted at any time. Other requests may
come between any two of these steps, so a copy may outlive its row and serve a request
afterwards. `Login` gives the session a new key and deletes the old row; the merge that follows
looks for a cart of the new key and finds none. `can_view_checkout_order` has all three
conditions: staff, the order's user, the session that placed it.

### OrderPayments, StripeWebhooks, StaffDesk

Each handler locks the order (and the payment) before it reads them, so an action is one handler.
A handler is an operator from the order's record to the set of records it may leave; the empty set
means that it raises and nothing is written. The gateway's knowledge (`gateway`) is outside the
transaction: in `CallbackRaises` and `CallbackDies` it captures money and nothing is written.
Several sessions of an order may be open at once: at Zarinpal one whose payment was marked failed
beside the next, at Stripe one more with every request. Callbacks may come in any order and any
number. The stock of an order is the common status of its reservations. Amounts are not modelled:
a mismatch raises, like other errors.

Stripe keeps sending an event until it is answered with 200, and a processed event changes
nothing any more, so `webhooks` holds the events still to be processed. The kitchen's and the
pickup screen's buttons load the order unlocked and then run one or two transactions on it:
`tablet` is that request, with the status it has seen. The lists have the limits
(`DASHBOARD_LIMIT`, `DEFAULT_LOOKUP_LIMIT`, `PICKUP_LIST_LIMIT`), the order by `created_at` and, in
the shift summary, the date they have in the code; the kitchen queue and the pickup screen have
no limit there either.

### Lifecycle and Messages

A transaction (`web`) saves the states of its order one after the other. Each save claims the
event's key in the task log, a row that only the transaction itself sees, and publishes the
task at once. Another transaction or task that writes that row waits until the first one ends;
the guards over `Claimed` are these waits. `Commit` and the rollbacks (`RaiseInvalidTransition`,
`LoseNumber`, a crash) end it. A worker's task is taken through `StartTask`, its messages and
the tasks it starts, one step each, with a failure or a crash after any of them; Celery
acknowledges late, so a crashed message comes back. An SMS has three steps that nothing holds
together: look at the logs, call the provider, save its answer. `retry_failed` writes a new row for
each resend and leaves the old one FAILED; that it looks at the first 100 such rows of each run
is left out, and `advance` leaves out the check that `complete_delivery` makes of orders paid on
delivery (the model allows more). Two unique constraints guard
the daily number; the one that fails aborts the transaction, and the retry in
`assign_daily_sequence` cannot help any more.

### Pricing and Rewards

Each task is one transaction under READ COMMITTED, split between its reads and its writes; what
a writer waits for is in the guards. A customer's figures are modelled by the set of orders
they were computed from. `scope` is chosen once and bounds which parts run together.

### Demand

A task reads, then writes row by row, each row in a transaction of its own. Beat sends the four
tasks half an hour apart, and nothing waits for them, not even the date: a task is named with the
day on which it was sent and may run on a later one. Tasks overtake each other, run at the same
time up to the worker's concurrency, run again after a crash, and raise: from outside (`Fail`) or
because two runs over the pairs insert the same row (`InsertRefused`). What raises more than
`max_retries` times is a dead letter. `Parts` lets TLC look at the pairs, which share no table
with the other three tasks, apart from these; the proofs hold for all four at once.

## 3. Runs

Passing:

| Run | Instance | States | Shows |
|---|---|---|---|
| `MCInventory` | a tracked product without preorder and an untracked one, a cart and an order, quantities to 2, two days | 136 540 | counters exact, no overselling except by staff, capacity respected, paid holds kept, refinement of `StockLedger` |
| `MCStaffForms` | one preorder product, two days with midnight, two production days, one edit of any kind | 120 237 | the service never makes a counter worse that staff have made wrong; overdue holds end |
| `MCStorefront` | one cart, two workers, two orders | 72 700 | the cart points to its pending order; hold and item agree; the stock moves as `Inventory` allows; the order takes the cart |
| `MCOrders` | one order of any of the four kinds with up to two payments, or two counter orders and lists of one row | 547 070 | paid only on record, closed orders hold nothing, an order is sold once whichever of its sessions are paid, every sold order in the kitchen queue and every open order on its list or displaced by others, only staff cancel paid orders, no checkout pending for ever, never a step back |
| `MCLifecycle` | one order placed and paid online, one placed at the counter and refunded too early, which raises; two handlers, two workers, one fault | 184 074 | no task handles what is not committed, numbers consecutive, the events' SMS repeat only with an excuse, a task marked done is done, every task ends |
| `MCRewards` | a customer and the one who referred her, in five scopes | 98 565 | the coupon's counter exact, points never made from nothing, one attribution per source, marketing not repeated, the referral rewarded, nightly tasks repair stale figures |
| `MCAccounts` | a browser with two tabs, two workers, a customer and a member of the staff, two session keys, five requests | 1 280 250 | no copy of a session shows a customer another account's order, no copy gets another user, deleted rows stay deleted, carts change by their owners only |
| `MCDemand` | two products in both orders, three days, two tasks at a time, one crash or exception | 862 941 | pairs whole, the plan follows what was sold, every night is planned, each with the exceptions the property names |

Runs that end in a violation state what a document, docstring or test of the repository
says and show that the code does something else:

| Run | Trace |
|---|---|
| `MCStorefrontOversell` | two carts pass the unlocked check of a preorder product and both book |
| `MCCaptured` | an online order is placed; the customer pays at the gateway; staff cancel the order while its payment is processing; the callback verifies, which captures the money, finalizing raises `InvalidTransitionError`, and the rollback leaves the payment at "processing" |
| `MCPaidHold` | the hold expires, then the payment arrives: nothing is confirmed |
| `MCResends` | the provider refuses an SMS; the periodic job resends it and it is accepted; the next run finds the old FAILED row and sends it once more, beyond the ceiling of one attempt |

One passing run bears on a document as well: `CartsStayApart` holds in `MCAccounts`, and so the
merge of carts at log-in, which a docstring and `docs/02` describe, does not take place.

Bounds. One or two products, owners and workers are enough for the interleavings: rows of
different products do not interact except through all-or-nothing calls (two products in
`MCInventory`), orders share no row of the tables in `OrderPayments` (so `Scopes` has one order of
each kind, and two orders only where they compete for a list; two payments, one of them late, are
what a handler can confuse), and two requests suffice for a stale read. Quantities up to 2 tell a
row from its units. In `MCRewards` the scopes are: two orders whose tasks meet in one account; one
order whose tasks run twice in parallel; an order among reminders and periodic tasks, first with
its own tasks, then with workers that die; a campaign sent off twice. `MCDemand` has a week of two
days and three days, so that a forecast looks back at recorded sales; its `max_retries` is 0 (5 in
the code), so that one exception makes a dead letter, and a task that starts afresh after a crash
stands for a retry. The lists of `MCOrders` have one row and two orders. `MaxVisits` 5 lets a
customer log in, order and log out in one tab while the other one's request loads and saves the
session. `MaxPayments`, `MaxVisits`, `MaxSaves`, `CounterEntries`, `RowEntries`, `LastToday`,
`LastDay`, `MaxQty`, `MaxFaults`, `MaxOwed`, `MaxRefunds`, `OrderDays`, `Parts`, `MaxResends`,
`Operations`, `Scopes` and the other sets of entries are bounds of the model and named as such.
Where a safety property is proved (section 5) the bounds are arbitrary. Orders and workers are
symmetric where a run has only safety properties; the runs with a liveness property use no
symmetry.

### What the models show beyond the properties

Some behaviours of the code that the models contain deserve attention although no run is
made of them.

* Carts: a cart changes after its checkout has committed when the request had passed
  `ensure_cart_mutable` before (`BeginAdd`, `CommitOnlineCheckout`, `SaveItem`); a hold remains
  without its item when an add falls between the two transactions of `remove_item`; a cart that
  holds more than half of what is left fails its checkout, because `_validate_cart_items` counts
  the cart's own hold against it, where `src/docs/01-معرفی-پروژه.md:550` says that it is added.
* Payments: a second payment of a paid order is set to succeeded without verification
  (`CallbackSettled`); a refund request locks the cart of a paid order again
  (`RefundRequested`); an order paid at the till may keep an open online payment; nothing
  ends the other sessions of an order that is paid, and what the customer pays in them is
  recorded at best and given back by nobody; a failed
  attempt at Stripe cancels the order while its session is open; an order whose Stripe session
  is reported as expired before the cleaner comes stays pending (the exception in `PendingEnds`).
* Staff: saving a stock form restores an old `reserved_quantity`; an edited or deleted reservation
  leaves the counters as they were; an order whose list is full of others is not on it; an unpaid
  counter order can be advanced as far as handed over; the shift summary omits legacy cash orders;
  the timeline shows no step as reached while an order is out for delivery.
* Tasks: an outage of the broker loses the event, since its key stays claimed; the event of a
  payment that was rolled back, handled early, may block the one of the real payment; the two
  saves of a refund publish the same template twice, and two workers may both send it;
  `DedupeWindow` 0 lets a retried task
  send its messages again.
* Rewards: parallel tasks may lose points, or award an order twice (both the points and the
  ledger row); the EARN row of a referral carries the buyer's order and keeps that order's own
  points from being awarded; pending orders together exceed a coupon's limit; an order without
  a coupon may be attributed twice; a reminder overwrites "recovered"; campaign messages that
  quiet hours suppress count as sent.
* Accounts: log-in changes the session key before `merge_session_cart_on_login` looks for the
  cart, so the guest's cart stays behind; a guest who pays online may not look at the order
  afterwards; a copy of a session overwrites what an overlapping request has saved; a request that
  loads or saves a session while another logs out leaves its copy in the cache, and whoever still
  sends that key is logged in until the copy expires, with the same user.
* Demand: with its window of a week the forecast equals the record of the same weekday; the
  statistics at 02:00 are those of the day that has just begun; two runs over the pairs at a time, or
  one that is given up, leave half a pair until a later run; a night whose task becomes a dead
  letter has no plan, and one whose task comes late is planned under the later date.

## 4. Fairness

Nothing is assumed of customers, browsers, gateways or staff. Assumed are

* `Inventory!FairSpec`, `StaffForms!FormFairSpec`: weak fairness of the expiry task, which beat
  starts every 15 minutes for ever;
* `OrderPayments!FairSpec`, `StaffDesk!DeskFairSpec`: weak fairness of the cleaner of stale
  payments (beat, every 15 minutes) and of the passing of the time after which a payment is stale;
* `Lifecycle!FairSpec`: an open transaction and a busy worker go on (weak fairness); a crash
  is no end, because messages are acknowledged late and come back;
* `Rewards!FairSpec`: the same of the workers and of a reminder under way, and strong fairness of
  the periodic tasks of each followed customer, since beat starts each of them for ever while
  other periodic tasks come in between;
* `Demand!FairSpec`: time, beat and the workers go on, with whichever task; so a task is not
  promised its turn before midnight.

## 5. Proofs

The constants are arbitrary within the named assumptions (finite sets of carts and orders,
natural bounds; nothing about their size).

* `InventoryProofs` argues about gaps: how far a cached counter is from the live rows. Lemmas
  give the cardinality of the units after a release and after a booking; `ServiceKeepsGaps` and
  `EnvironmentKeepsGaps` conclude that no transaction of the service, no staff entry and no
  passing of time widens a gap (`GapsKept`), given only that the rows are typed and that carts
  have no confirmed rows (`Sound`). Two results follow from the one argument. In `Inventory`,
  where gaps start at zero, they stay there: `ReservedIsHeld` and `CapacityIsHeld` are part of
  the inductive invariant `IInv`, and the `max(0, ...)` of a release is never reached. In
  `StaffForms`, where staff write back old counters and both invariants fail, `Sound` is still
  inductive (`FormInv`), and `GapsNeverWiden` follows: the service keeps an error that a form has
  made or shrinks it. From `IInv` follow `NeverOversells`, `NeverOverbooks` and, as carts
  have no confirmed rows, `PaidHoldsKept`. `LedgerImplemented` maps the promised units of
  `StockLedger` to the units of the live rows: every transaction is a step of the ledger or
  leaves it alone. A booking is within the stock because the counter it decides by counts
  the promises (`ReservedIsHeld`).
* `StorefrontProofs`: `StoreInv` adds to `PendingIsActive` that at most one checkout of a cart
  runs (`CheckoutIsExclusive`), that while an online checkout runs the cart's order is not
  pending (`NothingPending`) and that carts point to placed orders (`ActiveIsPlaced`): the
  decision taken under the lock is still true at the commit. Every step is a step of
  `Inventory` or leaves the stock alone (`StockServiceUsed`), so the theorems of
  `InventoryProofs` carry over. `OrderTakesCart` follows because only a checkout gives an order
  rows (`OthersMakeNoRows`), `HoldFitsItem` from `CartHolds`, which adds that carts hold tracked
  products only.
  For `Accounts`, `SessionInv` says of every copy of a session (the row, the cache, those of the
  requests) that an order it may look at is placed, by its user or by a guest (`AccessOK`; a
  log-in keeps it because the session was a guest's until then), that of a session not begun
  there is no copy (`KeysGivenOut`), that no two copies name two accounts (`OneAccount`), that a
  request without a key has nothing in its session (`Keyless`), and that a cart request is served
  within a page for the cart of its session (`OwnCarts`). A step makes at most one new copy, of
  what another copy held, or begins a fresh key (`KeptOrBegins`), so no copy gets a user that
  none had (`UsersKept`); a deleted row stays deleted because `Respond` checks the row
  (`DeletedStays`). From this follow `AccessIsOwn`, `SessionsKeepTheirUser` and
  `CartsStayApart`. Every step is a step of `Storefront` or leaves carts and stock alone
  (`UsesStorefront`), so the storefront's theorems carry over.
* `OrderPaymentsProofs`: `OInv`, per order: a paid order has a succeeded payment, a closed one
  no hold, a counter payment is the first. A lemma per handler
  shows that it keeps the order sound.
* `StaffDeskProofs` carries this to all four kinds of orders, to Stripe's events and the
  screens. A lemma per handler shows that it keeps the order sound. `DeskInv` adds to `OInv`
  that Stripe's events name payments of their order, that a screen's request is about a placed
  order, and `Shown`: no order rests at "paid", only counter orders wait for the till, cash is
  still to be collected only for a legacy order that is not handed over. `SoldIsOnScreen`
  follows from it; that a row kept out of a limited list is kept out by as many rows as the list
  holds is the lemma `Window`, about any finite set in the order of `created_at`. `NeverBackwards` and
  `OnlyStaffCancelPaid` follow per action. These theorems are about `DeskSpec`, the
  specification that `MCOrders` checks with fairness added.
* `LifecycleProofs`: `IInv` has five parts beside the types. An open transaction has its order
  for itself, and the number it read is the next one or its own (`WebOK`, `NumbersOK`): the
  second unique constraint refuses the other, so `ConsecutiveNumbers` survives every commit and
  rollback. Every message is in one place, the queue or one worker, and comes from a transaction
  that is open, and holds the claim of its key, or over (`SentOK`, `PlacesOK`). A worker whose
  task has begun is past that claim (`RunOK`), hence `NoEarlyHandling`. Every task of the event
  is started or still before the worker (`Reached`), hence `SuccessMeansStarted`. For
  `RepeatsExcused` the workers that are about to send a template count as well (`NotesOK`): what
  the events have delivered and may deliver next is together no more than the messages that carry
  the template and the unanswered ones; each of these workers has a message of its own
  (`SendersCounted`), so a task's own retries never add to it.
* `SumsProofs`: a sum over a set is a fold, that is, a recursive function on its subsets. No
  induction theorem of the library can be instantiated here, but the facts that are needed (the
  recursive function exists, a sum is any of its terms and the sum of the others, it is a natural
  number, sums of subsets are no larger) are proved by looking at a set of the least size for
  which they would fail.
* `DemandProofs`: `IInv` says of every row what it was computed from. A run of the statistics
  has seen no more than was ordered on its day (`StatsOK`); a run over the pairs that is alone has
  written both directions of what it has passed or none (`PairsOK`), hence `PairsWhole`; a forecast that
  looks back a week is the record of the same weekday (`ForecastsOK`), which needs arithmetic on
  the averages, and the recommendation takes it or the default (`BakeOK`). The record of a day
  cannot change once a day has passed, so what was advised stays true: `BakeFollowsSales`.
* `RewardsProofs`: `RewardsInv` says of every run of a task what it may still rely on. A run
  that has inserted a redemption stands before its commit and is the only one (`RunsOK`, from
  the unique constraint), so the counter moves with the row. Points a run has read were in the
  ledger, which only grows; so a write may lose an update but not invent one. A run for an order
  with a coupon comes before the redemption's commit and misses all sources known at checkout,
  or after it and misses none; hence one attribution. `UsageCountsRedemptions`,
  `PointsWithinLedger` and `AttributedOnce` follow.
  For `MarketingExcused`, `MarketInv` adds what may still be sent: of the reminders that went
  out all are counted but that of the run about to save its tracker and those of runs that
  died there (`RemindersOK`); what a customer got of a campaign, the runs that may still send
  it to her and the messages from which a run may start are together no more than the early
  dispatches and the deaths (`CampaignOK`). The bound on what was sent is not inductive by
  itself, since every run that is under way may send once more. That the rules of a promotion
  take off no more than the goods cost (`PromotionWithinPrice`), which the amounts of an order
  rest on, is proved for every list of rules.

Every other safety property that a passing run checks, invariant, action property or refinement, is
a theorem. Only model-checked are `PaidOnce`, which needs to know of every handler which payments
it settles, and liveness (`OverdueHoldsEnd`, `PendingEnds`, `EventsHandled`, `ReferralRewarded`,
`NightlySettles`, `BakePlanned`): the fairness conditions contain ENABLED, about which the
provers cannot reason. The runs that end in a violation show behaviours, and there is nothing to
prove about them.

## 6. Not modelled

* Recommendations and upsell on the pages (`intelligence/recommendation_service.py`,
  `upsell_service.py`): scores and sorted lists for a page, on which no state depends. The
  personalised offers, the product metadata and the insights snapshot are of the same kind.
* Revenue reports, the funnel's event log, analytics snapshots: sums that nothing else reads.
* E-mails: they are sent along with the SMS and leave no row.
* Delivery zones and fees, which today's checkout never uses (`delivery/services.py:133` refuses
  cash on delivery; the orders of that kind that still exist are in `OrderPayments`).
* At the stock pages: rows that staff add or move to another owner, a CONFIRMED row of a cart,
  edits of `track_stock` and `allow_preorder`, which are constants of the model, and the deletion of
  a `ProductInventory` row.
* The rate limit (`core/middleware/rate_limit.py`), for the log-in form and the checkout: a counter
  that nothing else reads. Overlapping posts overwrite each other's count, so that more than the
  limit get through; that follows from its two lines and needs no model.
* Raw edits of the status field in the order form (`orders/admin.py:206`): they write any value
  past the state machine, and every property about statuses assumes that staff use the actions.
* Address book, profile form, careers, wishlist, health checks, logs, templates, settings and
  deployment: single rows, or no state.
* `merge_carts` is not an action of its own: with today's log-in it is never reached with a
  cart to merge. The variant `LoginAndMerge` in `Accounts` shows what it would do to the stock
  if it were.

## 7. Plan

1. Done: the stock service, its ledger and its proofs; carts, checkouts and sessions; orders,
   payments, Stripe and the screens with their proofs; lifecycle tasks and messages; rewards;
   demand.
2. Next: a proof of `PaidOnce`. Its invariant has to say of every handler that while an order may
   still be paid none of its payments is settled.
3. Then: what the handlers of `OrderPayments` and `StripeWebhooks` promise as an abstract
   specification of one order's money, implemented by `StaffDesk`; the order of the locks in
   `reserve_for_order` and the releases, where two transactions may wait for each other.
