# TLA+ models of openlocal-api

`openlocal-api` is a Go service (Fiber, Postgres, PGMQ, Clerk, Stripe) for small
local businesses: profile, catalogue and stock, a public marketplace, and two
paid modules, appointments and preorders, in which customers send requests that
the business decides. This directory holds TLA+ models of its components, TLC
configurations that check them on small instances, and TLAPS proofs for every
instance.

    tlc -config DoubleBooking.cfg MCRequests.tla     # one of the runs of section 4
    tlapm RequestsProofs.tla                         # one of the proofs of section 5

## 1. Inventory of the system

| Component (under `internal/`) | State | Operations | Interacts with | What is hard, what makes it correct |
|---|---|---|---|---|
| `operations` (create, mutate, records) | `appointments`, `preorders`, `request_history`, `module_usage_events`, `request_access`, `request_idempotency` | create, transition, edit, customer cancellation, `Expire` | the row lock of `business_subscriptions`; `entitlements.Consume`; `scheduling.Slots`; enqueues `expire_request` | Handlers, workers and the sweep meet on one record; the clock moves while a handler waits for the lock. No double booking, capacity, one charge per accepted request, decisions are final, retries create nothing twice, every pending request is resolved. |
| `operations` (configuration, preorder items) | `business_modules`, `services`, `appointment_resources`, pickup windows, variant rules, `preorder_items` | settings, services, resources, items and totals | the same lock; `entitlements`; the catalogue, which is not under the lock | Values checked by a request may change before it is decided. |
| `operations` (list, personal) | none | lists, summary, CSV, personal activity | reads only | A list is several statements, and rows come and go between them. |
| `appointments`, `preorders` | none | `Next`: the two life cycles | `operations` | |
| `entitlements` | subscription row, usage events | `Paid`, `Consume`, limits | `operations`, `billing` | The count and its limit must belong to the same period and plan. |
| `scheduling` | none | `Slots` | `operations` | Wall-clock arithmetic: overnight hours, closed dates, daylight saving. |
| `jobs` | PGMQ queues `openlocal_jobs`, `openlocal_failed` | `Process`, `Sweep`, `ReconcileAll`, `Run` | `operations.Expire`, `billing.Reconcile` | At-least-once delivery, eight attempts, batches abandoned half way, sweeps that end at their first error. |
| `billing` | subscription row, `billing_operations`, `billing_events` | checkout, change, portal, webhook, `Reconcile` | Stripe; deactivates resources | Two systems that commit separately; Stripe is read before the lock is taken; events are repeated and reordered. |
| `inventory` | `stock_levels`, `stock_movements`, default location | create, edit, delete movements | Postgres row and key locks | The level is the sum of the ledger; keys make retries safe; two rows locked in two orders. |
| `catalog` | products, variants, codes, images | create, update, archive | `inventory`, `marketplace`, `operations` | Several statements to a write, which wait for each other and may deadlock. |
| `business` | businesses, hours, service areas | create, update, hours | Clerk organization, compensating delete | Clerk and Postgres commit separately; what a body leaves out is read before the transaction. |
| `webhooks`, `users`, `clerk` | users, members | Clerk user, organization, membership messages | `business`, `api` | Messages arrive late, twice, out of order. |
| `auth`, `api` | JWKS cache, roles | verify, `CurrentUser`, `RequireBusinessRole` | Clerk | The cache is refreshed outside its lock; a role takes a token and a row. |
| `savedbusinesses` | saved businesses | save, remove, list by cursor | | The list moves under the reader. |
| `marketplace` | none | lists with a reach filter, product search, profile | reads `business`, `catalog` | One question answered by text, by keys and by coordinates, over two statements. |
| `analytics`, `support`, `platform`, `validator`, `server`, `config`, `cmd` | at most one row at a time | reads, single inserts, wiring | | No protocol. |

The components meet in four places: the row lock of the subscription (operations
and billing), the queue (operations and billing send, jobs run), the replay rows,
and the tables that one component writes and another reads without a lock
(catalogue to preorders, profile to marketplace, members to every handler).

`PROJECT.json` lists all components with their status, and under `hazards` the
places where the code depends on an order, a limit, a clock or a failure that a
unit test would hardly produce, with the properties that would show it going wrong.

## 2. Plan

1. **Done.** `Requests` (with `Lifecycle`, `Entitlements`): the request life
   cycle, which every other part of the two modules exists for; `Bookings`, the
   abstract promise it implements; `RequestsProofs`.
2. **Done.** `Inventory` and the abstract `StockLedger`; `JobQueue`, the abstract
   `Delivery`, `JobQueueProofs`; `Sweeps`.
3. **Done.** `Billing` (changes, webhook, reconciliation) and `Checkout`.
4. **Done.** `Accounts`, `Hours`, `Profile`, `JwksCache`, `Slots`, `Cursors`,
   `Export`, `Catalog`, `Orders`, `Reach`.
5. **Done: proofs** of the safety of `Requests` (all its properties that TLC checks
   except liveness), `JobQueue`, `Sweeps`, `Inventory`, `Catalog`, `Orders`, `Billing`,
   `Checkout`, `Accounts`, `Hours`, `Profile`, `JwksCache`, `Cursors`, `Export`,
   `Slots` and `Reach`: section 5. Every invariant and action property of the passing
   runs is stated by a theorem, and so is the safety that `Progress` checks beside its
   liveness.

## 3. Modules

| Module | What it is |
|---|---|
| `Lifecycle` | statuses, `appointments.Next`, `preorders.Next`, the statuses the availability queries count |
| `Entitlements` | the subscription row, `Paid`, `requirePaid`, the limits as parameters |
| `Requests` | the tables and actors of one business: handlers, workers, configuration, clean-up, clock |
| `Bookings` | abstract specification: a booking is asked for, decided, moved, or lapses, atomically, with no actors |
| `Orders` | the items of a preorder: settings and variant rules, prices, quantities, totals |
| `JobQueue`, `Delivery` | workers that share the PGMQ queue, and what it promises of each message |
| `Sweeps` | the loop of a worker: batches, the sweep of due requests, the reconciliation of all customers |
| `Billing` | a subscription at Stripe and its row: changes, schedules, events, reconciliations |
| `Checkout` | how a business comes to have a customer and a subscription |
| `Inventory`, `StockLedger` | stock movements statement by statement with the locks of Postgres, and the ledger they implement |
| `Catalog` | products and variants: unique codes, images, visibility |
| `Accounts` | organizations and members at Clerk, their copies, tokens, the creation of a business |
| `Hours`, `Profile` | replacement of the weekly hours; location mode, coordinates and service areas |
| `JwksCache` | the signing keys a process holds |
| `Slots` | the loop over the instants of a date, against the openings it is to find |
| `Cursors`, `Export` | lists by cursor; the export, page by page |
| `Reach` | the marketplace's reach filter and its pages |
| `Owners` | what a business and its owner go through, side by side: instances of `Accounts`, `Hours`, `Profile`, `JwksCache`, `Checkout`, and their joint properties |
| `Goods` | what a shop sells: `Inventory`, with instances of `Catalog` and `Orders` beside it, and their joint properties |
| `Offers` | what clients are offered: instances of `Slots` and `Reach`, and their joint properties |
| `Walks` | what goes through an ordered set of rows: instances of `Sweeps`, `Cursors`, `Export` |
| `MCRequests`, `MCShop`, `MCBackground`, `MCAccounts`, `MCOffers`, `MCWorkers`, `MCProgress` | constants and suites for TLC |
| `RequestsProofs` | types, double bookings and final decisions of `Requests` |
| `RequestTablesProofs` | extends it: history, usage, tokens, expiries, messages, the refinement of `Bookings` |
| `RequestLimitsProofs` | extends that: capacity, quota, pending limit, idempotency keys |
| `JobQueueProofs` | theorems about `JobQueue`, with the refinement of `Delivery` |
| `InventoryProofs` | theorems about the three components of `Goods`, which it extends, with the refinement of `StockLedger` |
| `AccountsProofs` | theorems about the components of `Owners`, which it extends |
| `OffersProofs` | theorems about `Billing` and the two components of `Offers`, both of which it extends |
| `WalksProofs` | theorems about the three components of `Walks`, which it extends |

### Suites

The components that share no state are checked in suites. A suite instantiates
several of them and has one variable more, `part`: it is chosen in the initial
state and never changes, every step is a step of that part, and the others rest in
one of their initial states. The behaviours of a suite are therefore exactly the
behaviours of its parts, side by side, and a property of a part holds in the suite
if and only if it holds in that part (a part at rest is in a state the property is
checked in anyway). Nothing is lost by not interleaving them: no action of one
reads a variable of another. Fairness conditions of different parts are joined in
one condition by disjunction, since only one of the actions can ever be enabled;
this keeps the number of conditions TLC has to combine small.

The property of a suite is often a conjunction of properties that the component's
module states and comments one by one, with its type invariant. Where theorems are
about such a conjunction it is stated in `Owners`, `Walks`, `Goods` or `Offers`, a module with the
component's constants and variables as its own, which both the suite and the proofs
extend.

### Requests and the code

Every write transaction of `internal/operations` and `internal/billing` first
executes `SELECT ... FOR UPDATE` on the subscription row of the business
(`Handler.begin`, `Expire`). A handler is therefore three steps:

| Step | Code | Model |
|---|---|---|
| arrive | body, access token, membership, `BEGIN` | `ArriveCreate`, `ArriveMutate`: the call and the time of its `BEGIN` go to `request[p]` |
| acquire and check | from the lock to the last statement before `COMMIT` | `AcquireCreate`, `AcquireTransition`, `AcquireEdit`, `AcquireExpire`: the checks read the committed tables and leave all rows to be written in `writing[p]` |
| end | `COMMIT`, or any error return | `Commit`: all rows appear at once; `Rollback`, `AbandonExpire`, `FailJob`: none does |

Between the second and the third step the clock moves, requests arrive, messages
are read and the clean-up statements, which take no lock, run. `Locked` is the
row lock: it is what serialises the second steps, and the mutant `NeverLocked`
shows what happens without it.

Two clocks of the code are kept apart. `time.Now()` in Go is `clock` at the
second step. `now()` of Postgres is the time of `BEGIN`, before the wait for the
lock: `request[p].now` is what `Stored`, `Pending` and `ReplayRow` use.

| State | Table or variable of the code |
|---|---|
| `recs` | `appointments` and `preorders`; `where` is `resource_id` or `pickup_window_id`; `created` is `created_at`; `origin` is the request's body |
| `usage`, `history`, `access`, `replay` | `module_usage_events`, `request_history`, `request_access`, `request_idempotency` |
| `jobs`, `failed` | messages of `openlocal_jobs` and `openlocal_failed` of type `expire_request` |
| `sub`, `settings`, `services`, `resources` | the rows read under the lock |
| `expiring[w]` | the `Expire` call of a worker and the message it came from, none for the sweep |

Expiration: `ReadJob` hands a visible message to a worker and leaves it in the
queue, so it may be read again by any worker (the visibility timeout has passed,
or the acknowledgement was lost); `SweepDue` finds the record without a message;
`AcquireExpire` or `ExpireNothing` follow; `Ack` archives. `FailJob` may give a
message up at any attempt: `JobQueue` counts them.

Configuration and billing appear as single steps that need the lock to be free.
Their transactions hold the lock too, so nothing under the lock interleaves with them.

Abstractions of `Requests`:

* One business. The lock, the tables and the limits are per business.
* Times are small numbers. Opening hours and closed dates are sets of instants,
  and `Offered` says of one start what `Slots` computes for a whole day. The
  daily cut-off hour of preorders is left out.
* Bodies are records of the fields that checks read. Notes are left out, and items,
  prices, totals and variant rules are in `Orders`; an edit that changes only those
  is here an edit that moves nothing and raises the version.
* The set of pickup windows is a constant; whether a window is still on offer
  depends on the settings, as in `checkPickup`.
* A service or a resource not yet created is an inactive one.
* Staff roles, the business's status, the Turnstile challenge: a call that fails
  them is a `Rollback`, or never arrives.
* A transaction reads the wall clock once.
* The sweep considers one record at a time, its own clean-up being `CleanReplay`
  and `CleanAccess`; its lists, its order and its early end are in `Sweeps`.
* A version is sent back by a client only after it has been stored; the bound
  `MaxVersion` stops edits once a record has changed often enough.
* `MaxOpen < ReplayTTL`: no request keeps its transaction open for as long as a
  replay row lives (24 h). The server sets no timeout of its own, so this is an
  assumption about Postgres, proxies and clients. A call that began before the first
  one committed and waited for the lock looks for the replay row with the time of its
  `BEGIN`, after `CleanReplay` may have removed it; so two records of one key can be
  closer than the life of a row by what a transaction may be open, which is what
  `CreatedOncePerKey` says, and with no bound on it the property would say nothing.

### Orders and the code

`Price` reads settings and catalogue for a basket, as `create` does under the lock;
`Commit` or `Rollback` follows. `Configure` (the merge of a settings body over
the stored settings, then `validate`) needs the lock to be free, `ChangeVariant`
does not: that is the interleaving `PlacedAsOffered` is about. Prices are whole
cents, quantities are whole units of 1/`Scale`, and a line is rounded half up
as the code rounds. JSON decodes an array over the elements that are there, so a
rule that leaves a field out keeps the field of the stored rule at its position.

### JobQueue, Sweeps and the code

`Poll` is `pgmq.read`: it hands up to `BatchSize` visible messages to a worker,
counts the reading and hides them for `Visibility` (60 s). `RunJob` is the job;
`Record` is what follows it: `AckJob` (archive), `RetryJob` (hidden again, for a
delay that doubles up to `MaxDelay`), or, at the last of `MaxReads` (8) attempts, the
transaction that sends the message to `openlocal_failed` and deletes it from the queue.
`Abandon` is every way a batch ends early: an error of those statements, the
deadline of 45 s (`Deadline`), a stop of the process. `Slack` bounds how long a
statement may go on after the deadline has passed. `hidden[m]` and `left[w]` count down.
`Poison` messages fail each time.

`Sweeps` is `Worker.Run`: `select` chooses a ticker that has ticked, `Sweep` reads the due
requests of both modules and expires them one by one, deletes old rows of three
tables, and `ReconcileAll` walks the customers by pages. An error ends the sweep at once
(`Fail`). What a job and an expiration do is in `Requests` and `Billing`.

### Billing, Checkout and the code

The row lock is `holder`. A change goes through the states of `call[k].at` in the
order of `Handler.mutate` and `Handler.change`: the lock, the replay row, the
subscription fetched from Stripe, the release of a schedule, the update or the new
schedule, the commit with the replay row, the reconciliation after it. At each state
it may fail (`Fail`): the transaction is rolled back, and what Stripe has done stays
done. A request whose answer is lost may have been carried out, and `used` holds
Stripe's idempotency keys. Stripe keeps a key for about a day: `Forget` drops one at any
time between two attempts of its request, and the next attempt then does its change
again. What is said of a change "once for its key" (`UpdatedOncePerKey`) is therefore
said of the time Stripe has the key, and a client that repeats a request after that
may be charged twice. A key is not dropped while a request that names it is under
way, which lasts seconds. `Webhook` stores an event and sends its job; `Fetch` and
`Reconcile` are the two halves of `Handler.Reconcile`, the read from Stripe and the
write under the lock. `Stripe` is the environment: payments succeed or fail,
schedules come due, subscriptions end.

`Checkout` is `Handler.checkout` in the same manner: customer, list of subscriptions, list
of open sessions, reuse, expiry or creation of a session; the buyer pays or lets lapse.
Its keys are forgotten too (`ForgetCustomer`, `ForgetSession`). A customer whose making
was rolled back is found again by the key of the business as long as Stripe has it;
after that a second customer is made. So there may be two, one of them with an open
session nobody was told of, and `OneOpenSession` is about each customer; what
`AnsweredIsOfTheRow` adds is that whatever the buyer is told belongs to the customer of
the row, whose payments the business gets.

### Inventory, Catalog and the code

Both model transactions of several statements under READ COMMITTED: a statement sees
what is committed, writes become visible at `Commit`, and until then others wait for
the rows and index keys they hold. `WaitsFor` says who waits for whom;
`DeadlockVictim` and `Deadlocked` are the circles Postgres breaks. `tx[p].todo`
lists the statements that a handler has yet to execute, in the order of the code. A
lost connection (`Lost`, `Rollback`) ends a call anywhere. In `Catalog` one code
stands for the three unique codes of a variant.

### Accounts, Hours, Profile, JwksCache and the code

`Accounts` has Clerk (`org`, `clerk`, `tokens`), the messages it posts, the tables, and
the creation of a business in its two halves with the compensation. All organizations
ask for one slug.

The handler of a membership is three statements without a transaction: the business is
looked up, the user's row is written (or read, for a deletion), the membership is
written. `HandleClerk` goes up to the second of them and leaves an attempt in `attempts`;
`UpsertMember` and `DeleteMember` are the third, and `FailAttempt` an end without it. Any
number of attempts of one message may stand there at once, among them one that goes on
after another was acknowledged. A message is in `posted` until its delivery is over:
acknowledged, with no attempt of it under way. `SyncedWhenApart` is about members whose
changes come apart in this sense, each delivered with all its attempts before the next is
made. The look-up is taken together with the second statement, as a business that was
found is never deleted; an attempt remembers whether the user's row it found is still
there, as a row made anew has another id.

`Update` is one step, at the moment of the `UPDATE` statement, which asks for the
member's role itself (`businesses.sql:37`). The token is looked at before it
(`handler.go:180`) and the commit comes after it (`:247`). So `tokens` are those that
have not expired and those that a request under way carries, and a demotion that is
delivered between the `UPDATE` and the `COMMIT` comes after the update: the update read
the role before it, and holds the row it writes until it commits.

`Hours` has one `DELETE` and one upsert per day with
what each sees at READ COMMITTED. `Profile` has the read of the row, the read of the
areas, and the transaction that follows without looking at either again. `JwksCache`
has the look-up under the read lock, the fetch without a lock, the store under the
write lock, and the second look-up.

### Slots, Cursors, Export, Reach and the code

`Slots` runs the loop of `Slots` over the instants of a date in a zone that changes
once, by any number of instants up to a day's, and compares it with `Reference`,
which says without a loop which instants lie in an opening. Two premises name where
the code parts from it: the midnights it counts from (of today, of the end of the
horizon, of the date and its neighbours) exist once (`MidnightsExist`), and no night
lasts into hours that are skipped right before a midnight (`NightsEnd`: the minutes of
`Fits` after such a night start anew). `Cursors` is the
condition `(created_at, id) < (cursor)` of the saved businesses and of the personal
list; `SaveLate` is a row that gets the time its transaction began at. `Export` is a
list and a count per page without a transaction, with the cap on rows. `Reach` is
`parseReachFilter` and the conditions of `ListPublicBusinesses`: the address of a
fixed business is compared as text without regard to case, accents counting; service
areas are compared by normalized keys; a word without letters or digits has no key
and names no field; a box of coordinates and a place widen the answer (either
suffices). The product search uses the same filter; its own walk is not modelled.

## 4. Runs

Every passing run checks all reachable states of its instance.

| Run | States | Instance | Properties |
|---|---|---|---|
| `DoubleBooking` | 271 k | 2 handlers, 2 requests from a public and a personal customer for overlapping slots of one resource, confirmation, completion, a move onto the other's slot, a change of the service's duration | `TypeOK`, `NoDoubleBooking`, `HistoryChain`, `ImplementsBookings` |
| `ExpiryRace` | 524 k | one handler, 2 workers, one request that the owner confirms, moves (later and back) or annotates, the customer cancels and the clock expires | `PendingHasItsJob`, `PendingEndsBeforeStart`, `AccessFollowsRequest`, `DecisionIsFinal` |
| `Capacity` | 601 k | 2 handlers, 2 preorders for two windows of one place, one moved onto the other; plan, limit, period and capacity change | `ChargedIffHeld`, `PickupCapacity`, `QuotaRespected` |
| `Retries` | 1.19 M | 2 handlers, 3 records, the same bodies and keys again and again across the life of a replay row, some requests rejected | `CreatedOncePerKey`, `PendingBounded` |
| `Lapsing` | 139 k | fair behaviours: one worker, failing messages, a move, the plan ends, the resource goes away | `PendingResolved` |
| `Shop` (`MCShop`) | 307 k | stock: 3 handlers, 3 movements, a purchase and a sale at two places, edits that move and change them, levels up to 2; a variant written by two calls at once; preorders of one or two items over two variants, seven lists of rules, two prices | `RowsAreSound`, `DeletionsNeverDeadlock`, `ImplementsLedger`, `VariantsAreAsAsked`, `PlacedAsOffered` |
| `Background` (`MCBackground`) | 1.83 M | 2 workers, 3 messages of which one always fails, batches of 2, 3 attempts; the loop over 3 requests and 3 customers, pages of one; a list of 3 rows by pages of 1 and 2; exports of up to 5 rows by 2 with a cap of 3 | `TypeOK`, `OneWorkerPerMessage`, `DeliversOnce`, `NobodySkipped`, `StableListedOnce`, `ExportsAreWhole` |
| `Accounts` (`MCAccounts`) | 1.29 M | 2 users, 2 organizations, 3 messages, any attempts of them; 3 replacements of the hours by weeks of no, one and two days; 2 updates of a profile over 4 areas; 2 checkouts, 3 sessions, forgotten keys; 2 keys, 2 requests, 4 units of time | `SyncedWhenApart`, `StaleRoleNeedsBoth`, `LastWeekIsWhole`, `ReplacedWhenApart`, `ValidUnlessStale`, `OneOpenSession`, `KeysAreCurrent` |
| `Offers` (`MCOffers`) | 1.58 M | two owners who change between two plans; one key sent twice, and forgotten in between; all combinations of 5 weeks, 3 closures, and a change of the zone by 3 shifts at 13 instants on either side of UTC, or none; 3 shops, 13 searches | `AccessWasPaidFor`, `ChangesAreCarriedOut`, `SlotsAreTheOpenings`, `FoundWhereItServes` |
| `Workers` (`MCWorkers`) | 9.7 k | fair: the queue with a message that always fails; the loop with due requests, with rows to delete, with 3 customers of whom the last is always refused | `EachSettles`, `SweepsCatchUp` |
| `Progress` (`MCProgress`) | 79 k | fair: two movements edited in opposite directions across two levels; two variants that exchange codes; a change of plan with the queue alone, or with the sweeps | `WritesEnd`, `RowFollowsStripe` |
| `StockRetry` (`MCShop`) | stops | as `Shop` | `RetriesAreSafe`, which the code violates: section 6 |

Deadlock is checked in the runs of `MCRequests`, in `Background`, `Offers` and
`Workers`, where an export and a slot loop end in an explicit stuttering step. In the
other suites something really ends: a finished call of a bounded number, a clock at its
bound.

Identifiers, handlers, workers and keys are symmetric model values where a run checks
safety only; `Lapsing`, `Workers` and `Progress`, which check liveness, use no symmetry.

Why the bounds suffice:

* `MCRequests`: every safety property relates at most two records and is violated,
  if at all, by the interleaving of two transactions, and the lock leaves no more
  than one of them half done. Two handlers and two records (three where a limit of
  two must be reached and passed) meet in every order. Limits, capacities and times
  to live are 1 to 3, so each is reached, passed by the mutants, and, for the quota,
  lowered while in use. Clocks run past every expiry the run is about (`ttl` 2 and a
  move in `ExpiryRace`, `ReplayTTL` 3 in `Retries`, where a transaction is open for up to 2); only in `Capacity`, which is
  about plans and places, does the clock wait for open transactions (`MaxOpen` 0).
* `Shop`: a circle of transactions needs two levels or a level and a key; three
  handlers are a creation, an edit and a deletion at once, and a level of 2 is
  exceeded and emptied. An identifier is used once, so three movements are also
  three attempts.
* `Background`: with three attempts a message is retried and given up; the
  visibility of 4 is the least that exceeds deadline and slack; a page of one row
  makes every page boundary happen. The export's cap lies between one page and two.
* `Accounts`: three messages are a change, a later one, and one more out of order;
  three replacements of the hours are needed since the third can meet what two left
  behind; two requests that refresh the cache are an old answer and a new one.
* `Offers`: a change up, one down, and one of Stripe's own making are in flight at
  once. The date asked for has a day before and after it, nights included, and the
  change of the zone falls before, on and after it, and on today. With a shift of two
  instants a night may end in what is skipped.
* `Workers`, `Progress`: two of whatever meets; strong fairness on more of them has
  no more cases. Of the customers two stand before the one that is refused, on two
  pages.

Each property has a mutant in `PROJECT.json`: the definition changed as a plausible
bug would change the code (`Mutant:` in the module), which the run then finds.

What the properties say:

* `NoDoubleBooking`: held appointments of a resource never overlap, each one's own
  buffer included, though the check and the write are in different steps and the
  service's duration changes in between.
* `HistoryChain`: the audit trail of each record is a path of its life cycle that
  ends in the stored status.
* `ImplementsBookings`: each commit is one atomic step of `Bookings`, through the
  mapping `B` that forgets everything but module, status, place and occupied time.
* `PickupCapacity`: a window never gains an order beyond the capacity in force.
  (Lowering the capacity does not remove orders: the property is about steps.)
* `QuotaRespected`, `ChargedIffHeld`: a charge never exceeds the plan and period in
  force when it is committed, and a record is charged exactly if it was ever
  accepted.
* `DecisionIsFinal`: whoever comes second, owner, customer or worker, changes
  nothing.
* `PendingHasItsJob`, `PendingResolved`: each pending request has a message that is
  not visible too early, edits included, and is resolved even if that message ends
  in the failed queue, because the sweep does not depend on it.
* `PendingEndsBeforeStart`, `AccessFollowsRequest`: expiry and token follow the
  request.
* `CreatedOncePerKey`: two records of one key are apart by the life of a replay row,
  less the time a transaction may stay open. `PendingBounded`: the pending limit
  holds. Both are checked with a clock reading older than the lock.
* `RowsAreSound`: what transactions leave. One movement to a key, also when an edit
  takes the key of a creation under way; one image to a variant; complete rules, one
  to a variant, whatever a settings body left out; a total is the sum of its lines.
* `ImplementsLedger`: each commit of `Inventory` is one step of `StockLedger`, in
  which the level is the sum of the entries and no edit or deletion takes stock that
  is not there.
* `DeletionsNeverDeadlock`: edits deadlock with edits and creations, over two levels
  in opposite orders or over a level and a key; a deletion, in its order of
  statements, is never among them.
* `VariantsAreAsAsked`: the image answered is the one stored; nothing hidden is
  shown by an edit of something else.
* `PlacedAsOffered`: a preorder obeys the rules at its commit, and has prices its
  variants had since it read them.
* `OneWorkerPerMessage`, `DeliversOnce`: see section 5. `EachSettles`: every message
  sent is archived or given up.
* `NobodySkipped`: a reconciliation that ends without an error has reached every
  customer that was there, though pages are cut by offset while customers subscribe.
  `SweepsCatchUp`: due requests are expired, old rows deleted, outdated customers
  reconciled, through sweeps that end early. A customer that is refused every time ends
  every sweep: those before it are still reached (`SweepReaches`), those behind it are
  not (`SweepRetries`, section 6).
* `AccessWasPaidFor`: no interleaving of changes, failures, late events and stale
  reads shows a selection Stripe was not paid for.
* `ChangesAreCarriedOut`: an answer that is stored and replayed was carried out at
  Stripe, once for its key as long as Stripe has it; an event marked as processed by a reconciliation that
  had not seen it has its own job.
* `RowFollowsStripe`: every event is followed by a row at least as new by its job
  alone, and with the sweeps the row ends as Stripe's.
* `SyncedWhenApart`: changes of a member that are delivered one by one, each with all
  its attempts, leave the member as at Clerk, through repetitions and deletions; a creation that answered an
  error leaves no business on sale.
* `StaleRoleNeedsBoth`: who is no longer an admin updates a business only with an
  old token and a late or reordered message.
* `LastWeekIsWhole`, `ReplacedWhenApart`: the last week committed is all there; a
  replacement alone leaves nothing else.
* `ValidUnlessStale`: unless an update is written over a profile that changed after
  it was read, mode, coordinates and areas fit together.
* `OneOpenSession`: a customer has one open session at most, and what is answered is a
  session of the row's customer and for the selection that was asked.
* `KeysAreCurrent`: a withdrawn key is refused once the set that had it is stale,
  also when it is stored late; a key that is published for longer than an answer can
  be late is found.
* `StableListedOnce`, `ExportsAreWhole`: a walk shows each row that stayed exactly
  once; an export has each request of the period though others are made.
* `SlotsAreTheOpenings`: the loop offers exactly the instants that lie in an
  opening.
* `FoundWhereItServes`: a mobile business is found exactly where it serves, shown
  with an area that does, never by naming more of a place; a walk shows every
  business once if names differ and nothing changes.
* `WritesEnd`: every call on movements and variants ends, through waits and
  deadlocks.

### Fairness

`FairSpec` of `Requests` assumes, and the code and its environment justify:

* time passes (`Tick`);
* a handler that holds the lock commits or rolls back: its request ends, or its
  connection does and Postgres rolls back;
* the sweep runs every minute. Its ticker and the ticker of the batches are cases of
  one `select`, which Go chooses at random when both are ready, hence strong
  fairness for a worker that is often busy with a batch;
* a worker gets the lock if it keeps asking: Postgres grants a row lock in the
  order of a queue (strong fairness, since others take it in between);
* an attempt may fail, but not every one does (strong fairness of the commit).

No fairness is assumed of clients, of administrators, of the clean-up, or of the
delivery of messages: `PendingResolved` holds by the sweep alone.
That the sweep handles up to 100 records and stops at the first error
is in `Sweeps`.

The component modules state their own `FairSpec` (`JobsSpec` and `SweepsSpec` in
`Billing`); the suites state the same conditions part by part:

* `JobQueue`: time passes and workers poll; a job does not outlast every deadline
  (the code sets a job no limit of its own but the batch's), and the statement that
  records an outcome does not fail every time. A job may fail always: `Poison`.
* `Sweeps`: tickers tick; `select` chooses at random; no statement fails every time
  it is made, but for the reconciliation of a refused customer.
* `Inventory`, `Catalog`: a statement that can run is run, waiting ones in the order
  of Postgres's lock queues, and deadlocks are detected.
* `Billing`: messages of the queue come until they are acknowledged and the job is
  not given up after its eight attempts (if it is, `RowFollowsStripe` rests on the
  sweep alone); the sweep comes again and reaches the customer; requests go on.

Nothing is assumed of clients, owners, buyers, Clerk or the changes made at Stripe.

## 5. Proofs

The theorems hold for any sets of identifiers, handlers, workers, keys, users, places
and so on, and any values of the limits and times; what is assumed of the constants is
in the named assumption of each component's module, which the runs evaluate. Each proof
has the same shape: an inductive invariant, a lemma per action that the action keeps
it, and the properties read off it. The invariants say what is true in the middle of
the handlers, where the properties of section 4 alone would not survive a step.

| Module | Theorems | Property of the runs |
|---|---|---|
| `RequestsProofs` | `TypeCorrect`, `BookingSafe`, `DecisionsFinal` | `TypeOK`, `NoDoubleBooking`, `DecisionIsFinal` |
| `RequestTablesProofs` | `HistoryTold`, `ChargedRight`, `TokensFollow`, `PendingEnds`, `PendingIsWatched`, `Implements` | `HistoryChain`, `ChargedIffHeld`, `AccessFollowsRequest`, `PendingEndsBeforeStart`, `PendingHasItsJob`, `ImplementsBookings` |
| `RequestLimitsProofs` | `WindowsHold`, `QuotaKept`, `PhonesWithinLimit`, `OncePerKey` | `PickupCapacity`, `QuotaRespected`, `PendingBounded`, `CreatedOncePerKey` |
| `JobQueueProofs` | `TypeCorrect`, `HeldByOne`, `Delivers` | `TypeOK`, `OneWorkerPerMessage`, `DeliversOnce` |
| `InventoryProofs` | `TypeCorrect`, `KeyHeldOnce`, `DeletionsAreSafe`, `ImplementsStockLedger` (`Inventory`) | part of `RowsAreSound`, `DeletionsNeverDeadlock`, `ImplementsLedger` |
| | `VariantsRight`, `CodesAreUnique` (`Catalog`), `PreordersRight` (`Orders`) | `VariantsAreAsAsked`, part of `WritesEnd`, `PlacedAsOffered` |
| | `RowsSound` (all three) | `RowsAreSound` |
| `OffersProofs` | `TypeCorrect`, `PaidForAccess`, `OncePerKey`, `DoneWhenAnswered`, `PendingEventsHaveJobs`, `CarriedOut` (`Billing`) | `AccessWasPaidFor`, `ChangesAreCarriedOut` |
| | `SlotsRight` (`Slots`), `FoundRight` (`Reach`) | `SlotsAreTheOpenings`, `FoundWhereItServes` |
| `AccountsProofs` | `MembersAreSynced`, `RoleTakesBoth` (`Accounts`) | `SyncedWhenApart`, `StaleRoleNeedsBoth` |
| | `CheckoutsAreOne` (`Checkout`) | `OneOpenSession` |
| | `WeekIsStored`, `WeekReplaces` (`Hours`) | `LastWeekIsWhole`, `ReplacedWhenApart` |
| | `ProfileIsValid` (`Profile`) | `ValidUnlessStale` |
| | `KeysAreFollowed` (`JwksCache`) | `KeysAreCurrent` |
| `WalksProofs` | `CustomersAreReached` (`Sweeps`), `RowsAreShownOnce` (`Cursors`), `PeriodsAreExported` (`Export`) | `NobodySkipped`, `StableListedOnce`, `ExportsAreWhole` |

### Requests

Assumed: bodies are well typed, constants are natural numbers, handlers are not workers,
a window starts before it ends, and `MaxOpen < ReplayTTL` (section 3).

`TypeOK` is inductive because it also says that an open transaction belongs to a live
request or attempt, that a finished attempt has none, and that messages name stored
records. `NoDoubleBooking` alone is not inductive: a state in which a transaction is
about to commit a conflicting row satisfies it. `BookingInv` adds

* `OneWriter`: at most one transaction holds the lock;
* `WriteFree`: the row that transaction will write conflicts with no other record;
* `WriteOpen`: the record it will overwrite is not decided yet.

`StepShape` divides the steps in three: a commit, the taking of the lock, and the
others, which leave records and open transactions alone. When the lock is taken, the
checks of the code establish `WriteFree` and `WriteOpen` (`CreateSound`,
`TransitionSound`, `EditSound`, `ExpireSound`; `CheckedIsApart` is the arithmetic of
`AppointmentOverlaps`). A transition other than a confirmation writes a held
appointment only if it was held before (`StaysHeld`), where `NoDoubleBooking` itself
gives the conclusion. A commit turns `WriteFree` into `NoDoubleBooking` and, being
the only one (`OneWriter`), leaves no other transaction's checks outdated.

`RequestTablesProofs` adds `WriteShaped`: what a transaction is about to write, in all
its tables at once, is a creation, a decision or an edit (`Creates`, `Decides`,
`Edits`). `TakenShaped` proves it of every way the lock is taken; a commit of a shape
keeps the tables consistent, which is `TablesInv`. Each shape is also one action of
`Bookings`, which gives `Implements`.

`MessagesInv` is what `PendingHasItsJob` needs. The message of a pending request becomes
visible strictly after its expiry (`Covered`). An edit may renew the expiry while the
message of the old one is in a worker's hands; the worker then finds nothing to expire
and archives it, and the record must have another. `Spent` says that an attempt that is
done has found the record decided, or expiring no earlier than its own message became
visible, so that this message is not the one that covers it; `StaysSpent`, that an open
edit will leave it so, which holds as an edit never renews an expiry to a time that
is over (`RenewedLater`).

`RequestLimitsProofs` has an invariant for each count. `RoomInv`: the transaction with
the lock found room in the window, and a confirmation left in the period, and as the lock
is held nobody has taken it since; counts are cardinalities of finite sets, and a commit
adds one element at most. `PendingInv`: the limit is checked with the `now()` of the
`BEGIN`, which is no later than the commit (`Timely`), and what is pending at a later
time was pending at an earlier one (`PendingShrinks`), so the count at the commit is at
most the one that was checked; an edit, which is not checked, renews only what is
pending. `KeysInv`: until a creation is older than the life of a replay row there is a
replay row for its key that lives as long (`KeysHeld`), whoever deletes expired rows;
a creation under the lock has looked for it (`FreshKey`).

### JobQueue

Assumed: the deadline of a batch and its slack are shorter than the visibility timeout
(45 s and a statement against 60 s).

`OneWorkerPerMessage` is inductive only together with `Held`: a message in the batch
of a worker is still in the queue, and hidden for longer than the batch has left. So
no other worker can be given it (`PollInv`), and time cannot make it visible while
the batch lives (`TickInv`); this is where the assumption on the timeouts is used.
`Apart` adds that a message is never both queued and archived. For the refinement,
`Where` maps each message to its place in `Delivery`; `HeadHeld` and `WhereIs` give
its value from the invariant, `OtherMoves` says that messages a step does not touch
stay, `StepMoves` that the touched one makes one of the moves of `Delivery`.

### Inventory

`StockInv` says of every open transaction where it is in its statements (`Shape`), that
what it has changed and what it has yet to change in the levels adds up to what its row
changes (`Planned`), that a level it has changed fits (`Room`) and that the key it has
written is free (`KeyIsFree`); of any two, that they hold no row, level, identifier
or key in common (`Apart`); and of the tables that every level is the sum of the
movements there. Without `Planned` a commit would say nothing about the sums.
`Ledger!Balance` is a fold over a finite set. A few lemmas give what is needed of
it (a sum over no entries, with one entry more, or one changed); they are proved from
the recursive function behind the fold by the least set on which they would fail, since
induction over sets is not available. `DeletionsAreSafe` follows from the order of a
deletion's statements: while it waits it holds no level and no key, and at most the lock
of its movement's row (`DeletionWaits`); who waits for such a lock holds nothing
yet (`LockersHoldNothing`), so nobody waits for him and the circle does not close.

### Catalog, Orders

Assumed: there is a variant; a request has the statuses and truth values the handlers
let through; bodies and baskets are well typed, but need not be complete or valid.

`CatalogInv`: a call that creates a variant has it to itself, and of the calls that
update one, one at most is past the row lock (`Alone`). So what such a call has read of
the images is what there is until it commits (`ImagesAsRead`), whence one image and the
answer that is the one stored; and the row it will write is public as it was asked to
be, or as the row is when it asked for nothing (`RowAsAsked`). Of all steps only commits
end a write well, and only they and archiving change rows (`CatalogSteps`). `CodesInv`: a
call past the unique index has its code to itself, among rows and calls; it has waited
for those that held the code (`UniqueCodeGives`), and who comes later waits for it.

`OrdersInv`: stored rules are complete and one to a variant (`RulesInv`), which
`validateSettings` gives for whatever `merge` made of the body (`ConfigureKeeps`). The
order about to be written was checked against the rules there are, as nobody can change
them before it is written, and its prices are among those its variants have had since
(`WritingInv`). A line is within half a cent of price times quantity (`LineRounds`, from
the quotient and its remainder), and a total is the sum of its lines, a natural number
(`SumNat`: a fold again, by its least counterexample), which `AddsUp` keeps through what
an owner states later.

### Billing, Checkout

`BillingInv` keeps the set `granted` of everything Stripe has been paid for in step
with the subscription, with what each thread has fetched of it and with the row: a stale
read is a read of something that was paid for. `EffectsInv` ties the effects at Stripe to
the idempotency keys it has (`Has`: one of a kind for each key, none for one it has
forgotten), and an answer that is stored or about to be (`"done"`) to an effect; the
second keeps because only keys of unanswered requests are missed. `EventsInv` is the chain of an event: pending ones have
jobs, jobs are for events that were told, and those are versions of the subscription.

`CheckoutInv`: a request past the lock works for the customer of the row, if it has one;
it knows every session of that customer that is open when it chooses, and there is none
when it creates one (`Chosen`, `ChoiceInv`). The lock alone does not give this, as the
list of sessions is read long before; that no one else creates one does. What was made
with a key is for what was asked with it, and what was answered is for the customer of
the row and the selection asked for (`AnswersInv`).

### Accounts, Hours, Profile, JwksCache

`AccountsInv`: as long as the changes of a member come apart, every message on its way
says what Clerk has, and with none on its way the row says it (`SyncInv`). A message is
delivered again only while it is among those, and is among those as long as an attempt
of it is under way; one of a previous change never is. Between its statements an attempt
may lose what it has read: an attempt on a membership keeps its business
(`AttemptsInv`), and a deletion that lost its user's row has nothing left to delete
(`Lost`). The
business of an organization that is gone is on sale only while the message that
archives it is on its way, or when an update has put it back (`BusinessInv`); for
this, creations under way have live organizations of their own (`CreationsInv`), so
that no commit comes after the deletion.

`HoursInv`: two transactions never write the same day (`OtherDays`); a committed row of a
day a transaction has written is the one it updates or one it deletes (`Meets`), which
gives one row a day at its commit; and one that no other has overtaken deletes every row
there is (`Fresh`).

`ProfileInv`: an update that is about to write has validated what it will write against
what it read (`Validated`), so its commit is valid unless the profile changed (`stale`).

`JwksInv`: the cache, and every answer not yet stored, is what the key server published at
some moment (`AnsweredAt`) no further back than the timeout. An old answer stored over
a newer one is still one of those.

### Sweeps, Cursors, Export

A list is the function `[n \in 1..Cardinality(S) |-> ...]` of its elements by their
rank. Its four facts come first: an element of higher rank has a higher place
(`PlaceRises`), two elements have two places (`Apart`), the first so many places
take the elements of least rank (`Taken`), and every element has a place
(`Everyone`); they are about cardinalities of finite sets, with no induction.

Each invariant says of a walk in progress what is still ahead of it. `LoopInv`: a
customer who was there when the reconciliation began is reached, or on the page under
way, or at least a page beyond the offset, and then that page is full, so the loop goes
on. A customer who subscribes meanwhile may push him further down the list, never up.
`PagesInv`: a row that was there all along has been listed exactly once if it is not
before the cursor, and not yet if it is; what is saved and removed meanwhile moves no
row past the cursor. `CsvInv`: while nothing moves, a row of the period is written or
after those that were skipped, and the count that decides whether there is a next page
knows of it (`Coming`); while nothing is made either, what is written is the beginning
of the list (`StillInv`).

### Slots, Reach

Assumed: settings and services as `validateSettings` and the tables allow them (a step and
a duration of at least a minute), a zone that changes by a day at most; finitely many
businesses, names that are numbered in their order, areas with a country and a state.

`SlotsInv` is short: the slots found are those of the instants passed. The work is in what
an instant is. `MidnightFound`: of the two wall times that may be a midnight exactly one
is, `time.Date` finds it from either side of UTC, and an instant is of a date or later if
and only if it is not before it; so the loop runs over the instants of the date
(`LoopOfTheDate`). `OpeningChosen`: the opening an instant lies in, of this date or the
night of the one before, is the one the code looks at. `FitsRight`: the code adds one day
to every probe that is not on the opening's date; before a probe could be two days on,
the minute before that midnight is past the closing and stops it, which is where
`NightsEnd` is needed.

`ReachInv`: an unchanged page shows what is listed, with its areas (`PageInv`); and if
names differ the pages are the beginning of the only list there is (`WalkedInv`), as the
place of a business in a list by name is the number of names before it (`PlaceByName`,
`OneOrder`), so it does not matter that each page chooses its order anew. That an area is
found exactly if some place lies in both (`AreaServes`) takes the place from whichever
of the two names each field.

### What TLC alone shows

* Liveness (`PendingResolved`, `EachSettles`, `SweepsCatchUp`, `WritesEnd`,
  `RowFollowsStripe`): the prover has no rules for fairness and `ENABLED` that would
  serve here. What is safety in them (`OneVariantPerCode`) is proved.

## 6. Where the code and its documents part

`StockRetry` checks the first; the others were met in the same way, and their
statements are kept as definitions of the component's module, marked "The code does
not keep it".

| Definition | Code | Document |
|---|---|---|
| `RetriesAreSafe` (`Inventory`) | `inventory/handler.go:190`: an edit stores its own key in the movement, so the key of the creation is forgotten and the same creation, sent again, is booked a second time | `docs/openapi.yaml:1685` "Unique key for safely retrying this stock adjustment." |
| `SweepRetries` with a refused customer (`Sweeps`) | `jobs/worker.go:120`: the reconciliation of all customers ends at the first that fails and starts again at the same one, so while one cannot be reconciled those after it are not reached by any sweep | `billing/handler.go:242` "webhook jobs and the periodic sweep will retry it." |
| `OneKindPerKey` (`Billing`) | `billing/change.go:105`: whether a change is immediate is decided anew from the row at a repetition; if a job has reconciled the row in between, the repeated request schedules the same selection for the end of the period | `billing/stripe.go:48` "billing provider unavailable; retry with the same key" |
| `PendingChangeIsAtStripe` (`Billing`) | `billing/change.go:193`: a change that released the schedule and then failed finds no schedule when it is repeated and leaves the row's scheduled change | `docs/openapi.yaml:2111` "Subscription, pending change, and entitlements" |
| `EssentialKeepsOne` (`Billing`) | `billing/change.go:105`: a change to essential that adds a module is immediate, and the resource to retain is recorded only with a scheduled change (`:233`), so all stay active | `billing/change.go:164` "choose the appointment resource to retain" |
| `OneSubscription` (`Checkout`) | `billing/handler.go:259`, `:278`: subscriptions are listed before open sessions; a session paid in between is on neither list, and a second one is made | `README.md:53` "Existing subscriptions still use the change flow or portal." |
| `OrganizationHasBusiness` (`Accounts`) | `business/handler.go:106`: the error of the compensating deletion is dropped, and nothing looks for the organization later | `docs/openapi.yaml:1314` "Creates a Clerk organization and the matching Openlocal business." |
| `MembershipsFollowClerk` (`Accounts`) | `webhooks/handler.go:116`: neither time nor id of a message is kept, so a creation delivered after its deletion leaves a member for good | `docs/openapi.yaml:1363` "Clerk webhook receiver for user, organization, and membership sync" |
| `HoursAreOneWeek` (`Hours`) | `business/handler.go:299`: two replacements at once leave days of both | `docs/openapi.yaml:1447` "Atomically replaces the complete opening-hours schedule." |
| `ProfileIsValid` (`Profile`) | `business/handler.go:188`: what a body leaves out is read and validated before the transaction, and another update may change it in between | `business/dto.go:293` "active mobile businesses require at least one service area" |
| `GapsAreSkippedOnly` (`Slots`) | `scheduling/schedule.go:63`: a date whose midnight the zone skips is parsed to an hour of the day before, and a shop that is open all day offers nothing on it | `scheduling/schedule.go:55` "This skips DST gaps and preserves both offsets in a repeated hour without inventing nonexistent times." |
| `TrackedByDefault` (`Catalog`) | `catalog/dto.go:333`: a request that leaves `track_inventory` out is stored as not tracked | `docs/openapi.yaml:625` "default: true" |

## 7. Not modelled

* `billing`: `preview` and `portal`, which change nothing but the replay row;
  amounts of invoices; the week of grace of a past-due subscription; POSTs to Stripe
  that are carried out after they have timed out.
* `auth`, `webhooks`: signatures are taken as valid; the authorized parties are a
  constant of the process.
* Text and formats: names, addresses, slugs, phone numbers, notes, the CSV's
  columns. They are checked one at a time and relate no two rows.
* `operations`: summaries and filters of the lists, the upsert of pickup windows by
  their public list (windows are a constant of `Requests`), the daily cut-off hour.
* `catalog`: in `Listed`, the status of the business that owns the product.
* `marketplace`: text search, hours and the single profile; the walk of the product
  search.
* `analytics`, `support`, audit: counts, lists and single inserts that decide
  nothing.
* `validator`, `server`, `config`, `cmd`, fixtures: pure validation, wiring, tools.
  The generated translation of `db/queries` is mapped where a definition stands for
  a statement.
