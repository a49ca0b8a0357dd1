# TLA+ models of the IDC platform

This directory holds TLA+ specifications of the backend of the IDC platform
(`backend/src`, C++17 on Drogon, PostgreSQL and Redis), configurations that check
them with TLC, and proofs that TLAPS checks. Every definition is translated from
the source; `PROJECT.json` maps each one to its lines, lists the runs, the
mutations of the code that each property detects, the hazards of the code and
the disagreements met between the code and its comments.

## 1. Inventory

The backend is one process: four HTTP threads that run handlers synchronously, a
main event loop that runs the timers, a pool of ten PostgreSQL connections, and a
Redis connection. Handlers block on each statement, so what interleaves are SQL
and Redis commands, of up to four requests and the timers. Three facts about the
plumbing shape every model:

* `DbClient::transaction` (`utils/db_client.h:41`) runs a lambda in a transaction;
  the COMMIT is only *queued* by the destructor when the call returns. The caller
  goes on, and answers, before the commit is executed.
* `DbClient::getClient()->execSqlSync` is an autocommitted statement on *another*
  connection. Services use it freely inside a transaction's lambda (for numbers,
  duplicate checks, the advisory lock).
* Transactions are READ COMMITTED, except the billing run; rows are locked with
  `SELECT .. FOR UPDATE`. An SQL error rolls the whole transaction back.

| Component | State it keeps | Operations | Interacts with | What is hard | What makes it correct |
|---|---|---|---|---|---|
| **Settlement** (`balance_service`, `payment_service`, `invoice_service::payByBalance`, their controllers) | `distributors.balance`, `invoices.status`, `payments` | top up, pay by balance, create a gateway payment, gateway notification | dunning (overdue), payment gateways, operation log | concurrent payers, read-modify-write of balances, numbers taken from a count, repeated and late notifications, crash before the queued commit | balance equals the books; an invoice leaves the balance once; a paid invoice stays paid and is covered by a payment; the gateway is told the truth |
| **Orders** (`order_service`, `order_state_machine.h`) | `orders.status` | approve, reject, cancel | subscriptions, provisioning | racing decisions, a COMMIT that comes after the answer | one decision per order |
| **Provisioning** (`zjmf_provisioning_service`, the polling timer of `main.cc`) | `provision_status`, `poll_count`, `poll_until`, `remote_resource_id`, `zjmf_entity_mappings` | provision an approved order, webhook, poll every 30 s, manual retry | downstream systems over `HttpClient` (three attempts), orders, subscriptions | multi-statement updates without a transaction, reordered notifications, repeated POSTs, exceptions in a catch block | only sold services are delivered, an active order is delivered, bounded servers, every handler ends |
| **Subscriptions** (`subscription_service`) | `subscriptions.status` | suspend, activate, terminate, upgrade | dunning, provisioning, billing | concurrent changes, two services writing one column | transitions follow the state machine |
| **Billing** (`billing_engine`, `billing_cron`) | `billing_records`, `next_billing_date`, `system_config` | monthly and yearly runs, cron with retries, manual run | subscriptions, prices | overlapping runs, snapshot isolation, checks on another connection | each period of each subscription is charged once, none is skipped, a clean run is complete |
| **Invoicing** (`invoice_service`) | `invoices`, `invoice_items`, `billing_records.invoice_id` | generate one, generate all, PDF | billing, settlement | unlocked read then write, numbers from a count | a record and the invoice it is linked to agree; a record is invoiced once |
| **Dunning** (`dunning_service`, `dunning_cron`) | `invoices.status`, notifications, subscriptions | upcoming, overdue, reminders, auto-suspend, auto-terminate | settlement, subscriptions | select first, act later; one-day windows; a run that starts late or breaks off | nobody who paid in time loses the service or is told twice; prompt runs mark and terminate |
| **Cart** (`cart_controller`, `OrderService::createOrder`) | Redis hash per distributor, `orders`, `subscriptions` | add, update, remove, order | prices, orders | several Redis commands per operation, Redis inside an SQL transaction, numbers taken from a maximum | alone with a cart a customer sees an atomic one; numbers have no gap and no repetition |
| **Distributors** (`distributor_service`) | the tree of `distributors.parent_id` | create, update (which moves, disables and deletes), tree queries | pricing, access checks | every check is a statement of its own; the walk to the root is one per row | no circle, no shared name, an update touches one distributor only |
| **Pricing** (`pricing_service`, `price_template_controller`) | `price_templates`, `product_prices`, the template of a distributor | create, update, delete, set a price; quote up the chain | cart, metering | a walk, row by row, over templates that change | the nearest template in force that has a row for the product decides |
| **Accounts** (`registerUser`, `login`, `createUser`, `updatePassword`) | `users`, `distributors`, login counters in Redis | register, create, change a password, log in | Redis, PostgreSQL | check then insert; INCR and EXPIRE are two commands | a distributor and a user to approve come together; a lock-out ends |
| **Sessions** (`jwt_filter`, `logout`, `refreshToken`) | signatures and their expiry, the blacklist in Redis | check, use, log out, refresh | the clock | a lifetime computed from one reading of the clock and started at another | a confirmed logout stays one |
| **Permissions** (`rbac_filter`) | the cached permissions of a role | check | role administration | nothing deletes the cached key | a change of a role arrives |
| **Metering** (`metered_billing`) | hours per day, `billing_records` | report, calculate | pricing | a rate read on another connection, retried deadlocks | a period is billed once |
| **Addons** (`addon_billing`) | `subscription_addons` | create, cancel, prorata | – | FOR UPDATE outside a transaction; month ends | a prorata counts the days it was there; the first cancellation stands |
| **Bandwidth** (`bandwidth_sampler`, `bandwidth_billing`) | samples per port | sample, retain, bill, chart | – | count and pick are two statements | an undisturbed bill is the exact percentile |
| **Synchronisation** (`zjmf_sync_service`, `zjmf_*_adapter`, `zjmf_sync_cron`) | connections, local copies, mappings, flags, cached adapters | timers, manual triggers, retries | upstream systems, rate limiter | flags and caches shared by threads, statements that fail in between | copies move forward and catch up; no flag stays up |
| **Rate limiter** (`rate_limiter`) | token buckets | consume, wait, replace | synchronisation | early wake-ups, rounding, a bucket destroyed under a reference | no more than the burst and the refill is given |
| Products, dashboard, setup, PDF, frontend | single rows, views | create, read, update, delete | – | little | – |

## 2. The modules

    Ledger        what settling promises: each operation one step
      ^ implements
    Settlement    sessions, statements, row locks, the gateway, crashes
      `-- SettlementProofs  theorems            } MCSettlement

    Lifecycle     orders, provisioning, subscriptions, the downstream system
      `-- LifecycleProofs   theorems            } MCLifecycle

    BillingBook   what a billing run promises
      ^ implements
    Billing       runs, snapshots, conflicts, retries, invoice generation
      `-- BillingProofs     theorems            } MCBilling

    Checkout      the atomic cart
      ^ implements (one request at a time)
    Cart          Redis commands and the statements of createOrder
      `-- SellingProofs     theorems
    Forest        the atomic hierarchy
      ^ implements (one request at a time)
    Distributors  checks, the walk up, and the write, a statement each
    Pricing       the walk up the templates, and their changes
                                                } MCSelling

    Accounts      registration, users, passwords, login counters
    Sessions      tokens, logout and refresh against the clock
      `-- AccessProofs      theorems of both
    Permissions   the permission cache
                                                } MCAccess

    Dunning       the phases of the daily run, a row at a time
      `-- DunningProofs     theorems
    Metered       hours and their calculation
    Addons        creation, cancellation, prorata over the calendar
    Bandwidth     samples, and the percentile by two statements
      `-- ChargingProofs    theorems about these three
                                                } MCCharging

    Mirror        a copy that only moves forward
      ^ implements (one thread)
    Sync          timers, requests, flags, adapters, statements, failures
    Limiter       the token bucket
      `-- DownstreamProofs  theorems            } MCDownstream

The `MC` modules give the constants their values and compose the components that are
checked together. The components that MCSelling, MCAccess, MCCharging and
MCDownstream put side by side share no row, key or variable in the code: a step of
one is a stutter of the others, and a property that mentions the variables of one
component holds in every interleaving if it holds when only that component moves. The
modules use this: a variable `part` is chosen at the start, the component it names
moves, the others keep their first state, and a run is the sum and not the product
of its parts. A component occurs under two values of `part` when two instances of it
answer different questions (many small threads, or one thread with more data).

Each of these four modules EXTENDS one of its components (Cart, Sessions, Dunning,
Limiter), whose constants and variables are its own, and instantiates the others: what
a run checks of the extended component is the very definition its theorems are about.
The second instance of Cart, for one request, has variables of its own; theirs end in 1.

### Settlement and Ledger

A *session* is one request in `DbClient::transaction`; `pc[s]` is its next
statement. `held[s]` is the set of rows its transaction has locked, `req[s]` the
request, `bal[s]` the balance it has read, `no[s]` the payment number it drew.
Writes become visible at the `Commit..` action, and the rows are locked by the
statements before. This is what PostgreSQL does under READ COMMITTED. A statement
that needs a row another session holds is not enabled (`Granted`); when sessions
wait in a circle one is rolled back (`DeadlockVictim`).

* `StartTopUp`, `StartPayByBalance`, `StartCreatePayment`, `StartCallback` are the
  controllers; `LockInvoice`, `RefuseInvoice`, `LockDistributor`,
  `InsufficientBalance`, `TakeNumber`, `InsertPayment`, `NumberTaken`, `PlacePayment`,
  `LogRefused` the statements of the first three; `LockPayment`, `CallbackRejected`,
  `CallbackDuplicate`, `TradeSeen`, `TradeNew`, `AmountMismatch`, `SettleInvoice`
  those of `processPaymentCallback`. `InvoiceService::payByBalance` and
  `BalanceService::payByBalance` do the same and are one operation here.
* The payment gateway is external: `charge` is what it knows of each order,
  `CustomerPays` charges one, and a notification about it may come at any time, in
  any order, any number of times.
* Payment numbers are the count of committed payments plus one, so two sessions
  can draw the same number; the unique index makes the second wait and fail.
* `systemUser` says whether `users` has a row 0, which the log rows of gateway
  payments reference. No migration creates it; an installation may.
* The deduplication window of seven days is not modelled as time: a match may or
  may not count. Amounts are whole numbers of cents.

### Lifecycle

`Decide` is `transitionOrder` for approve, reject and cancel up to the return of
the lambda, `Commit` the queued COMMIT with all it does to the order and its
subscriptions. In between, the order's row is locked (`Free`), and the handler of
an approval has gone on to `provisionOrder`. Everything in the provisioning
service is a statement of its own, one action each: `pc[w]` walks a worker (an HTTP
thread or the main loop) through them. `Throw` is what an exception leads to where
it is raised: the end of the request, `failProvisioning` in the catch of
`doProvision`, or the next subscription of the polling loop.

The downstream system assigns ids; `server` is the state of each, `servers[u]` the
ones created for subscription `u`, and other customers create theirs. `remote` is
the set of subscriptions with a `remote_system`: no code sets that column, so both
cases are checked. `Tick` is 30 seconds passing. The windows of the polls are
counted in ticks. Values `suspended` and `terminated` of `provision_status` are one
value, `stopped`. One downstream system is modelled; an order starts as
`createOrder` leaves it. A COMMIT fails only with the process.

### Billing and BillingBook

A *runner* is a billing run: the cron's, or one by `POST /billing/run`. The run
reads its snapshot (`Snapshot`), then per row checks `isAlreadyBilled` against what
is committed *now*, inserts, and updates `next_billing_date`. `wrote` is the set of
rows it has updated and locked, `changed` the rows others have committed since its
snapshot, which is what makes PostgreSQL refuse an update under REPEATABLE READ.
The advisory lock is taken in a transaction of its own and released with it. Dates
are periods `0..MaxPeriod`; subscriptions of one cycle are modelled. `dated` are the
subscriptions whose `next_billing_date` is not NULL: createOrder leaves it NULL and no
statement sets it from there, so the others are never due. Invoice
generation reads the un-invoiced records, counts invoices for a number, inserts,
links and commits. Amounts, and runs whose total is zero, are left out.

### Cart and Checkout

`AddItem`, `PutItem` and `SetExpiry` are addItem (INCR, HSET, EXPIRE), `UpdateItem`,
`GetItem`, `PutBack` updateItem (HEXISTS, HGET, HSET; the body names quantity,
period_months or both), `RemoveItem` HDEL. `Submit`
reads the cart (HGETALL) before the transaction of createOrder begins; `DrawOrderNo`,
`InsertOrder`, `DrawSubNo`, `InsertSub` are its statements, `ClearCart` the DEL inside
it, `CommitOrder` the end. Numbers are the maximum of the last digits committed today
plus one, modulo `Base`; a number another request took makes the INSERT wait and
fail (`OrderNoTaken`). `RedisFails`, `CartExpires` and `Crash` happen anywhere. Checkout
says what a customer sees who uses the cart alone.

### Distributors and Forest

A request of createDistributor is `ActiveParent`, `FreeName`, `Insert`; one of
updateDistributor `Exists`, `Current`, `Walk` (validateParentAssignment, a row per step),
`ParentExists`, `FreeToName` and `Write`, which writes every column from the copy
`Current` took. The body of a creation names every column, its status included; that of
an update names any set of them, so `Current` takes any new row, and `moved` says whether a
parent is named, which is what makes the request walk. Forest is the hierarchy in which a
creation is one `Join` and an update one `Change`.
`TreeQueryEnds` is about the recursive query, a UNION ALL that has no end in a circle:
`Level` is what it holds after so many rounds. Forest also says what a hierarchy is that
is worth keeping (`Sound`): no circle of live distributors, no name twice among them, and
every parent a row. Racing updates do break Forest: see section 5.

### Pricing

A quote walks `User`, `Distributor`, `Look` and `Up` to the first template in force that
has a row for the product, then `Default`; `None` is no row, and `Null` the price of a row
that `SetPrice` has left it out of: the walk stops there and quotes NULL. `Direct`, `Ancestor`, `Inherit` are the walk of the controller that shows
prices. Administrators `Create`, `Verify` and `Update`, `Delete`, `SetPrice`, `Assign`
meanwhile, and days go by. `steady` says that nothing the quote depends on has changed
since it began. `Right` is the reference: `Chain` lists the templates above one, and the
first of them that `Sells` has the price.

### Accounts, Sessions, Permissions

`NameFree`, `InsertDist`, `InsertUser`, `Commit` are registerUser; `CreateFree`, `Create`
createUser, which takes any distributor that exists, or none; `Verify`, `SetPassword` updatePassword; `Incr`, `Expire`, `LookUp` login with
its counter. A token is a number with an expiry; `Verify` checks the signature and
`Check` the blacklist, `Logout` computes the lifetime of the key and `Revoke` sets it,
`Refresh` signs a new token and `Rotate` blacklists the old. `Get`, `Fetch`, `Setex`,
`Decide` are the permission filter, with an hour that ends (`Expires`).

### Dunning

`StartRun` is the timer, `SelectRows` the SELECT of a phase, `Remind`, `Mark`, `Suspend`,
`Terminate` its work on one row, `Notify` or `NotifyFails` the notice after it, `NextPhase`
the order of phases. `NewDay` may leave out a run; `Prompt` says that it does not, and
that runs end on their day. Customers pay and administrators change subscriptions in
between. Invoices and subscriptions follow the transitions of Settlement and Lifecycle.

### Metered, Addons, Bandwidth

`Report`, `ReportRate`, `Upsert` are recordRuntime; `Calculate`, `Lock`, `Rate`, `Aggregate`,
`Existing`, `Commit` calculateHourly, whose rate comes from another connection.
`Create`, `Cancel` and `Update` are the addons, with the version that decides between two
cancellations; the prorata is a function over calendar dates, compared with a count
of days. `Simulate` and `Insert` store samples by batches, `Discover`, `Count`, `Pick`,
`Fallback`, `Amount` bill them and `Chart` reads them; `Retain` drops old ones.

### Sync, Mirror and Limiter

A job is a thread with a list of tasks (connection, entity): `GetAdapter` or `NoAdapter`,
`Check` for a manual trigger, `Mark`, `Fetch` with its attempts, then for each item
`Lookup`, `WriteFound` or `WriteNew`, `MapIt`; `Stock` for the inventory; `Finish` writes the
log and `Clear` takes the flag down. `FetchFails`, `ItemFails`, `StockFails` and `Crash` are
counted by `faults`. `Sorted` is the order of the connections a timer works through.
`Misled` is an item whose remote id is that of a server mapped for a subscription: the
lookup of a product finds that mapping, and the subscription's number for a row. Mirror
sees only the newest local version of each remote entity.
In Limiter a thread is in getAdapter, `SetRate`, `GetBucket` or `TryConsume`; a wait ends
in time (`WakeUp`) or early (`WakeEarly`), and a bucket that setRate destroyed under a
reference answers or not (`UseFreed`): that is undefined in C++, and other buckets
are out of its reach. Time is counted in parts of a millisecond, because refill()
rounds down.

## 3. What the runs show

| Run | Question | Bounds |
|---|---|---|
| `settlement` | Balances never negative, balance = books (`BooksBalance`), an invoice leaves the balance once, a paid invoice is covered and final, and the whole implements `Ledger` | two sessions, two invoices of one distributor with the same total, three payment numbers, one crash |
| `settlement_live` | What the gateway is told is true, every transaction ends, collected money is credited | the same with two numbers and no crash |
| `settlement_twice` | **violated**: an invoice is charged once | two trades |
| `lifecycle` | An active order is delivered, downstream servers stay bounded, an order is decided once | two subscriptions, one HTTP thread and the polling loop, two server ids |
| `lifecycle_live` | Nothing unsold is delivered, every handler and polling run ends | one subscription, a crash |
| `lifecycle_stuck` | **violated**: an approved order is provisioned and settles | one subscription |
| `billing` | Each period charged exactly once up to `next_billing_date`, a clean run is complete, runs are atomic (`BookSpec`), runs end | two runners, two subscriptions, two periods |
| `invoicing` | A record's link and the invoices' items agree, with concurrent generations and a crash | two invoicers, two runners, two subscriptions |
| `selling` | Cart implements Checkout and Distributors implement Forest for one request at a time; numbers of racing orders; the nearest price row | cart: one request, two items, two quantities and terms, two orders; racing: two requests; a crash or failure in each; three distributors of any status, two updates; a chain of two templates and two writes over two days |
| `access` | A registration is whole and no account is replaced; lock-outs end; a logout stays one; changes of roles arrive | two requests, two names; five counted logins; two tokens of two ticks over four; two permissions |
| `charging` | Late, missed and broken-off dunning runs do no harm, prompt ones escalate; a period is billed once; addons settle; bills follow the samples | two invoices of two subscriptions, due on days 1 and 2 of four or five, batches of one or three rows; two calculations; starts and ends around the ends of months of a leap year and another; one port over four slots, two over two |
| `downstream` | No failure multiplies rows or leaves a flag up; copies move forward and catch up; buckets conserve tokens | one connection and one or two threads, two versions, two faults; two connections when fair, with as many faults as a task has attempts; two threads, two buckets of two tokens over seven parts of time |

Why these bounds suffice for the cases that matter: every conflict in this code is
between two transactions over one row, over two rows in opposite order, or over
one number, and two sessions and two rows produce all three. Three payment numbers
leave room for two payments of one invoice and a third that collides. Two
subscriptions are what it takes for an order to be partly done, one of whose
completions counts the other. One poll brings the counter to its limit. Two
periods let a run with an old snapshot meet a subscription that has moved on. Two
cart items and two orders show a cart refilled after an order. Three distributors
make a circle of one, two or three; their other columns (`Terms`) have one value, since
parent, name and status already change together. The limit of the walk for a price
(`MaxDepth`) is the number of templates, the least that is enough; that a longer chain is
cut off is a finding and no property. Two faults use up the two attempts of a
synchronisation, which then has to be caught up with by a later one. A batch smaller than the rows makes dunning leave work to the next day, and four
days pass from the reminder before the due day to the termination. Two requests make
every check-then-write race; a counter up to seven passes its limit of five. Rates,
samples and shares are the smallest with a rank strictly inside the samples.
Deadlock is not checked: the platform is idle when no one asks anything of it, and a
model whose bounds are used up stops; that workers end is a property of its own
(`Finishes`, `HandlersEnd`, `RunsEnd`). Symmetry is used in safety runs only.

Preconditions. `AloneSpec` (Cart implements Checkout), `ForestSpec` and `MirrorSpec` are checked for one request
(one thread) at a time, and say so: with two, the code does not implement them, and
section 5 tells how. `QuoteIsNearest` and the exactness of bills are about quotes and
bills nothing has disturbed, because a walk of several statements promises no more.
`PromptRunsEscalate` assumes a run every day whose batches have room: that is the
condition under which the service works through an invoice, not a claim that it holds.
`NotBelowCounted` says what remains when samples arrive meanwhile.

Fairness. A thread in a handler runs its next statement (weak fairness per worker):
handlers never wait for each other except in PostgreSQL. There, waiters of a row
lock are queued, so a waiting statement that is enabled again and again runs
(strong fairness of `Statement` in Settlement, of `AdvanceDate` and
`SerializationFailure` in Billing). The gateway repeats a notification until it
reads `success`. The queued COMMIT is sent by the connection's loop, the timer
fires, servers downstream get on. Redis drops keys that expire (`WindowEnds`,
`Expires`). The timers of the synchronisation fire again and again on a loop that
is busy in between: strong fairness of `OnProductSync` and `OnClientSync`. Nothing
has to start a request, and neither the customer nor an administrator has to act.

## 4. What is proved

The theorems hold for every value of the constants that the module's `..Assumption`
admits; TLC evaluates that assumption in every run. The bounds of the models
(`MaxPeriod`, `MaxCrashes`, `MaxOrders`, `MaxTime` ...) are constants too, so a theorem
covers any bound. Each proof module has the same three layers: an inductive invariant
made of named parts, one lemma per part that every step preserves it, with a step per
action, and the theorems, which follow from the invariant.

| Theorem | States | Checked on an instance by |
|---|---|---|
| Settlement: `TypeCorrect`, `Balanced`, `PaidOnce`, `Covered`, `Final`, `Implements`, `Agrees` | `TypeOK`, `BooksBalance`, `PaidOnceFromBalance`, `PaidIsCovered`, `SettledIsFinal`, `LedgerSpec`, `GatewayAgrees` | `settlement`, the last `settlement_live` |
| Billing: `TypeCorrect`, `NeverTwiceNeverSkipped`, `CleanRuns`, `LinksAgree`, `Implements` | `TypeOK`, `BilledUpTo`, `CleanRunIsComplete`, `LinkedIffListed`, `BookSpec` | `billing`, `invoicing` |
| Lifecycle: `TypeCorrect`, `DecidedOnce`, `SoldBeforeDelivered`, `OneCall`, `DeliveredInFull` | `TypeOK`, `OrderDecidedOnce`, `OnlyApprovedDelivered`, `ServersBounded`, `ActiveOrderDelivered` | `lifecycle`, `lifecycle_live` |
| Dunning: `TypeCorrect`, `Harmless`, `Escalates` | `TypeOK`, `LateRunsDoNoHarm`, `OverdueIsMarked /\ LongOverdueIsTerminated` | `charging` (the first and the last inside `AllTypesOK` and `PromptRunsEscalate`) |
| Metered: `TypeCorrect`, `BilledOnce` | `TypeOK`, `PeriodBilledOnce` | `charging` (of the instance `Metering`) |
| Bandwidth: `TrafficTypesCorrect`, `BillsExact`, `BillsNotBelow` | `TypeOK`, `ExactWhenSteady`, `NotBelowCounted` | `charging` (inside `AllTypesOK` and `BillsFollowSamples`) |
| Addons: `AddonTypesCorrect`, `CancelledStands`, `DaysUpToMonth`, `AddonsCharged` | `TypeOK`, `CancelledOnce`, `ChargedByTheDay` for any period and for a month's | `charging` (inside `AllTypesOK` and `AddonsSettle`) |
| Cart: `Gapless`, `Implements` | `NumberedWithoutGaps`, `CheckoutSpec` | `selling` (the second as `AloneSpec`) |
| Pricing: `PricingTypesOK`, `NearestWithinDepth`, `Nearest` | `TypeOK`, `QuoteIsNearest` within the limit of the walk and, with no more templates than that, without | `selling` (of the instance `Chains`) |
| Distributors: `HierarchyTypesOK`, `HierarchyImplementsForest`, `HierarchyStaysSound`, `HierarchyTreeQueryEnds` | `TypeOK`, `ForestSpec`, `F!Sound`, `TreeQueryEnds` | `selling` (the first two; what Forest keeps follows from them) |
| Sessions: `TypeCorrect`, `RevokedForGood` | `TypeOK`, `LoggedOutStaysOut` | `access` |
| Accounts: `AccountTypes`, `Together`, `AccountStays` | `TypeOK`, `RegisteredTogether`, `AccountIsKept` | `access` (inside `AccountsHold`) |
| Limiter: `TypeCorrect`, `Conservation` | `TypeOK`, `Conserved` | `downstream` |
| Sync: `SyncTypesOK`, `FlagsComeDown`, `CopiesStayFew`, `SyncImplementsMirror` | `TypeOK`, `FlagMeansRunning`, `CopiesBounded`, `MirrorSpec` | `downstream` (the first three inside `FailuresContained`) |

### Settlement

`SettlementProofs` proves, for every set of distributors, invoices, sessions,
trades, and every number of payments:

* `TypeCorrect`: `TypeOK`, balances are never negative.
* `Balanced`: a balance is its opening, plus the top-ups the payments table holds, less
  the invoices it says were paid out of it.
* `PaidOnce` and `Covered`: an invoice leaves the balance at most once, and a paid
  invoice has a completed payment of its total.
* `Final`: a paid invoice stays paid and a completed payment is not rewritten.
* `Implements`: Settlement implements Ledger.
* `Agrees`: a completed payment has settled its invoice or repeats a trade; while no
  process has died, `GatewayAgrees`.

None of these is inductive. A session that has read a balance or a status acts on
it several statements later, and what it has read must still hold. The inductive
invariant `IInv` therefore says what a session knows at each statement: which
request it serves (`Control`), which rows it holds and what it has found there
(`Locks`), and that two sessions never hold one row, but for the shared key locks
(`Exclusive`). It is the argument of two-phase locking: `Footprint` shows that a
session writes only rows it holds and changes no other session's variables,
`OthersKeep` concludes that the others' knowledge survives, `MineKeeps` that a
statement establishes its own. `Effects` and the `..Writes` lemmas then say what a
commit does in terms of the database alone, and the theorems follow from these.

`Balanced` compares a balance with a sum over the payments table. A sum over a set would be
out of reach, but the rows of the table are numbered, and `Total` adds them up in that
order. `MovedChanges`: when one row changes, the sum changes by the difference of its
shares. `InsertedShare` says which share the row of a session has, `Booked` that every
balance is what the rows say, and that only gateway payments wait to be completed, so that
a notification moves no balance. The new balance is computed from the one the session
read; that nobody wrote it in between is `Locks`.

`Agrees` has an invariant of its own on top of that one (`Agreement`). `Told`: a notification
of success is of an order that is paid, under its trade; it is computed from a payment the
session has locked, and a trade it has found is that of a payment completed already.
`Ordered`: each order at the gateway is that of one payment. Between the precreate and
the COMMIT only the session knows the order (`Placing`); but a session at its COMMIT waits
for nobody, so no deadlock takes it back (`AtCommit`). A process that dies there does
take it back: the order stays at the gateway, and its number is drawn again for another
payment. Hence the hypothesis `crashes = 0`, which is also how `settlement_live` runs.
The assumptions are those of `Settlement`'s `ASSUME`: totals and top-ups are
positive, opening balances are not negative.

### Billing

For any subscriptions, runners, invoicers, periods and crashes. `BilledUpTo`, that each
subscription is charged exactly once for every period before `next_billing_date` and
never for a later one, is not inductive: what a run commits was read long before, from
a snapshot. The invariant says what protects that reading. `Control`: a run has rows only
inside its transaction. `SeenPast`: a snapshot is never of the future. `Fresh`: a row
the run has still to update is as the snapshot found it unless it is among those
`changed` since, and those PostgreSQL refuses. `Updated`: a row it has updated is still as
it saw it, because the others wait for its lock; `Exclusive`: no two runs have updated
one row. So a commit moves each row it wrote from the period that was seen to the next.
`Accounted` follows the rows a run found due, one by one, to be done, written or charged
by now, for as long as it has no error: that is `CleanRunIsComplete` when the run ends.
For invoices, `Reserved` says that the number an invoicer has inserted is its own and that
nothing is committed under it, and `OneOwner` that the records it has read are charged
and of one distributor. The
refinement maps the commit of a run to the charges of its rows; every other step
leaves the book as it is.

### Lifecycle

For any orders, subscriptions, threads, servers, polls and crashes. `RowFacts` says what a
row may hold: a subscription that is touched in any way belongs to an approved order, a
delivered one is in service, and so is every subscription of an active order. A handler
starts to provision before the COMMIT of the approval, so what it may rely on at each
statement (`WorkFacts`) is at first only that the order is approved or its approval is
queued (`Promised`); once it has read rows of an approved order it knows more. `OrderFacts`
says that a decision is only ever queued for a pending order, whose row it locks: that is
`OrderDecidedOnce`. `ServersBounded` needs `ClaimFacts`: the subscriptions a handler may
still call `createServer` for are its own and have no server yet, because the order was
free and undecided when it took them and no call is made for a pending order's.
`PollFacts` bounds the counter of polls. The retry button cannot break the bound, since
`retryProvisioning` fails before it reaches `doProvision`.

### Dunning

For any invoices, items, due days, settings and batch size. A run acts on rows it has
selected before and does not look at the invoice again; what carries the argument over
the gap is the past. An invoice that was overdue when it was selected can no longer have
been paid in time (`PaidLate`, `Stopping`, `Stopped`), and one that has been marked is never
`unpaid` again, so it is not selected for another announcement (`Announced`,
`Announcing`). `Escalates` has the hypothesis `EachDay`: a complete run each day, with room
in the batch for every invoice and every charge. The instance `Daily` of the run
satisfies it. It then says that what is past its due day is marked by the second day and
what is long overdue is terminated, whatever administrators and customers do meanwhile:
`Escalation` follows the rows from the select of a phase to its end.

### Metered, Bandwidth and Addons

`ChargingProofs` is about all three: Metered for any subscriptions, prices, days and
requests, and the other two as the instances `Traffic` and `Addon` with constants and
variables of their own.

A calculation of Metered holds the lock of its subscription from the check to the commit
(`Holding`), so what it has not found billed nobody bills before it does (`Unbilled`). The
quantity of a bill is a sum over days, which `Reported` adds up in the order of the days
by a recursive function; `HoursBounded` is an induction on the days.

A bill of Bandwidth counts the samples of a port by one statement and picks the one at a
rank by another. `PickIsExact` says that the pick is right when nothing has come between: at
each rank there is a sample (`RankFound`), and it is the least rate that fewer samples
exceed than the rank (`RankIsLeast`); that few, by `RankDivides`, are just the share that the
percentile leaves out. So `Settled`, the sum of the ports that are done is what they owe,
holds of a steady bill. When samples arrive, what a bill has to find at the port at hand
cannot be an exact rate any more: `Owing` says that it owes no more than a rate that at
least as many samples reach as its rank, which an INSERT keeps (`ReachingGrows`), and
`PickIsNoLower` that a pick at that rank is as high. Retention takes samples away and
excuses the bill. `Within` bounds the sum by what the ports left could add.

In Addons a cancellation has read the version of an active row, and no row is updated from
that version twice (`Reading`, `Row`). `Before` is a strict linear order of the dates
(`BeforeOrders`), of which a calendar of finitely many years has finitely many; so the days
between two dates are those from the one to the other (`DaysCounted`), and the later start
and the earlier end bound just the days that an addon was there for. The cap of
calculateAddonProrata is left: for any period the days used are those, or as many as the
month that the period begins in has (`DaysUpToMonth`), and the leap years of daysInMonth are
those of the calendar (`MonthsAgree`). `AddonsCharged` has the hypothesis
`Monthly`, which the periods of the run satisfy, whole months and months from the 15th:
for a quarter, the code charges the days of one month at most.

### Cart

For any distributors, requests, items, quantities and crashes. Order numbers are one more
than the greatest committed, so racing submissions draw the same one; the unique index
makes all but one wait, and of the requests past their INSERT there is never more than
one (`Alone`). It therefore draws its subscription numbers as if nobody else was there
(`Consecutive`, `Placing`). Numbers start again at `Base`, so `Gapless` is about days on
which there are fewer (`Small`): what happens on the others is a finding. `Implements` says
that with one request at a time, crashes and failures of Redis included, the commands
amount to the atomic Checkout: `Faithful` relates what the request has read to the cart,
and a PUT that names quantity and months is one `Change` of both.

### Pricing

`SellingProofs` has Pricing and Distributors as the instances `Chains` and `Hierarchy`,
with constants and variables of their own, next to Cart. For any templates, prices,
buyers, administrators, days and writes. An undisturbed walk stands on the chain of the
distributors' template, as high as it has taken steps, and has passed no template that
sells, that is, is in force and has a row for the product (`Climbed`); `Charged` adds what
it has quoted. So it quotes what the nearest such row holds, a NULL included, among the
`MaxDepth` templates that the loop visits (`NearestWithinDepth`). That this is the nearest
of the whole chain needs a hypothesis, no more templates than that:
`Cardinality(Templates) <= MaxDepth`. It is the pigeonhole principle (`ChainRepeats`,
`NearIsEarly`): one more template in a row than there are has one of them twice, and what
follows has been seen, so the nearest is among the first.
So a circle of parents, which updateTemplate lets in, does no harm to a quote. Without the
hypothesis the statement is false, and a finding. The chain is a recursive function:
`ChainClimbs` derives its equations from an induction (`Induct`).

### Distributors

`HierarchyTypesOK` is for any number of requests. The other theorems are for one at a time
(`Threads = {t}`) and a walk that may go as far as there are ids (`MaxUp >= MaxId`, where `MaxUp`
stands for the `MaxDepth` of Distributors); with two requests they are false, see section 5. What a request has found out at each statement is
`Established`: a name that is free, a parent that is live, and for the walk `OnTheWay`: of
every row it has left the parent is among those it has met, and the row to be moved is
not. `WalkSeesAll` concludes at its end that what it has met is closed upwards and thus holds
all that is above the new parent, which is what `Change` of Forest asks of a new parent,
whatever other columns change with it (`HierarchyImplementsForest`). `HierarchyStaysSound`: what starts without a circle, with
names apart and rooted (`F!Sound`) stays so; `ChangeSound` finds in a circle after a change one
that was there before. `HierarchyTreeQueryEnds` follows: a row on level n of the recursive
query is n rows below the first (`LevelDescends`), so on a level as deep as there are rows
it would lie on a circle (`NoCircleEnds`).

### Sessions

For any number of requests, tokens and moments. The lifetime of a blacklist key is computed
from one reading of the clock and started at a later one. `Underway`: a lifetime on its
way to Redis reaches at least to the end of its token, counted from any later moment.
`Outlives`: so the key of a confirmed logout is there while the signature is good, and a
request that began after the logout is refused.

### Accounts

For any names, passwords, clients and number of requests. A registration answers from
rows it read before others wrote theirs. `RequestFact` is what it still knows at each
statement: the name it is about, that the distributor it has inserted is not committed, and,
once it has inserted the user, that nobody has the name. Another transaction could take
both from it; `Apart` says that none does, because sequence numbers are given once and
the unique index makes the second of two INSERTs of a name wait. So a COMMIT adds one
distributor and one user of it that waits for approval (`Together`) and replaces nobody
(`AccountStays`), and a request that breaks off adds neither. Users that an administrator
creates may share a distributor with each other and with the one that registered it; no
two registrations do. `AccessProofs` has Accounts as the instance `Registry`, next to
Sessions, as `MCAccess` has; the run checks these formulas inside `AccountsHold`.

### Limiter

`DownstreamProofs` proves of Limiter, for every number of threads and buckets, every rate,
burst, timeout and every division of a millisecond:

* `TypeCorrect`: a bucket holds between none and its burst, and its clock is between
  the time it was made and now.
* `Conservation`: since it was made it has given no more than its burst and the
  refill of that time.

Here the property itself is inductive, once three facts are added: a thread that
consumes or waits has a bucket that was made (`References`), buckets not yet made have
given nothing (`Unused`), and ends of waits are times. `RefillGains` is the heart: what
a refill adds is at most the time it takes from the bucket's clock, because division
rounds down (`DivRounds`) and `TimesMonotone` carries that to parts of a millisecond.
`BookKept` concludes that giving a token moves it from what is held to what is given;
`Granted` and `NotGranted` are the two outcomes of a request, `Made` a new bucket,
`Untouched` every other step. The assumption is `LimiterAssumption`: rate, burst,
timeout and parts are positive.

### Sync

`DownstreamProofs` has Sync as an instance, with variables and constants of its own. For any
finite numbers of connections and jobs, and any ids, attempts and faults. `SyncTypes` and `Flagged` are
inductive by themselves and give `SyncTypesOK` and `FlagsComeDown`.

`CopiesStayFew` needs to know whose fault each row is (`Copying`). An item that is mapped has
one mapping (`MapsOnce`). Before its mapping, each of its rows was made by a job that is
about to map it, or was cut short there, which `cut` counts. After its mapping, each row but
the mapped one comes from a job that had looked the item up before (`Few`). Two jobs never
make one row (`Apart`). The count is a count of jobs: `CoveredBy` and `CrashCopies` carry it
over a crash, in which every job that was about to map leaves its row behind. The attempt
to prove this found that the bound first stated here was too small: an item that is
`Misled` by the mapping of a server shares the row with the number of the subscription, and
writes over what another item had there, so it may have one row more. The instance
`Racing` of the run now has such a row.

`SyncImplementsMirror` has hypotheses (`OneThread`): the cron is the only job, there is one
connection of a type at most and no server is mapped. Each is needed: two threads write in
the wrong order, two connections and a server's mapping share rows. `Forward` says that
what the run has in hand is no older than the rows and no newer than the remote entity,
`OwnRows` that a mapped row belongs to the item its mapping names; so a write replaces
an item's row by a version in between (`WrittenForward`), a step of Mirror or a stutter.

### What is only model-checked

Out of the prover's reach: every liveness property, which needs fairness and ENABLED
(`Finishes`, `CollectedIsCompleted`, `HandlersEnd`, `RunsEnd`, `LockoutEnds`, `ChangesArrive`,
`CatchesUp`).

Not proved: that a number drawn in Cart is a number when the day's numbers have wrapped,
a maximum over a set; Permissions, whose one property is a liveness property. The
invariants of the MC modules that join several components (`AllTypesOK`,
`PromptRunsEscalate`, `PeriodBilledOnce`, `AddonsSettle`, `BillsFollowSamples`,
`QuoteIsNearest`, `ForestSpec`, `FailuresContained`, `MirrorSpec` there) are checked as
such; the theorems state what they say of each component, and are listed without a
property of a run.

## 5. What does not hold

`PROJECT.json` lists the disagreements between the code and what its comments, headers
or messages say. Two have a run. For the others the counterexample is short and told in
the finding; most are reached from a model of this directory by lifting the
precondition named here.

* Two threads instead of one: in Distributors two re-parentings whose walks both end
  before either writes make a circle, two creations share a name, and two updates
  take back each other's columns; in Cart an item added between HGETALL and DEL is lost,
  and a cart read twice is ordered twice; in Sync both threads look an entity up
  before either maps it. `CopiesBounded` says how many rows that makes at most.
* A failing Redis: in Accounts a counter whose EXPIRE failed never expires; in Cart a
  COMMIT that fails leaves no cart behind.
* Late runs: in Dunning an invoice due on a day before which no run was made stays unpaid
  for ever, and one paid while the rows before it were worked on has its subscription
  suspended all the same. `PaidInTimeKeepsService` is what remains true.
* NULL: a price that setProductPrice leaves out hides those of the parents, and a
  subscription that createOrder has made, without a `next_billing_date`, is never billed.
* Crashes: in Settlement a payment acknowledged before its queued COMMIT is lost.

## 6. Plan

Done: every component of the inventory but the last row is modelled; all but Permissions
have theorems. What could come next: upgrades of subscriptions once something applies
them, and the amounts of an order's lines, in parts of a cent, with the rounding of
each.

## 7. What is not modelled

The calculation of amounts and discounts, and dates within a billing period; PDF,
notifications and logs, except where writing one can fail; single-row editing of
products and settings, and the setup; the frontend. Upgrades of subscriptions are only
submitted by the code, never applied. `provisionSubscription`, `updateProvisionStatus`,
`runAutoRenewCheck` and `resetBucket` have no caller. A database connection that is lost
without the process dying is not modelled. The Finance adapter's `createInvoice` is
taken to behave like the v10 adapter's `createServer`. Hashing and signing are library
calls: a signature is good until its expiry.
