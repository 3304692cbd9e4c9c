# Tarhib: a verification project

Tarhib is the hospitality platform of companies with several branches.
Employees order drinks and snacks under quotas, kitchen agents prepare them
from stock, couriers deliver them, and around that the platform runs meeting
rooms, VIP self-service points, cleaning, procurement, payroll and
accounting. One NestJS process (`src/apps/backend`) serves a web
administration and two mobile applications over HTTP. Its state is in
PostgreSQL (TypeORM), its caches and sessions are in Redis.

This directory models the part of the platform where concurrent requests,
failures and retries meet the same rows, keys and files: orders, the stock they
reserve, the quota they consume and the tasks that deliver them first, then
the services around them, the caches and sessions they share, and the two
pieces of the user interfaces that keep state of their own.

## 1. Inventory

Paths are relative to `src/apps/backend/src` unless they start with `src/`.

### Orders (`orders/`)

*State*: `orders` (status, number, idempotence key, cook), `order_lines`
(decision, preparation status), `company_order_counters`.
*Operations*: `create` (pre-check of the key, advisory validation, then one
transaction that takes quota and stock line by line behind savepoints, draws
the order number and commits), `updateStatus` (approve, reject, cancel, start,
ready, deliver, by transition tables that depend on the role),
`updatePreparationLine`.
*Interactions*: calls the reservation and the quota functions inside its own
transaction; called by `DeliveryService`; notifies over websockets.
*Hard*: two requests of one employee on one quota; two carts on one item;
the same key twice; lock cycles between carts; a line that fails after others
succeeded; two cooks; cancellation against preparation; a cancellation in
another quota period.
*Correct when*: stock and quota ledgers are exact, no item and no quota is
exceeded, a key makes one order, numbers have no hole, every order is backed
by stock until it is prepared, every request is answered.

### Validation engine (`orders/.../validation`)

No state. One pure decision on each line from unlocked reads; it is advisory,
so its hazard is that its answer is old when the transaction uses it.

### Inventory and stock reservation (`inventory/`, `inventory/stock-reservation.ts`)

*State*: `inventory_items` (quantity, reserved, one row per branch, product and
zone), `inventory_reservations` (HELD, CONSUMED, RELEASED).
*Operations*: reserve (kitchen first, deficit in the branch, rows locked in a
fixed order), consume, release, `adjustAtomic` (exits and counts), `update`
(PATCH), `decrementBranchStock`.
*Hard*: counts and edits beside reservations; the reserved column is a cache of
a sum; `update` saves an entity that it read without a lock.
*Correct when*: `reserved` is the sum of the HELD reservations and never exceeds
`quantity`.

### Quotas (`quotas/`)

*State*: `employee_quota_usage` per employee, product and period,
`order_quota_consumptions` per order and line.
*Operations*: `consumeQuotaAtomic` (upsert, lock, compare, add), restitution in
the period frozen when the order was created.
*Correct when*: usage is the sum of the consumptions, and never above the quota.

### Delivery (`delivery/`)

*State*: `delivery_tasks` (status, assignee, `previous_order_status`, proof).
*Operations*: `queue` (creates the missing tasks), `reportOrderIssue`, accept,
pick up, depart, arrive, report an issue, resume, return, fail, confirm.
*Interactions*: writes `orders.status` itself, beside `OrdersService`, and calls
`updateStatus` after its own commit.
*Hard*: two services write one status; a status saved at an incident is written
back later; a crash between the two commits; retries of the proof.
*Correct when*: an order takes its stock once, is delivered only after a
preparation, ends for good, and its task and its order agree in the end.

### Other components

Where a service has no transaction around what it does, it works as `Saves`
says: it finds an entity, assigns to its fields and saves it, and the save writes
every column in which the entity differs from the row at that moment.

| component | state and operations | what is hard | correct when |
|---|---|---|---|
| inventory transfers | transfers between zones; `confirmAtomic`, `confirm`, `cancel` | unlocked read-modify-writes; lock order opposite to reservations | units are moved once, none is lost |
| replenishments | requests; approve creates a transfer, fulfil confirms it | two approvals; crash between transfer and request | a fulfilled request was supplied |
| procurement | purchase orders; draft to sent, `receiveAtomic` | an edit deletes the lines before it saves; unlocked `send` beside a submission | a validated order has the lines that were submitted |
| VIP self-service | places, thresholds, tasks; complete takes branch stock | crash between stock and task; two tasks for one product | what leaves a zone arrives in the place |
| meeting rooms | bookings, services, cancellation | conflict test before the insert | no two confirmed bookings overlap |
| meeting preparations | checklists, statuses, cleaning tasks | whole entity saved after an unlocked read | completed rooms are cleaned, ready rooms are checked |
| cleaning | tasks, claims | assignment after a claim | a started task has an agent |
| access cache | profiles in Redis with a TTL; a role under test | read before, stored after an invalidation; Redis down | a stale profile has a bounded life |
| catalog cache | version, snapshot of each version, single flight | publication after the save, an older version published again, failures shared by requests | a snapshot shows every update up to its version |
| row locks | every transaction that locks more than one row | opposite orders | only known inversions can deadlock |
| one-time codes | cooldown, hourly counter, session in Redis | several commands per call; expiry | the last code sent is the one that works |
| registration | mode, code, options, challenges | two saves per update; a code that rotates | a challenge registers one employee, by an option that stands |
| accounts | employee row, Keycloak account, activation code | three systems, no transaction | row and account agree; whoever is invited got a code |
| roles, priority levels | rows, quotas, `quotas_enabled`, levels by code | derived flags; protection by a count before a deletion | the quotas of a role are enabled, used rows are protected |
| journal, expenses, payroll | entries with references, fiscal year, lines, payslips, advisory lock | reference drawn by counting; re-run after a failure | references are unique, nothing is posted twice |
| billing | invoice, recognized months, payments, entries | entry posted before the row is saved, but after the payment is | what is issued is posted, sums agree |
| leave | requests, balances | balance read without a lock | taken days are those of the approved requests |
| contract documents | a file and the reference to it | two systems | the document a row names is there |
| web session | token and profile of the page, two cookies, Keycloak sessions | answers that overtake or fail, reloads | the page never acts as another than it shows |
| offline queue | proofs of delivery in the device's store | whole queue read and written back; timeouts, refusals, incidents | a stored proof stays until it is delivered |
| notifications, reporting, metrics, audit | output | none: no state depends on them | |
| suppliers, packages, company documents, operational zones | single rows | none of interest here | |
| screens of the web and mobile applications | what the API answered | their retries are the duplicated requests of `Orders` | |

`PROJECT.json` lists every component with its status, and every hazard at its
line with the property that watches it.

## 2. Modules

| module | what it is |
|---|---|
| `Units` | the sum of a column, as the cardinality of a set of units |
| `Orders` | orders, reservations and quota, with transactions and row locks; the core |
| `OrderPromises` | abstract specification: an order is placed in one step and keeps its promise |
| `Delivery` | `Orders` composed with the delivery tasks |
| `InventoryEdit` | `Orders` composed with a PATCH of an inventory item |
| `Saves` | find, assign, save: how a service changes a row outside a transaction |
| `Transfers`, `Procurement`, `VipSelfService` | on `Saves`: goods that move between zones, suppliers and VIP places |
| `Cleaning`, `Meetings` | on `Saves`: cleaning tasks; bookings, preparations and the cleaning they leave |
| `Billing`, `Leave`, `ContractDocuments` | on `Saves`: invoices; leave; files of contracts |
| `Onboarding`, `Registration`, `Roles`, `SlaLevels` | on `Saves`: accounts; self-registration; roles and quotas; priority levels |
| `Accounting`, `Finance` | the journal of a year; expenses, payslips and the payroll that post in it |
| `AccessCache`, `Catalog`, `PhoneCodes` | state in Redis, one command a step |
| `LockOrder`, `LockPlans` | row locks in general; the locks each transaction of the API takes |
| `WebSession`, `OfflineDeliveries` | the page of the administration; the queue of the delivery application |
| `MCOrders`, `MCDelivery`, `MCInventoryEdit` | instances of the core for TLC |
| `MCGoods`, `MCOffice`, `MCPlatform`, `MCLive` | instances of the services, the platform and their liveness |
| `Units_proofs` | lemmas about sums |
| `Orders_proofs`, `OrdersQuota_proofs` | proofs about the core: stock, keys, numbers and statuses; quota, backing and refinement |
| `Delivery_proofs` | proofs about the core composed with the deliveries |
| `Goods_proofs` | proofs about transfers, replenishments, purchases, VIP places, cleaning and meetings |
| `Platform_proofs` | proofs about caches, locks, codes, the page and the offline queue |
| `Office_proofs`, `Books_proofs` | proofs about documents, roles, levels and registration; about leave, the journal, invoices and accounts |

### Orders

The variables are the committed rows plus what open transactions of `create`
have written. A request and the order it creates have one name `r`.

| variable | code |
|---|---|
| `quantity`, `reserved` | `inventory_items` |
| `held`, `consumed` | `inventory_reservations` of `r`, by item |
| `used` | `employee_quota_usage.used_quantity` |
| `charge` | `order_quota_consumptions` of `r`, still consumed |
| `nextNumber`, `number` | `company_order_counters`, `orders.order_number` |
| `status` | `orders.status`; before the commit, where the request is; after a failure, the answer |
| `request`, `window` | body and caller of the request; quota period frozen in the transaction |
| `line`, `prepared` | decision and preparation of each line |
| `preparedBy` | `orders.prepared_by`, set with `prep_started_at` |
| `period` | the period of the business date |

`create` is the only operation split into steps, because it is the only one
that holds locks while others run: `Receive` (pre-check of the key), `Validate`
(advisory validation, opening of the transaction), one `AcceptLine` or
`RefuseLine` for each line, then `CommitCreate`, `RefuseCreate`, `LoseRace` or
`AbortCreate`. `ItemLocks` and `QuotaLocks` are the row locks of an open
creation, derived from its accepted lines: a refused line gives its locks up,
since `ROLLBACK TO SAVEPOINT` releases the locks taken after the savepoint.
Everything else is one short transaction, modelled as one action whose guard
says that the rows it writes are not locked. `AdminTransitions`,
`ApproverTransitions`, `AgentTransitions` and `OwnerTransitions` are the tables
of `updateStatus`; `RoleTransitions` takes the first table that applies, as the
code does, and not their union.

What the model abstracts:

- one company and one branch: no row of one company refers to another;
- `employeeId` and the subject of the token are one identity;
- all the locks of one line are taken in one step: a line that waits holds
  nothing of its own yet, where the code may already hold its usage row and its
  first ingredients. Others can therefore do more in the model than in the code,
  never less; what is lost is a cycle closed half-way in a line, which PostgreSQL
  breaks like the cycles between lines that the model has;
- one period length per product, so one usage row per employee, product and
  period;
- the legacy quota of callers without a role, priorities, the SLA deadline and
  notifications are left out.

### OrderPromises

No request, transaction, lock or reservation table: `Place` checks what the
placed orders left of stock and quota and promises everything at once, `Start`
uses the promise, `Withdraw` gives it back, `Count` corrects the stock but not
below what is promised. `Orders!PlacedAtomically` instantiates it, with what
`PromiseOf`, `CostOf` and `StageOf` show of an order: an open
creation is mapped to an order that does not exist, so its lines, its locks and
its rollback are stuttering steps, and its commit is `Place`.

### Delivery

`ReadQueue` and `SaveTasks` are the two halves of `queue`, with the unique index
on the order deciding whether the insert succeeds. `CheckZone` is the read of
the queue before the transaction of accept. `ConfirmDelivery` commits the task;
`CloseOrder` is the call of `updateStatus` that follows, and `CrashBeforeClose`
the process that stops between them. `RetryDelivery` is the second call of a
client that got no answer. A courier who resumes after an incident and one who
departs use the same transition, as in the code, so `Depart` is both. Two queues
that run at once insert the same tasks and the second insert fails: one running
queue shows everything two would.

### InventoryEdit

The save of TypeORM reads the row a second time, compares and updates only the
columns that differ from the entity in memory. The three steps are `ReadEntity`,
`CompareEntity` and `WriteEntity`; plain reads see committed data only, hence
`CommittedReserved`.

### Saves

`row` holds the rows of a component's tables by id, `call` where each call of the
API stands and the entity it holds. A save is three steps: `CompareSave` reads
the row again and remembers the columns that differ, `UpdateSave` writes these,
`InsertSave` inserts when the row was deleted meanwhile (TypeORM does so).
`Crash` forgets a call between any two steps. The modules on top add only where
a call comes from and where it goes after its save; a statement of PostgreSQL
that is conditional by itself (`claimAndStart`) is one step, and so is a
transaction that locks first what it reads (`confirmAtomic`,
`decrementBranchStock`).

### Transfers, Procurement, VipSelfService

`Transfers` has one product: the stock row of each zone, the transfers, the
requests of the kitchen, and orders that reserve and consume beside them
(`Reserve`, `Consume`). `debits` and `credits` count how often each
transfer left its source and reached its destination. `LockedNext` is what the
transfers' own endpoints do; `ReplenishNext` is the fulfilment of a request,
which calls the older `confirm` in six separate database calls.

`Procurement` has orders of one line, whose columns are part of the row, since
the lines are loaded and saved with their order; an order whose line was deleted
orders 0. `submitted` is what each order asked for when it was submitted last.
A reception is refused before it reads a status or a line (section 5), so
`Receive` does no more than record that it was.

`VipSelfService` has the products of a place, the replenishment tasks, and the
zones they take from. `put` counts what was added to places. `NeedsTask` and
`FindTask` are the two halves of `createTaskIfNeeded`.

### Cleaning, Meetings

The ids of `Meetings` are bookings, preparations `Prep(b)` and cleaning tasks
`Clean(b)`, all rows of one `row`. `Excluded` is the exclusion constraint of
the table, which `CreateBooking` anticipates by a look-up. A preparation is
found, tested against its table of transitions and saved; its completion first
inserts the cleaning task, which is why `Meetings` extends `Cleaning`.

### Accounting, Finance, Billing

`Accounting` is the part that others call: a posting counts the entries of the
year (`CheckEntry`), then inserts with that number (`InsertEntry`), and the
unique index decides. `Finance` posts through these two steps for the lines of
one employee's month: `Record` stores a line, `RepostExpense`
replaces the entry of one, `StartRun` takes the advisory lock and `PayrollStep`
runs the month; `SyncSalary` is the record of the employee, which writes the same
line. `Billing` is one invoice with its months and payments; its postings count
in `posted`, as the numbers of the journal do not matter there. Each of them may
be refused (`JournalRefuses`); `payments` are the rows, `booked` those of them the
journal took.

### Leave, ContractDocuments

`Leave` locks the row of a request during an approval, not the balance it
reads: `lock` holds who approves which request. `ContractDocuments` follows a
file and the reference in the row through store, save and unlink, any of which
may fail (`Faults`).

### Onboarding, Registration, Roles, SlaLevels

`Onboarding` changes a row, an activation code in Redis and an account in
Keycloak one after the other: each is a step, and `Faults` tells which of them
may fail. A code that is gone remembers whether it was spent or expired (`Gone`),
as nothing in Redis does, so that the two can be told apart. `Registration` is what comes before: the settings are one save of the
company and one replacement of the options; a rotation of the code is a save of
its own. An option names a role, a branch and a department, and is deleted with
any of them at any time (`WithdrawOption`). In `Roles` and `SlaLevels` a change is a sequence of statements on
several tables, with what is derived or protected computed at one of them;
`used` keeps ids from being given twice.

### AccessCache, Catalog, PhoneCodes

Each command of Redis is a step and may fail where `MayFail` says so. In
`AccessCache` a profile is the number of changes made before it was read, and
`replaced` tells when each was replaced, so that staleness is a difference of
two times; `Tick` may not overtake a request by more than `MaxDelay`. In
`Catalog` a version is the `updated_at` of an update and a snapshot the set of
updates it shows; `flight` is the map of computations requests share. An update
that changes no column keeps the `updated_at` of its product and publishes it
again (`UpdateNothing`); a query that fails fails for all that share it
(`FailQuery`). In
`PhoneCodes` a session names its code, its attempts and the code whose time to
live it has.

### LockOrder, LockPlans

A transaction is a plan: the rows it locks, in the order in which its code locks
them, and its savepoints. `Lock` takes the next row when nobody holds it,
`Refuse` rolls back to a savepoint and gives up the locks taken since, `Commit`
ends, and `AbortVictim` is the detector of PostgreSQL. `LockPlans` is the list of
the plans of the API, each with the code it is read from, those of unique indexes
and foreign keys included: `queue()` inserts a task, whose entry in the index of
`order_id` another insertion must wait for, and then shares the row of its order.
Rows that only the holder of another row locks are left out. `Inverts` names the operations that
lock against the order of the others: transfers from BRANCH to KITCHEN, resumed
deliveries, the queue of deliveries, orders that are given up, preparations whose
reservations are read in any order, and carts of several products.

### WebSession, OfflineDeliveries

`WebSession` is one tab: its token, its profile, the banner of working as someone
else, the cookies `rt` and `imp`, and the sessions of Keycloak. A request
carries the cookies of the moment it is sent; an answer sets cookies and page
when it arrives. `Faults` has what may happen besides: the page is loaded again, a
session expires, a request or its answer is lost, `GET /auth/me` fails. Users
outside `Internal` are turned away. `OfflineDeliveries` has the queue on the device, the calls that
read it and write it back, the wire between device and API, and the two commits
of the API (task, then order), of which either may be refused. A call that timed
out leaves its request on the wire; `Kill` ends the application, not the requests.
What others do to the task and its order meanwhile is that of `Delivery`: an
incident of the order or of the task, its end, and the steps of the order itself
(`OrderMoves`).

## 3. Runs

| run | what it asks | bounds | result, distinct states |
|---|---|---|---|
| `orders` | do all ledgers and statuses stay consistent, and is an order placed atomically, seen from outside? | 2 requests, 2 products, a recipe, 2 carts, 1 key, 2 periods, counts up to 2 | holds |
| `orders_live` | is every request answered? | 3 requests, 2 products, 1 unit of each | holds, 108,466 |
| `orders_race` | does a retry with the same key and cart get the order that exists? | as `orders` | violated |
| `delivery` | do deliveries and incidents keep the ledgers and the order of things? | 2 orders, 3 callers, 1 product | holds, 689,978 |
| `delivery_quota_kept` | is the quota of a started order kept? | 1 order | violated |
| `delivery_stock_found` | does a cook always find the stock reserved? | 1 order | violated |
| `delivery_reject_frees` | does a rejection free the stock? | 1 order | violated |
| `inventory_edit` | does an edit keep the reserved column exact? | 1 order, 1 item | violated |
| `goods` | do transfers, purchases, VIP places and rooms keep what they promise? | 2 calls, 2 rows of each kind, quantities 1 to 2 | holds, 565,240 |
| `office` | do books, invoices, leave, files, accounts, settings and roles agree with themselves? | 1 or 2 calls, 2 or 3 rows of each kind | holds, 4,584,989 |
| `platform` | what do the caches, locks, codes, the page and the offline queue guarantee? | 2 calls, TTL 2, 3 transactions over all plans, 1 or 2 proofs | holds, 1,378,508 |
| `live` | does everything that started end? | 2 calls, 3 transactions over six kinds of plans | holds, 26,889 |

**Core.** Two creations are enough for every pairwise conflict: same key, same
usage row, same item, same number. The recipe makes the two lines of one cart
compete for the same two rows; the stock of three units in two zones is too
small for two carts and forces allocations that span both zones; the quota of
two is smaller than what two carts ask; the second period lets an order be
cancelled after its own has passed; counts reach below and above what is
reserved. The liveness run has three requests, since a third one may take what a
cycle of two was waiting for. Requests are interchangeable, and the runs of
safety properties use that symmetry; the liveness runs do not. `LedgersAgree` of
`delivery` joins the type invariant and the ledgers of stock and quota of
`Orders`, which deliveries must keep too.

**Several services in one run.** `goods`, `office`, `platform` and `live` hold
several modules that share no variable, as the services share no row. The variable
`service` is chosen at the start and names the one that moves, so that TLC
explores each state space by itself and not their product; a property is a
conjunction of what is claimed of each. The same module may occur more than once,
with other constants: a service whose name ends in *alone* handles one call at a
time, one with *faults* or *crashes* also fails. This is how the claims are
separated: an invariant stated for a service is claimed with two calls that
interleave at every database call; one stated only for the service *alone* needs
that nobody else changes the same row meanwhile, which the code does not ensure.
Section 5 lists what breaks in each of these cases. The parameters of the three
large modules are constants with named assumptions (`TransfersAssumption`,
`BooksAssumption`, ...), which TLC evaluates on the values of the configuration and
the proofs use instead of them. `CHECK_DEADLOCK FALSE` stands
in these configurations because ids, clocks and bounded counters run out, and
in the liveness runs because the system stops once everything is final.

Two calls are enough to see an old value written back over a new one, which is
the hazard of `Saves`; three transactions are enough for a cycle with a bystander;
two flushes and one call are every writer of the offline queue that can overlap
on one proof. Quantities of one or two distinguish none, part and all of an
order. Four sessions allow an administrator to log in, work as another user, come
back and do it again. The ledger counts up to three or four entries, one more
than an expense and its replacement need for a number to be used again.

**Fairness.** In `orders_live` (`FairSpec`) the process keeps executing an open
request, hence weak fairness of `Continue(r)`: a promise that is resolved is
scheduled. A request that waits for a lock is not enabled, so fairness does not
promise that it gets it. When all open transactions wait for each other, the
deadlock detector of PostgreSQL aborts one: weak fairness of `BreakDeadlock`.
People, counts and the calendar are not fair. Without `BreakDeadlock` the
property fails, because the code does not order the lines of a cart.

In `live` each module states its own fairness:

- `LockFairness`: strong fairness of `Lock`, since PostgreSQL queues those who
  wait for a row and gives it to them in turn; weak fairness of `Commit` and of
  the detector. No operation is repeated: a victim's caller gets an error.
- `Catalog!Fairness`, `PhoneCodes!Fairness` and `Finance!LiveFairness`: the
  process goes on with a call; Redis removes a key whose time is over. That a
  client asks, or that Redis answers without an error, is not assumed.

Nothing is claimed of the offline queue in the end: a flush starts when the network
comes back, when the screen opens or when the banner is pressed
(`useOfflineDeliveryQueue.ts:71-76`, `DeliveryTab.tsx:187`), and no timer repeats it.

## 4. Findings

1. `orders_race`: `order.dto.ts:57-60` says that the same key with the same cart
   returns the order that exists. The order is looked for before the validation
   and again only after a violation of the unique index. A retry that passed the
   first look-up while the first request was open, and goes on after this one
   committed, is refused by the advisory validation or in its transaction, if the
   first request took the rest of the stock or of the quota: it answers 422.
2. `delivery_quota_kept`: the comments at `orders.service.ts:757` and
   `quota-consumption.ts:68` say that a started order cannot be cancelled. An
   incident reported on it puts it back to PENDING, and then it can.
3. `delivery_stock_found`: `orders.service.ts:767` says that a preparation never
   runs out of stock. `reportOrderIssue` accepts a cancelled order and makes it
   PENDING, without stock.
4. `delivery_reject_frees`: a task that fails or returns rejects its order
   without releasing what it reserved.
5. `inventory_edit`: the PATCH of an item writes an old `reserved` back, so the
   invariant the migration states is lost.

## 5. What the code does not keep

Further disagreements met while modelling. Each is stated by a definition of its
module, marked there, and none is checked by a run; with the module, the condition
under which TLC refutes it and what happens. Where a run checks a definition
named here, it does so for a service that is spared the condition.

**Two calls at once** (a value found before is saved over what was stored since):

| property | code | what happens |
|---|---|---|
| `Transfers!CancelledMovedNothing` | `inventory-transfers.service.ts:212` | `cancel` overwrites a confirmation: a transfer that moved its units shows CANCELLED |
| `Transfers!OneTransferPerRequest` | `inventory-replenishments.service.ts:57` | two approvals make two transfers |
| `Transfers!UnitsKept`, through a fulfilment | `inventory-transfers.service.ts:161-190` | `confirm` writes an old quantity back: units appear or are lost |
| `Procurement!PendingIsNotSent` | `procurement.service.ts:221` | `send` overwrites a submission: an order is sent without validation |
| `Procurement!ValidatedAsSubmitted` | `procurement.service.ts:105` | an edit deletes or replaces the lines of an order submitted meanwhile |
| `VipSelfService!OneOpenTask` | `vip-self-service.service.ts:363` | two adjustments make two tasks |
| `VipSelfService!TakenIsPut` | `vip-self-service.service.ts:335` | two completions take twice and add once (so does a crash in between) |
| `Cleaning!VerifiedIsFinal` | `cleaning-tasks.service.ts:113` | an old assignment is saved over VERIFIED |
| `Meetings!ReadyWasChecked` | `meeting-preparations.service.ts:209` | a mark is withdrawn while READY is saved |
| `Meetings!CancelledIsFinal` | `meeting-rooms.service.ts:259` | services ordered meanwhile confirm a cancelled booking again |
| `Accounting!ClosedYearIsValidated` | `accounting.service.ts:218` | the year closes beside a draft of its tax entry |
| `Finance!OneExpenseEntry` | `accounting.service.ts:348` | two updates delete one entry and insert two |
| `Billing!NotOverpaid` | `performance-management.service.ts:218` | two payments both fit |
| `Leave!ApprovedAreTaken` | `hr.service.ts:155` | two approvals count the days of one |
| `Leave!TakenWereApproved` | `hr.service.ts:168` | a rejected request keeps its days taken |
| `ContractDocuments!DocumentIsKept` | `hr.service.ts:262` | the reference to a removed file is written back |
| `Onboarding!RejectedIsGone` | `auth.service.ts:702` | an approval inserts a rejected registration again |
| `Registration!OldCodesStop` | `company-registration.service.ts:131` | settings saved meanwhile bring the previous code back |
| `Roles!QuotasAreEnabled`, `AssignedIsProtected` | `roles.service.ts:264`, `:215` | the flag counts what another call has changed; a role is removed from who just got it |
| `SlaLevels!RemovedIsUnused` | `priority-sla.service.ts:103` | a role names a level that was removed |
| `Catalog!VersionIsWhole`, two updates at once | `products.service.ts:315` | the later update is committed first: a snapshot of its version lacks the other |
| `PhoneCodes!CodeKeepsItsTtl` | `otp.service.ts:137` | a wrong code writes the old session over the new one |
| `WebSession!CookieIsSession`, `ShowsWhoseToken` | `AuthContext.tsx:92`, `:112` | a refresh answered after a logout or an impersonation brings the old session back |
| `OfflineDeliveries!StoredUntilDelivered`, two proofs | `useOfflineDeliveryQueue.ts:42` | an enqueue writes an old queue back and a stored proof is lost |

**A failure or a crash in between:**

| property | code | what happens |
|---|---|---|
| `ContractDocuments!DocumentIsKept`, unlink fails | `hr.controller.ts:216` | the `catch` removes the file the row already names |
| `Onboarding!AccountsAgree`, crash | `employees.service.ts:202` | account and row have different e-mails |
| `Onboarding!InvitedCanActivate`, Keycloak fails | `auth.service.ts:621` | the code is spent, the account is missing, the e-mail cannot be invited again |
| `PhoneCodes!CountsAnHour`, crash | `otp.service.ts:239` | a counter without a time to live: the phone is refused for good |
| `SlaLevels!SomeLevelIsActive`, crash | `priority-sla.service.ts:112` | levels are removed or turned off before an active one is stored |
| `WebSession!CanReturn`, reload | `AuthContext.tsx:84` | the banner is gone, the session is still the other user's |
| `WebSession!ShowsWhoseToken`, `GET /auth/me` fails | `AuthContext.tsx:333` | after the return to the own account the page keeps showing the other user |
| `Billing!PaymentsCount`, the journal refuses | `performance-management.service.ts:220` | the payment is saved, the sum of its invoice is not |
| `Finance!ExpenseIsPosted`, of a payslip | `finance-payroll.service.ts:118-125` | a salary that has a payslip is skipped, so a payslip whose entry failed is never posted |
| `Roles!EnabledWithQuotas`, an INSERT is refused | `roles.service.ts:243` | the quotas are deleted before those of the request are refused: the flag stays without a quota |
| `OfflineDeliveries!FirstProofStays`, incident of a delivered task | `delivery.service.ts:182` | while the order is not delivered yet, an incident opens the task again, and another proof replaces the recipient |
| `OfflineDeliveries!StoredEmpties` | `useOfflineDeliveryQueue.ts:59` | a second proof of a delivered task, or one whose order was put back or rejected, is refused and stored for ever |

**One call alone:**

| property | code | what happens |
|---|---|---|
| `Procurement!OnlyCancelledIsRefused` | `procurement.service.ts:267` | the lines are eager, so the lock of the order is asked on an outer join; PostgreSQL refuses it, as the comment at `order.entity.ts:108-112` says, and with it every reception |
| `Procurement!SentOrdersSomething` | `procurement.service.ts:105` | an order whose lines were deleted, or that never had one, is sent |
| `VipSelfService!LowRefillAlerts` | `vip-self-service.service.ts:344` | a refill that leaves a product low raises no task, although the comment at `:355-358` says so |
| `Finance!ExpenseIsPosted` | `accounting.service.ts:241` | replacing an entry deletes one, so that the next number counted is taken; the posting is refused and only logged |
| `Finance!SalaryPostedOnce` | `accounting.service.ts:370` | an update after the run posts the salary again beside its payslip |
| `Finance!PayslipOfSalary` | `finance-payroll.service.ts:111` | the reversal of a salary is taken for the salary and gets a payslip |
| `Finance!ClosedYearIsKept` | `accounting.service.ts:348` | an entry is deleted from a closed year, and cannot be posted again |
| `Meetings!ResponsibleIsNoParticipant` | `meeting-preparations.service.ts:118` | `assign` does not look at the participants |
| `Onboarding!InvitedCanActivate`, after seven days | `auth.service.ts:536` | the code is gone and the e-mail cannot be invited (`:546`) nor the registration approved (`:665`) again |
| `Registration!AutomaticHasOptions` | `migrations/1786600000000-CompanySelfRegistration.ts:29-31` | a deleted role takes the last option of a company that admits automatically with it |
| `Onboarding!OnlyPendingDeleted` | `auth.service.ts:709` | a rejection deletes whatever employee has the id |
| `AccessCache!AnswerIsCurrent`, `Linked = FALSE` | `access-cache.service.ts:80` | an employee found by e-mail has an entry that no change deletes |
| `AccessCache!StaleWithinTTL` | `jwt.strategy.ts:192` | what was read before a change is stored after its invalidation, for a whole TTL more |
| `Catalog!VersionIsWhole`, `SameTime = TRUE` | `products.service.ts:315` | two updates of one millisecond share a version and a snapshot |
| `Catalog!VersionsRise` | `products.service.ts:323` | an update or a removal that changes nothing publishes an older version again, whose cached snapshot is served |
| `LockPlans!KitchenBeforeBranch` | `inventory-transfers.service.ts:124` | a transfer to the kitchen locks BRANCH first, although `stock-reservation.ts:31` calls the order stable |

## 6. Proofs

Every invariant and every action property of the passing runs is stated by a
theorem, for all values of the constants that satisfy the assumptions; TLC
evaluates these assumptions in every run. Those of `Orders` are
`RequestsAssumption` (finitely many requests, so that sums exist),
`CallersAssumption`, `CatalogueAssumption` (finitely many products, so that a cart
has a sum) and `BoundsAssumption` (quantities are natural numbers). Those of the
services say that bounds are natural numbers, that sets that are summed over are
finite, and that the rows of different tables have different ids and none looks
like `Null`, the missing one. Only `PlansOfRows` fixes values: the plans are
those of the API, which is what the theorem about their deadlocks is about.

**Sums** (`Units_proofs`). `TotalUpdate`: when one row of a table changes, its
sum changes by as much, and no row exceeds the sum. It is proved by splitting the
set of units into the block of that row and the rest. All facts about ledgers
below rest on it.

**Stock** (`Orders_proofs`). `TypeOK` is not inductive: `reserved` and `quantity`
stay natural numbers only because an order never releases or consumes more
than what is there. The inductive invariant is `StockInv == TypeOK /\
ReservedIsHeld /\ ReservedWithinQuantity`. From it, what an order holds is at
most `reserved`, hence at most `quantity` (`HeldWithinReserved`), and an
accepted line fits in both zones (`AllocationFits`). One lemma per action gives
`StockStep`; the theorems `TypeCorrect`, `ReservedIsAlwaysHeld` and
`NeverOverReserved` follow.

**Identity and statuses** (`Orders_proofs`). Every step either commits one
creation or leaves the stored orders, their keys and their numbers alone
(`OrdersStep`). With the guard of the commit this gives `OneOrderPerKeyHolds` and
`OrderNumbersGaplessHolds`. `EveryLifeStep` says from which statuses each status
is reached (`MoveSources`, over all the transition tables). With the invariant
`NotStartedEarly` it gives `OneCookStartsHolds` and `TerminalIsFinalHolds`.

**Quota** (`OrdersQuota_proofs`). `QuotaFollowsTheOrder` is inductive together
with `TypeOK` and `NotStartedEarly`, which says that a cancelled order was never
started. `UsedIsCharged` needs less, which is why it also holds under incidents:
only accepted lines of a request whose creation began cost anything
(`OnlyLinesCharged`), so a request that may still change its employee or its
period costs nothing, and a line is charged once. The cap at zero of the
restitution is therefore never reached. `QuotaNeverExceeded` needs `TypeOK` only:
usage grows in `AcceptLine` alone, under its guard.

**Backing** (`OrdersQuota_proofs`). `EveryOrderIsBacked` is inductive together
with `StockInv` and `NotStartedEarly`. The sum `Promised` ranges over the
accepted lines of a cart, so accepting a line adds one row to it
(`PromiseGrows`, from `TotalSplit`), and the two zones together give the line
exactly what it needs (`AllocationIsNeed`). `NotStartedEarly` says that a
request still being created, or an order still to start, has consumed nothing.

**Refinement** (`OrdersQuota_proofs`). `OrdersImplementPromises`: every step of
`Orders` is a step of `OrderPromises` or is `Unseen` there. The commit of a creation
is `Place`: what the committed orders are promised, with the new one, is at most
what all orders hold, which is `reserved` and hence at most `quantity`
(`TotalMonotone`); what they cost on an account is at most `used`, and that at
most the quota; and the next number is one more than the orders stored. A
rejection after the start is unseen because such an order holds nothing
(`StartedHoldsNothing`), and a count is `Count` because of the CHECK of the table.

**Deliveries** (`Delivery_proofs`). `DeliveryService` writes `orders.status` behind
the back of `OrdersService`, so `NotStartedEarly`, `QuotaFollowsTheOrder` and
`EveryOrderIsBacked` no longer hold (section 4). Every step is a step of `Orders` or
overwrites the status of one stored order and nothing else (`OrderSide`); that it
is stored needs `PreviousStored`, since an incident writes back a recorded status.
`LedgerInv` has what survives this: the stock and usage ledgers
(`LedgersAlwaysAgree`, `QuotaNeverExceededByDeliveries`). `StockIsTakenOnce` rests on
`TakenInv`: what an order holds and has consumed only grows with a line that it
accepts, and a revived order that starts again consumes no more than it holds.
`DeliveredWasAlwaysPrepared` adds that a recorded status among the cooked ones was
recorded after a cook started the order (`PreparedInv`). The two action properties
follow step by step (`OnlyIncidentsReopenHolds`, `CourierKeepsTheOrderHolds`).

**Stale profiles** (`Platform_proofs`), for every TTL, delay, number of calls and
roles, with Redis failing at any command. `StaleIsBounded` alone is not inductive:
an entry is stored by a request that read the profile earlier. `AccessInv` adds
that no call is older than `MaxDelay` (`InTime`), that what a request is about to
store was current when the request began (`ReadSinceBegin`) and hence that
an entry expires within `TTL + MaxDelay` of its replacement (`ExpiresInTime`);
a request for a role under test never reaches the store (`StoresReal`). `Sound`
is what this says of one call, so that a step of one call is checked once
(`CallStep`, `CacheStep`). `StaleBound`, `AccessTypes` and `CacheStaysReal` follow.
With one call at a time and Redis up, `AloneInv` says that an entry is current
unless the change that is under way is about to delete it, and that a call past
the entry or past the employee holds the current profile: the answer is current.

**Locks** (`Platform_proofs`), for every set of transactions, rows and plans.
`LockIInv` says that a transaction holds only places of its plan before the one
it asks for. A lock is given on a row nobody holds, so two transactions never hold
one row (`RowsAreExclusive`). If every plan goes upwards in some rank, the row a
transaction waits for is above all it holds (`Upwards`); among those that wait, the
one that holds the highest row would wait for a higher one, so nobody is stuck
(`OrderedNoDeadlock`). The order of this code is documents, quota, KITCHEN, BRANCH,
counter; the plans of `OrderedPlans` go upwards in it (`OrderedAlone`), and a
deadlock has one of those named by `Inverts` (`InvertersAlone`,
`DeadlocksAreAlwaysInversions`).

**Calls that find, assign and save.** The invariants of the services built on
`Saves` have one form: the types of rows and calls, and for each call a predicate
`...Fits(call)` that says what it holds at each of its steps: which entity,
compared with which row, about to write what. With calls that race, it may
mention only what other calls never take back (a status that is final, an entry that
is posted, a number of arrivals that only grows). With one call at a time it
may say that the row still is what the call found. This is the difference
between the properties that need no *alone* and those that do.

**Units of transfers** (`Goods_proofs`). `UnitsKept` is not inductive: that a
confirmation moves units once depends on the transfer being PENDING, and a
`cancel` may save its old entity over any status. `TransferInv` adds that a
transfer that is PENDING was not moved (`PendingIsUnmoved`) and that the only
saves under way set CANCELLED (`CancelsItsTransfer`), so that no save makes a moved
transfer PENDING again. One confirmation is a `TotalMove`: the sum over zones
stays when one row loses what another gains.

**Statuses of transfers and requests** (`Goods_proofs`). The six calls of a
fulfilment interleave with everything, and units may be lost; what holds is that
no status is ahead. Three things only grow: the rows that exist, the note of
a transfer, the count of its arrivals. `RefillInv` says of each call that
it has seen the arrival it is about to record, and since that is never taken
back, it is still there when the status is written.

**Rooms and cleanings** (`Goods_proofs`). The exclusion constraint is asked
again with every write, hence `BookingInv` needs no more than types: whatever a
call holds, an insert or an update that overlaps is refused (`RoomsAreBookedOnce`).
A preparation is completed after its cleaning task was seen or created, and no
step deletes a row (`RoomInv`). That a READY room has every mark needs that the row
is as the call found it, thus one call at a time. A cleaning that
starts has its agent because as long as the row has none, a save
differs from it both in agent and in status (`SavesBoth`).

**Purchases and VIP places** (`Goods_proofs`). `PurchaseInv` follows the call that
edits: its order is a draft from the deletion of the lines to the save, also when
it stops in between, so the lines of an order that was submitted are those of the
submission. `VipInv`
says that a call about to create a task found none open, and `TakenInv` that what
left the zones is what was put plus what the call holds (`InFlight`).

**Catalogue and codes** (`Platform_proofs`). `SharedInv` says that whoever
reads the products for a version finds its update, since that was saved before it
was published, and that who computes a key is the one its flight names.
`SpacedInv`, with one update at a time, adds that a committed update has an
`updated_at` of its own below that of the one under way (`TimesFit`), and that
whoever has read the products for a version missed none up to it (`WholeAnswers`).
`CodedInv` says that every session has the last code except the one being
replaced, `CodesInv` that a call that sets or writes back a time to live does it
for the code it read.

**Page and offline queue** (`Platform_proofs`). In `WebSession` a state has no
request under way, or one; `PageInv` and `SessionInv` say what page, cookies
and Keycloak are in either case, in which an answer carries what the page will be.
`QueueInv` relates the device, the wire and the API: each flush that waits has one
request on the wire, a request that is committed has recorded its proof
(`WireFits`), and a flush that was told of the delivery, or a queue without its
proof, means that such a request ended well (`DeviceFits`). It is about one
proof, for any number of flushes, incidents and ends of the application; two
proofs lose one another (section 5), but no more than an incident lets one
recipient replace the other (`ProofsAlwaysStay`).

**Documents, roles, levels, registration** (`Office_proofs`). Each has one call at
a time and up to three instances, from no faults to all. The steps are proved
once, for the instance in which everything may fail, and the invariant has a
common part (`DocumentInv`, `RoleInv`, `LevelInv`, `CompanyInv`) and one for each
claim: `KeepsDocument` says that the file the row names is kept and is not the one
about to be removed, `KeepsSome` only that another one is left, `KeepsNoOther` that
no file is kept but those the row and the call know; `KeepsEnabled` that every
role with a quota has them enabled, but the one the call is about to enable.

**Leave** (`Books_proofs`). An approval locks the request, not the balance, and
writes the whole balance it read. `AbsenceInv` says that this balance has room for
the days it adds (`Approving`), hence no write exceeds what it entitles to, even
when two of them overwrite each other. The approval also has the lock of a request
that is pending, and nobody else writes that request until it ends, which is why a
rejected one stays rejected (`RejectedLeavesStay`). With one call, `AloneInv` adds
that what the call found is still so, and `Counted`: the days taken are the sum
over the approved requests (`TotalUpdate`).

**Journal and payroll** (`Books_proofs`). `BookInv(S, max)` is stated for any calls
`S` and any length `max`, since the instances share it. A line that a call is about
to write is the stored one unless that was removed, two calls that hold one line
hold the same record (`BookFound`), and a run that is about to replace the simple
entry of a salary has posted the detailed one, which is why
`PayrollKeepsEntry` holds. Numbers are drawn by counting; that none is used twice
is left to the unique index (`EntriesSound`). `AloneBooks` adds what needs one call:
what is about to be posted has no entry yet, and a year about to close has no draft.
`PaidInv` says that only the run that holds the lock is past its start, that every
detailed entry belongs to a payslip and that no line has two of them.

**Invoices** (`Books_proofs`). `BillInv`: an entity whose invoice was issued, and
a month about to be marked, are in the journal already; entries are only added,
hence a crash or a refusal at any step leaves the row behind the journal, never
ahead. The sums need one call at a time: what it holds is the invoice
as it is or as it is about to be saved. They count the payments the journal took,
since one that it refuses is on record without its sum (section 5).

**Accounts** (`Books_proofs`). Three claims with three kinds of faults, each of
which needs the invariant before it. `StaffInv` says which rows a call may be
about to make active and that codes are given to admitted employees only; it
suffices for *nobody active unapproved*, with all faults. `MailInv` adds that accounts
have the e-mail of their rows except the one being renamed, which a refused save
undoes. `SmoothInv` adds, when nothing fails, that who is invited has a code, had
one that expired or is about to have one. The steps of all three are those of the instance in which
everything may fail. `HireInv` is for calls that race: the unique constraint on the
account is asked at every insert and update, so no two rows share one, whatever
the calls hold.

**Services together.** In `goods`, `office` and `platform` each step moves one
service. A lemma `...OnlyMoveThere` for each says that a step is one of that service
or leaves its variables alone; with the invariant of the service it gives the
theorem about the property that the run checks. `DecisionsAlwaysStand` does this for
an action property: each service keeps its own decisions, and a step of
another changes nothing that was decided.

**Only model-checked.** Liveness (`EveryRequestIsAnswered` and the run `live`), which
is out of the prover's reach; `InventoryEdit` and the other properties that a run
expects to be violated, which are false. The definitions of section 5 are
refuted under the conditions stated there and are neither run nor proved.
No proof needs induction over data: what is recursive is a sum, and that is
defined by a cardinality (`Units`).

## 7. Not modelled

- *Notifications, reporting, metrics, audit*: output that no other component reads.
- *Suppliers, meeting packages, company documents, operational zones*, and the
  columns of employees, products, branches, rooms, contracts and roles that are
  written as they come: single statements without a second row to keep in step.
  So is the removal of a meeting room, which takes its meetings with it.
- *Screens* of the web administration and of the two applications: they show and
  send what the API decides. Together with their translations, the DTOs, entities,
  migrations and seeds they are by far most of the lines of the repository, which
  is why the map covers a small share of them. What keeps state of its own, the
  session of the page and the offline queue, is modelled.
- *Login by password, token refresh and revocation*: Keycloak's.
- *Amounts, taxes, dates and rounding*: computations without a state between them.
- *The legacy quota of callers without a role* and its table `quotas`.

## 8. Plan

Done: everything above. What would add most next, in this order:

1. The requests for cleaning stock, and the assignments of operational zones beside
   the deliveries they route.
2. Failed logins, which count like the requests for codes.
3. Refinements of the services: a transfer or an approval as one step, as
   `OrderPromises` is for the orders.
