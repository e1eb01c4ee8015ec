# Bossi in TLA+

Bossi is a multi-tenant back office (customers, billing, orders, leads, documents, signing,
retainers) written in TypeScript over Postgres: a Next.js application
(`src/apps/web`), data access (`src/packages/db`), pure business rules (`src/packages/core`) and
a module system (`src/packages/kernel`, `src/packages/modules`). This directory holds models of
its state-changing code, the TLC runs that check them, and TLAPS proofs about them.

The program itself is sequential JavaScript; what makes it hard is that **every operation is a
database transaction that runs beside others**. `withTenant` / `withPrincipal` / `withPlatform`
(`packages/db/src/client.ts`) take a connection, `BEGIN`, run the callback's statements one
after the other and `COMMIT` or `ROLLBACK`. No code sets an isolation level, so Postgres runs
them READ COMMITTED, and hardly any statement says `FOR UPDATE`. A check made by one statement may
be stale for the next one. The tests run one call after the other; the models do not.

## 1. Inventory

| component | state | operations | what must hold | hard part |
|---|---|---|---|---|
| **Billing** `billing.ts`, `0009_money.sql`, `core/money`, pages of billing and collections | `invoices`, `payments`, `payment_allocations`, promises, reminders | `createInvoice`, `recordPayment`; ageing, balances, the queue of calls | paid means covered; covered means paid; a payment arrives whole or not at all; four sums of one debt agree | each closing UPDATE sums what it can see; row locks in the order of the allocations; the day an invoice becomes late |
| **Orders and stock** `commerce.ts`, `0010_…sql`, `core/commerce`, `app/(app)/orders` | `orders`, `order_lines`, `inventory_levels` | `nextOrderNumber`, `createOrder`, `approveOrder`, `rejectOrder`, `setStock`; the board of production | stock adds up; one reservation per order; no number twice, and drawing skips none; decisions stand | numbers drawn as `max + 1` beside numbers that are brought, `UPDATE … FROM`, two deciders, lock order; pages that are outdated |
| **Staff login** `auth.ts`, `0004_auth.sql`, `0006_demo_login.sql` | `login_tokens`, `sessions`, `users.status` | request, click, resolve, revoke, purge, demo session | a link opens one session, in time, for its user; one open link | double clicks, overlapping requests, `now()` is the start of the transaction |
| **Leads** `leads.ts`, `0015_leads.sql`, `0016_…sql`, `app/(app)/leads` | `leads`, the `customers` made from them | create, stage, convert, delete; deletion of a customer | won means linked, until the customer is deleted; one customer per lead | read without lock, UPDATE by id; `ON DELETE SET NULL` |
| **Migrations** `migrate.ts` | `_migrations` and the schema | `migrate` | in order, once, all or nothing; a run that returns leaves its schema | every console sign-in runs it, from any build |
| **Transactions** `client.ts` | connection, `app.tenant_id`, `app.principal` | `withTenant`, `withPrincipal`, `withPlatform` | commit or nothing | inside each model |
| **Platform sign-in** `platform-auth.ts`, `0011_…sql` | `platform_sessions`, `platform_audit` | sign in, resolve, sign out, purge | failures of a window are bounded | count first, record later |
| **Feature packages** `feature-packages.ts`, `platform.ts`, `0012_…sql` | `feature_packages`, `feature_package_modules`, `tenant_modules` | create, update, delete, copy, apply; toggle a module | a tenant has the modules of its package | package read in another transaction; two applications at once |
| **Module kernel** `kernel`, `modules` | a tenant's composition | close, sort, wire, dispatch | the least closed set, dependencies first, or an error with a reason; no handler listens to silence | a depth-first search, ports, conditional slots |
| **Documents** `documents.ts`, upload route | `documents`, stored files | upload, classify, assign, retype | rows and files account for each other; one file per content | look-up, store, insert are three steps |
| **Document shares** `shares.ts`, `0014_…sql`, `file-signing.ts` | `document_shares`, signed addresses | issue (also in bulk), revoke, resolve, read | what is revoked or has expired dies soon | an address outlives the link it came from |
| **Checks** `checks.ts`, `core/checks` | `checks`, evidence | create, mark, reconcile | no check that is due is lost from a page | marks from outdated pages; months |
| **Leases, retainers, signing** `leases.ts`, `retainers.ts`, `signing.ts` with `core` | `leases`, `properties`, `retainer_periods`, consumption, `signing_requests` | create, open, log, mark; radar, burn rate, groups | a warning only rises | windows that overlap, updates without a guard |
| **Alerts and dashboard** `core/alerts`, `lib/alerts.ts` | none | feed, build, group | every screen asks for the same decisions, once | lists that are cut, modules that are off |
| **Portal users** `portal.ts` | `portal_users` | invite | only what the modules offer | — |
| **Demonstration** `db/src/demo`, `admin/system`, `cli/demo.ts` | the demo tenants | reset, seed | what is half made was interrupted; each scenario shows what it is named for | a run is many transactions, and runs overlap |
| **Prospects**, customers, notes, permissions, templates, AI, integrations | rows edited one at a time | — | — | see *Not modelled* |

How they interact: pages and server actions (`apps/web/app`) call the operations of `packages/db`;
operations share tables, never memory. Orders read customers' balances through `core`'s order gate
(advice to the person who approves, not a guard of the UPDATE); leads insert customers; a console
sign-in runs `migrate()` and `seedDefaultPackages()` first; a feature package writes the
`tenant_modules` that the kernel composes into navigation, slots and handlers, and that decide what
feeds the alerts; the demonstration writes the rows of nearly all of them. Only Postgres rows (and
stored files) survive a crash, so a crash is a ROLLBACK of each open transaction at any point;
models of sessions have that step (`Fail`), and models of requests that are several transactions may
stop between any two (`FailUpload`, `LoseTry`, `Interrupt`).

The hazards, each at its line and with the properties that watch it, are the `hazards` of
`PROJECT.json`.

## 2. How the code is modelled

A *call* is one run of an operation in its transaction. Its state is a program counter, what it
has read, and the rows it has written but not committed. One action is one SQL statement, or one
row of a statement that locks several rows one after another:

* a statement sees the **committed** rows at its start and the call's own writes (READ
  COMMITTED);
* an UPDATE of a row that another open call has written **waits**, and then evaluates its WHERE
  again on the committed row (the guard of the action); an INSERT waits the same way for an open
  call with the same unique key. For a WHERE with a subquery (`recordPayment`) Postgres evaluates
  the subquery again on the *old* snapshot; sums of allocations never shrink, so the outcome is the
  one the model has;
* `Commit` publishes all writes and frees the locks; `Rollback` drops them. `Fail` is a lost
  connection, a killed process or a failing statement, at any point of an open call;
* a cycle of waiting calls is a deadlock: `DeadlockVictim` aborts one member.

The tables in the models are committed rows. Each model is of **one tenant**: row level security
keeps the rows of others out of every statement, and no operation here crosses tenants.
History variables (`overlap`, `since`, `shelf`, `opened`, `raced`, `effects`, …) are written by actions
and read only by properties.

| module | models | correspondence |
|---|---|---|
| `Ledger` | the promise of billing, without sessions | `Issue` = createInvoice; `Settle` = everything a committed payment may do |
| `Billing` | `createInvoice`, `recordPayment` | `InsertAllocation` and `CloseInvoice` are the two statements of the loop; `own` are the call's allocation rows, `wrote` the invoices it closed |
| `OrderBook` | the promise of orders and stock, without calls and locks | one step each: `Place` with a number that is drawn or brought and that no other order has, `Approve` with all that it takes of the stock, `Reject`, which gives nothing back, `Synchronise` |
| `Orders` | numbers, orders, reservations, stock | `NextOrderNumber` (the form) or `SupplyNumber` (a queue, a synchronisation, the demonstration, with a status of its own) → `InsertOrder`, which are `createOrder`; `ApproveOrder` → `Reserve` (one stock row each); `RejectOrder`; `Restock`; `NotMatched` is the early `return false` |
| `SignIn` | the promise of the staff login, without calls and locks | `Issue` a link to the one active user of an address, `Exchange` it once for a session, `Demonstrate`, `Revoke`, `Purge` |
| `Auth` | links, sessions, demo sessions, purge | `FindUser` → `CancelOpenLink`* → `CommitRequest` is `auth_issue_login_token`; `ConsumeLink` → `CommitSession` is `auth_consume_login_token` |
| `Leads` | create, stage, convert, delete; deletion of a customer | `GetLead` → `CreateCustomer` → `MarkWon` is `convertLead`; `DeleteCustomer` → `Unlink` → `CommitRemoval` is `DELETE FROM customers` with the foreign key `leads_converted_customer_fk` |
| `Schema` | the promise of `migrate()`, without runs | `Advance`: the next text of some build is appended to what was run |
| `Migrate` | `migrate()` by several builds | `FindTable` … `CommitTable` is `CREATE TABLE IF NOT EXISTS`; the loop is `Skip`, `Changed`, `RunMigration`, `CommitMigration` |
| `Packages` | create, edit, delete, seed, apply, toggle | `Seed` → `InsertIfMissing`* → `CommitSeed` is `seedDefaultPackages`; `GetPackage` → `CopyPackage` is `duplicateFeaturePackage`; `GetPackage` → `Apply` → `DisableModule`* → `Disabled` → `EnableModule`* → `CommitApplication` is `applyFeaturePackageToTenant` |
| `Assembly` | the promise of the registry | one step: `Answer`, with the least closed set or with an error |
| `Compose` | `resolveTenant` | `Expand` is the worklist of `expandRequirements`; `Root`, `Descend`, `Leave` the recursion of `topologicalOrder` as a path of open nodes; `Wire` one module of the loop over ports and slots. Lists whose order only decides the order of the result are sets, taken in any order |
| `Manifests` | the declared modules, presets, plans and quotas | data: one record per module |
| `Shell` | what a tenant gets | `ToggleModule` and `ChangePlan` of the console, `Use` of a meter; sidebar, routes and `evaluateUsage` as operators |
| `Collections` | what is owed and whom to call | `CustomerBalance` is the SQL, `Aging` and `CasesFromInvoices` the TypeScript; `LogPromise`, `SendReminder`, `OrderGate`, three pages |
| `Checks` | post-dated checks | `MarkFromPage` and `MarkFromCustomer` are buttons, the first of a page that may be outdated |
| `Records` | retainers, leases, signatures | `OpenPeriod` is the upsert, `MarkSigningStatus` the unguarded UPDATE; `UrgencyOf` and `Burning` the rules of `core` |
| `Alerts` | the list of alerts, composed of `Shell`, `Checks`, `Records` | `ChecksFed`, `PapersFed`, `LeasesFed`, `Quiet` are `loadAlerts`; `BuildAlerts` is `buildAlerts`; `Dashboard` |
| `Board`, `Stock`, `Portal` | production, availability, portal | `SetStage`, `Notify`; `StockStatus`; `Invited` |
| `Demo` | the demonstration, composed of the five above and `Collections` | `StartRun` … `SeedPart` are the transactions of a run, `Interrupt` its end at any point; `Seed*` the scenarios |
| `Intake` | uploads, corrections, shares, signed addresses | `FindByHash` → `StoreFile` → `InsertDocument` is one file of the POST; `ShareDocuments`, `RevokeShare`, `ResolveTitle`, `OpenShare` |
| `Console` | sign-in to the console | `Attempt` → `Judge` → `RecordFailure`, or `OpenSession` → `RecordSuccess` |
| `MC*` | instances | constants, and the bounds below |
| `*Proofs` | theorems | section 5 |

In `Intake`, `Console` and `Demo` one action is one **transaction** (or one call of the storage): a
request is several of them, and what it read in one may be outdated in the next. In `Checks`,
`Records`, `Board` and `Collections` an action is one whole server action, and what a person
pressed may come from a page that was opened earlier. `Compose` is a synchronous loop.

What callers there are today: `recordPayment`, `createInvoice`, `setStock`, `createCheck`,
`createLease`, `createRetainer`, `openPeriod`, `logConsumption`, `createSigningRequest`,
`markSigningStatus` and `invitePortalUser` are called by the demonstration only (the buttons of the
signing page have no handler); `purgeExpired`, `setPortalUserStatus` and `setLeadFollowUp` by
nobody. They are exported operations of the package and are modelled for any caller, except the last
two, which touch what nothing modelled reads.

## 3. Runs

| run | instance and bounds | shows |
|---|---|---|
| `billing` | 3 payments, 3 invoices of 2 agorot (one issued as paid), 7 allocation lists: half, whole, two invoices in both orders, the same one twice, a paid one, none | invariants, termination, and refinement of `Ledger` |
| `billing_race` | the same | **violated**: two halves that overlap leave the invoice open |
| `orders` | 2 connections that run calls without end, 2 orders with 6 lines (two lines of one product, one free-text line), 2 products, stock overwritten with 0; two orders that are brought: a shipped one with the number that is drawn first, an approved one of another series, further on | invariants, termination, and refinement of `OrderBook` |
| `orders_lines` | the same | **violated**: of two lines of one product one is reserved |
| `auth` | 2 connections, 3 links, 2 users of one address either of whom may be inactive, clock 0–2, link lifetime 1, session lifetime 2, demo session 1 | links and sessions, and refinement of `SignIn` |
| `auth_race` | the same | **violated**: overlapping requests leave two open links |
| `leads` | 2 connections, 2 leads, 3 customers, symmetric | links of leads and customers, also when customers are deleted |
| `leads_race` | the same | **violated**: overlapping conversions make two customers |
| `migrate` | 3 runs, 3 builds (2 migrations, 3 migrations, 3 with an edited second text) | all or nothing, schema at return, termination, and refinement of `Schema` |
| `packages` | 2 connections, 3 modules; a default package of all three that may be deleted and come back once, a package of the administrator with two of them in the opposite order | defaults, what an application leaves, termination |
| `office` | the parts that share no state, side by side: a behaviour starts in one of 16 areas and moves only there (below) | composition and its refinement, agreement of the screens, uploads, links, sign-ins, the demonstration |
| `office_alerts` | the same | **violated**: a check that bounced is not an alert |

The areas of `office` (their bounds are the constants of `MCOffice.cfg`; 323,621 states):

| area | instance | properties it is for |
|---|---|---|
| `compose` | every graph of requirements over 3 modules without a self-loop in two of them, and one that needs an unknown module; every request, unknown module included; 2 ports, one module that provides each and two that consume; conditional slots | `ComposeRefines`, `EveryRequestEnds` |
| `shell`, `plan` | every preset, and 8 modules that are toggled in any order; 3 plans, every meter, use at, below and above the quotas | `HandlersAreFed` |
| `checks` | 2 checks due in different months, days 0–5, months of 2 days, pages opened and outdated | `NothingDueIsSilent` |
| `alerts` | the same checks, a lease, a document, a customer, two sets of modules, days 0 and 4 | `NothingDueIsSilent` |
| `hours`, `lease`, `sign` | 1 retainer with 2 periods, leases of 90 and 150 days with notice of 60 and 100, 1 request; days 0–600 at the edges | `WarningsOnlyRise` |
| `debt` | 3 invoices of 2 customers; days 0, 15, 31, 120; promises of a day; lists of 2 rows | `DebtIsCountedOnce` |
| `demo` | the console's run and the script's run, 2 tenants (one of the general kind, the estate), 4 ids; interrupted anywhere | `DemoOrphansWereInterrupted` |
| `story` | each scenario seeded alone, on different days | `StoryIsTold` |
| `upload`, `share` | 2 contents, 2 uploads of 2 files (one sends the same file twice); 2 links, clock 0–3, link 2, address 1 | `FilesAreAccountedFor`, `LinksDieSoon` |
| `attempts`, `console` | 2 requests, one address or none, 2 failures in 2 minutes; one request with sessions, changes of the environment and the purge | `AttemptsAreBounded` |
| `board` | 2 lines of 2 orders, one without a colour | `OfficeTypeOK`: only what was ready is announced or notified |

Why the bounds are enough for the cases at stake. The races are between two calls; billing and
migrations have a third that commits between the steps of the others. Two rows in opposite orders
are the smallest deadlock. Half and whole amounts reach both sides of `amount <= sum`, with
equality. Orders needs the second order for a number that is taken, and a product with two lines for
`UPDATE … FROM`; the two orders that are brought make a drawn number collide with one that was not
drawn, and follow one of another series. Three links are needed so that a request cancels one and another overlaps it;
lifetime 1 and clock 2 put a click before, at and after the expiry. Three customers let one lead be
converted twice while the other is converted too. Three migrations with builds of two and three give
a run that is behind, level and ahead. Packages needs two lists that overlap in opposite orders, and
a module that only one of them has: a deadlock, and a tenant that can end with too much. Its rows
are used up (`NoIdLeft` ends a call that would need another one), as are links, leads and customers
in their models. No state constraint is used; the sets above are the only bounds. Symmetry of
connections, leads and customers is used in `Leads`, whose definitions name none of them and which
states no liveness; elsewhere constants break it or liveness is checked.

In `office` three modules are the smallest number for a cycle behind a module that was asked for,
for a dependency that two share, and for a provider that stands before or after its
consumer; on day 31 an invoice of day 15 is late for
the first day, and on day 120 for the ninetieth, when another is beyond ninety; two failures and
two requests are the smallest limit that one request under way exceeds. The registry that ships is not
an instance of `compose` (its graph has no cycle): it is `Manifests`, which `shell` composes.

`CHECK_DEADLOCK FALSE` is set where every call runs at most once (billing, migrate), and in `office`,
where a composition is answered once and clocks and rows are used up.

### Disagreements between the code and what is said of it

* `CoveredIsClosed` (`billing.ts:210`): "an invoice that is fully covered changes status at
  once". Two payments that overlap each sum without the other, and neither closes it; no later
  step does. `CoveredOpenWasRaced` says that this is the only way.
* `ApprovalReservesEveryLine` (`commerce.ts:337`): approval reserves what it promises.
  `UPDATE inventory_levels … FROM order_lines` writes a stock row once, whatever the number of
  lines of that product; the form of `orders/new` allows two.
* `OneOpenLink` (`0004_auth.sql:102`): "a new request cancels the old link". It cancels the
  committed ones.
* `OneCustomerPerLead` (`leads.test.ts:87`): a lead that is won or lost is not converted again.
  `convertLead` checks the stage before it inserts the customer and not in its UPDATE.

* `BouncedIsRaised` (`core/src/alerts/build.ts:13`): a check that bounced outranks most alerts.
  `loadAlerts` feeds only checks that are not marked, so that one leaves the list as soon as somebody
  marks it as bounced. `NothingDueIsSilent` says what the list does hold.

The others have a passing companion each (`CoveredOpenWasRaced`, `ReservedOnce`, `OpenLinksWereRaced`,
`DuplicatesWereRaced`) that says how far the promise does hold.

One more disagreement has no run of its own, since a passing property already names it:
`applyFeaturePackageToTenant` "replaces, does not add" (`feature-packages.ts:160`), but the UPDATE
that disables cannot see rows that another transaction is about to insert. `ReplacesUnlessRaced`
says that this is its only exception.

Differences of the same kind that are part of the models, without a run of their own:

* **Kernel and shell.** A handler may use any port that somebody of the composition provides
  (`dispatch.ts:32`), not only those its module declares, as `types.ts:77` says. A tenant without
  modules gets those of the starter plan (`navigation.ts:34`), and a page does not ask whether its
  module is on. The quotas that the page of the plan calls hard are enforced nowhere.
* **Money.** `listInvoices` returns 500 rows, so ageing is cut beyond (`ListLimit`); the page of a
  customer badges an invoice as late on the day it is due (`customers/[id]/billing/page.tsx:76`), a day
  before ageing does; a promise never becomes kept or broken; the order gate is shown and not checked
  by `approveOrder`.
* **Checks.** `markCheck` has no guard: the last of two outdated pages wins, and `void` publishes
  `checks.bounced`. Checks that bounced or were paid in part are not dragged into the next month; the
  page of a later month lists checks as overdue that are not due yet.
* **Agreements.** `openPeriod` changes the quota of a period that is billed and `logConsumption` adds
  to it (`retainers.ts:140`); a quota of 0 is never overrun; `createLease` makes a property rented
  whatever the status of the lease, and nothing frees it; `markSigningStatus` leads from any status
  to any other; a lease of 150 days with a notice of 120 is due though the demonstration calls it calm.
* **Orders and production.** An order that was approved keeps its reservation when it is rejected, and
  `setStock` overwrites what approvals added since its value was taken; neither is called wrong by a
  comment or a test. `notified_at` is never cleared: a line that is made ready again is not listed for
  notification. A filter with an empty colour finds nothing.
* **Documents.** A signed address outlives the revocation of its link (`LinksDieSoon` bounds it); the
  page of a link resolves it twice; an upload that fails half-way leaves the rows and files it made, and
  sending it again makes the rows twice; a document that expires and waits for review counts twice on
  the dashboard.
* **Console.** Failures are counted before they are recorded, and never without an address; the
  session is committed before its entry in the audit; `platform_purge_expired` is refused by the
  trigger of the table once a row is old enough.
* **Demonstration.** A run that stops between `createTenant` and `is_demo = true` leaves a tenant that
  the console refuses to reseed and that the script skips for ever.

## 4. Fairness

* `Billing`: weak fairness of each call's statements and of the deadlock detector. The driver
  awaits each statement and sends the next; a call waits only for calls that end, and a
  call's turn, once it may proceed, is not taken away because no other payment can lock an
  invoice that is paid by then. Nothing says that a payment is recorded or a connection lost.
* `Orders`, `Migrate`, `Packages`: **strong** fairness of each call's statements. Connections run
  calls without end here, so a row may be locked again and again; Postgres serves a row's and a
  key's waiters in the order they came, so none is overtaken for ever, and strong fairness is that
  order seen from the waiter.
* `Compose` (in `OfficeSpec`): weak fairness of its steps. `resolveTenant` is one synchronous loop
  without an `await`: nothing can stand between two of its steps. The other areas have no fairness;
  people may stop at any time.
* `Auth`, `Leads`: no liveness is stated and no fairness assumed.
* No model assumes that anyone makes a call, that `Fail` happens, or that it does not.

## 5. Proofs

Proved by TLAPS for every value of the constants that meets the `ASSUME` of the module:

| assumption | of the constants |
|---|---|
| `BillingAssumption` | amounts are positive, statuses are those of the CHECK constraint, allocation lists are sequences of positive amounts on invoices |
| `OrdersAssumption` | quantities are positive; orders and products are finite sets; a number that is brought ends in one row of digits or in none, and its status is one that the table knows |
| `AuthAssumption` | lifetimes are numbers, the owner of the demonstration is a user |
| `LeadsAssumption` | null is neither a lead nor a customer |
| `ConsoleAssumption` | the limit is positive, lifetimes are numbers, requests are finitely many, null is no address |
| `MigrateAssumption` | a build has a beginning of the list of files, and null is no checksum |
| `PackagesAssumption` | lists are sequences of modules, of which there are finitely many; no default package is named twice (`slug` is unique) |
| `ComposeAssumption`, `IntakeAssumption` | types; an upload sends a file |
| `CollectionsAssumption`, `ChecksAssumption` | finite tables, amounts and days that are numbers; a month has a day |
| `RecordsAssumption`, `AlertsAssumption` | the same; ids of different tables are never equal (they are UUIDs) |
| `ShellAssumption`, `DemoAssumption`, `BoardAssumption` | what is toggled is in the registry; slugs are a list of strings, none of them of a real tenant; a bound is a number |

The eight modules:

**`BillingProofs`** — `Billing`, for any number of invoices, payments and allocation lists, and
`Collections`, for any customers, invoices, terms and days.

* `TypeCorrect`, `PaidCovered` (`PaidIsCovered`), `StaleOpenNeedsRace` (`CoveredOpenWasRaced`),
  `Implementation` (`ImplementsLedger`), all from `Invariance` of `IInv`.
* `PaidIsCovered` is not inductive: a commit turns invoices paid because of an UPDATE that ran
  earlier. `IInv` therefore says of each *open* call that an invoice it closed is covered by the
  committed sum and the call's own allocation, and that two open calls never
  hold one invoice. For `CoveredOpenWasRaced` it says of each call that an invoice it left open, though
  it is now covered, got the missing money from a committed payment that overlaps it.
* `Implementation` maps the session state away: every step is `Issue`, `Settle`, or a stutter; only
  `Commit` is a `Settle`. That an invoice is covered *more* in the step that closes it needs that
  the closer owns a positive allocation of it.
* `OnlySplitPaymentsDeadlock`: in a circle of payments that wait for each other, each allocates to two
  invoices, because it holds the lock of one, and nobody else does, and waits for another. A payment on one
  invoice is never aborted by the detector.
* `DebtAgrees` (`DebtIsCountedOnce`): the invariant is about types alone; the property is one of sums.
  Both the buckets and the balances of customers partition the invoices that are open, so each total is
  the sum over the invoices (`Sums`), and somebody is late exactly when one of the summands is.

**`OrdersProofs`** — `Orders`, for any number of orders, lines, products and connections.

* `TypeCorrect`, `Numbered` (`NumbersFollow`), `OneReservation` (`ReservedOnce`), `Decisions`
  (`DecisionsStand`, which no run checks by itself since `OrderBook` has it in its guards), from
  `Invariance`.
* `Numbered`, for any series, any first number and any orders that are brought: no order is ever
  deleted, so what a drawn number follows when it is drawn it still follows when it is committed,
  whatever was brought meanwhile; and a number that is inserted is free, as two calls that insert one
  number never pass `orders_number_uq` together. For decisions, a call that has written an order has it
  alone, and it is still as the UPDATE found it.
* `NoReservationLost` (`AllocationAddsUp`): an approval adds to the stock what it computed from the row
  it read before. The invariant says that the row which a call has written is still what it read, and
  that nothing was reserved yet of the order it is approving; at the commit one summand changes, or
  none, and `setStock` starts all of them again.
* `Implementation` (`ImplementsOrderBook`): what is committed changes by steps of `OrderBook` only. A number
  is free when it is committed, though it was drawn or brought before. An approval publishes in one step what
  it wrote row by row, and that it takes a line of *every* product that was in stock when the order was
  placed needs a plan: every such product is still to be visited or was written (`PlanHolds`), and what is
  in stock stays there (`ShelfIsStocked`). Both are parts of `BookIInv`, on top of the invariant of sums.
* `OnlyApprovalsDeadlock`: every call of a circle is an approval that has reserved one product and
  waits for another, and its order has lines of both; a call that places, rejects or synchronises holds one
  row at most and waits with none. `OneLineIsReserved`: an approved order that holds stock of a
  product of which it has one line holds the whole line, so two lines of one product are all that `orders_lines` can find.

**`AuthProofs`** — `Auth`, for any number of users, links and connections.

* `TypeCorrect`, `OneSession` (`LinkOpensOneSession`), `Earned` (`SessionsAreEarned`, in the same way a part of `SignIn`), `TwoOpenNeedRace`
  (`OpenLinksWereRaced`), from `Invariance`.
* `Implementation` (`ImplementsSignIn`): every commit is a step of `SignIn`. A request publishes a link and
  what it cancelled, and those are open links of its own user (`CancelsItsOwn`): it chose them when its
  scan began, and a link keeps its owner. A click is exchanged for the time at which it was made.
* `NoDeadlock`: requests and clicks never wait for each other in a circle. A request locks links in the
  order of its scan, so what it has written comes before what it waits for (`ScansAscend`); a click holds
  one link and waits for none. Of a circle, the call whose next link is the last one would have nobody to
  wait for (`Furthest`).
* A click decides when it locks the row and opens the session when it commits. `IInv` says that what
  a call has written is open and written by no other, that a call past its UPDATE has written its link
  and began before the link expired, and that of the open links of its user a request has overlooked
  none but those of requests beside it, which is mutual.

**`PlatformProofs`** — `Leads`, for any number of leads, customers and connections, and `Console`, for
any number of requests and addresses, any limit and any window.

* `TypeCorrect`, `Links` (`ConversionsAreLinked`), `OrphansNeedRace` (`OrphansWereRaced`),
  `DuplicatesNeedRace` (`DuplicatesWereRaced`), from `Invariance`.
* `ConversionsAreLinked` is not inductive: what a commit writes was decided when the call read the
  lead. `IInv` adds what each call may rely on at each place: a call that has written a lead
  still has it, and alone; the customer a call has inserted is not committed, has no origin
  and is no other call's; a call that deletes a customer has locked the one lead that is linked to it, or
  there is none and no call can make one (`RemovalsAreExclusive`); a lead that is not committed yet has no
  customers; and a lead that has gone since a conversion read it is noted in `stale`. The last one gives `OrphansWereRaced`.
* For `DuplicatesWereRaced`, `RecentOnce` adds that a lead which can be converted has no recent
  customer, and that a conversion under way beside one that committed is noted in `stale`.
* `AttemptsStayBounded` (`AttemptsAreBounded`): the failures of a window plus the requests that were let
  in and may still fail are fewer than the limit and all requests. Each request that is counted moves from
  the second summand to the first one when its failure is recorded; time only takes failures away.

**`DatabaseProofs`** — `Migrate`, for any number of runs, builds and migrations; `Demo`, for any runs
and tenants; `Board`, for any lines and orders.

* `TypeCorrect`, `InOrder` (`AppliedInOrder`), `OnceAndRecorded` (`EffectsAreRecorded`),
  `ReturnsCurrent` (`ReturnedIsCurrent`), from `Invariance`.
* What a run saw is outdated when it is used, so the invariant relates the two: what it saw is
  still there (rows of `_migrations` are never changed), everything before `next` is there with the
  text of its build, a run in `ran` is alone at its migration and that has no row. Order follows: the
  row that is about to be written has all rows before it.
* `Implementation` (`ImplementsSchema`): the rows of `_migrations`, read in the order of the file names,
  are a history that only grows at its end, by a text of one of the builds. A run that lost a race, that
  was killed or that is behind adds nothing to it. `Log` is a sequence because the rows are a
  beginning of the list (`AppliedInOrder`).
* `OrphansHaveARun` (`DemoOrphansWereInterrupted`): ids are not given twice (`IdsAreFresh`), and a run
  that has one stands at one of the stages behind the one that made its tenant, which holds exactly what
  the stages before leave, unless somebody deleted it (`RunsAreOnTheirWay`). `DemoKeepsTypes` adds that no
  run leaves its list.
* `ToldWhenReady` (`BoardTypeOK`): what is ready, announced or told of has the hour at which it was made
  ready, on pages however old.

**`PackagesProofs`** — `Packages`, for any number of packages, modules and connections.

* `TypeCorrect`, `OneDefaultEach` (`DefaultsStand`), `Replacement` (`ReplacesUnlessRaced`), from
  `Invariance`.
* The defaults that a call has inserted are not committed and nobody else's (`InsertedIsNew`). Of an
  application `IInv` says that every enabled module outside its package is still to be visited, was
  written, or was enabled behind its UPDATE (`Disabling`), and that every module of the package is still
  to be inserted or was (`Enabling`); at the commit nothing is left to visit.
* `OnlyApplicationsDeadlock`: a circle holds no sign-in that seeds. A sign-in has inserted only what comes
  in `DEFAULT_PACKAGES` before what it waits for (`SeedsInOrder`), so whoever it waits for has less to do
  than itself. What remains are applications that have each written a module and want another's, in the
  order of their packages (`feature-packages.ts:178`).

**`OfficeProofs`** — `Compose`, for any modules, ports and graphs, cyclic ones and unknown modules
included; `Intake`, for any contents, uploads, documents and links; the screens.

* `ComposeTypeCorrect`; `ValidRegistriesCompose`: a request to a registry that `validate()` accepts is
  never refused; `DependenciesComeFirst`; and `ResolveImplementsAssembly` (`ComposeRefines`): every step
  is a step of `Assembly` or a stutter. All from `ComposeInvariant`.
* The worklist holds a subset of the closure and what it has left out is pending. Of the depth-first
  search the invariant says that each node of the path needs the next one, that what is placed
  stands after all it needs, and that a node has no requirement that is neither placed, on the path nor
  left to visit. An error follows from a path that meets itself, hence from a registry
  that does not validate, or from an id that no module has.
* `Accounted` (`FilesAreAccountedFor`) and `ShortLived` (`LinksDieSoon`), from `IntakeInvariant`: it
  gives an upload the file that it has found or stored, until its row is there, and
  notes that among the rows it saw none had its content. An address was made while its link was live, so
  it ends before the link would have expired by more than the life of an address, and within that of
  a revocation.
* `ChecksStay` (`NoCheckIsLost`) and `ScreensAgree` (`NothingDueIsSilent`): an invariant of types, and the
  rest is what the screens compute. A day that is past lies in this month or an earlier one; what is due
  is therefore on the page of this month or dragged into it, and the sum of the page is one over checks
  that are told apart. The proof found that the clause about documents that ran out needs that those that
  expire fit the list: `expiringDocuments` cuts it, and a paper past its day may be beyond the cut.
* `WarningsStand` (`WarningsOnlyRise`): the quotient that a pace is compared by is monotone in the hours,
  rounded or not, and the days left of a lease fall. `RecordsKeepTypes` and `AlertsKeepTypes`.
* `HandlersHear` (`HandlersAreFed`), of the manifests as they are declared: requirements have one level,
  and each handler listens to an event of its own module or of one that is required with it.

**`Sums`** — the lemmas about finite sums that the others use: `MapThenSumSet` of the community modules
is a recursion over elements chosen in any order. That the order does not matter, and that a sum splits,
grows by an element and is bounded by its summands, is induction over the subsets of a finite set; it
is done without an induction theorem, by taking a minimal counterexample (`WFMin`).

**Only model-checked**: liveness (`EveryCallEnds`, `EveryRunEnds`, `EveryRequestEnds`), which the
prover does not do with fairness; `StoryIsTold`, which is about the figures of one demonstration; and
`OfficeTypeOK` as one property of `OfficeSpec`: the types of each of the ten parts are proved of its own
specification, but what the scenarios of `Demo` seed fits the bounds of `Records` only for figures such
as those of the instance.

## 6. Not modelled, and why

* Row level security, roles and grants, and the settings of a transaction: evaluated by Postgres
  below the operations; no model can say more than the policies do. Permissions of pages and
  actions are read by each request and changed by one UPDATE.
* Notes, templates, permissions, customers and contacts, prospects: single inserts or single-row
  updates, with no invariant across rows (prospects are deduplicated by one statement with a unique
  index). The events that an operation logs are kept where a property reads them (`Checks`, `Board`,
  `Records`) and left out elsewhere.
* The deletion of customers beyond what it does to a lead: no page deletes one, and of the tables that
  refer to customers those that restrict make the DELETE fail (`Fail`), while others cascade or set their
  link to null. The link of a lead to who referred it, which no operation reads.
* Of `nextOrderNumber`, digits that do not fit an integer: the cast fails, and with it the form, until
  the order that brought them is renamed. A transaction that brings several orders (the demonstration
  does) is as many calls in `Orders`. An order that is brought as approved or shipped reserves
  nothing, as in the code.
* `auth_resolve_session`'s `last_seen_at`, `createProduct`, `createProperty`, prices of a customer:
  written by one statement and read by none that is modelled.
* Scoring of text, outside services, search, rendering and forms. `Intake` takes the verdict of the
  classifier as an input, over all its outcomes. Engagement scores, parsing and formatting of money:
  arithmetic of one expression.
* The sizes, titles, names and histories of what the demonstration writes.

## 7. Plan

Done: money, stock and identity (`Ledger`, `Billing`, `Orders`, `Auth`, `Leads`), `Migrate` and
`Packages`, the composition and the shell (`Assembly`, `Compose`, `Manifests`, `Shell`), the screens
(`Checks`, `Records`, `Collections`, `Alerts`, `Board`, `Stock`, `Portal`), `Intake`, `Console` and
`Demo`; the refinements `Billing` → `Ledger`, `Orders` → `OrderBook`, `Auth` → `SignIn`, `Migrate` →
`Schema` and `Compose` → `Assembly`, each checked and proved; which calls can deadlock in each of the
models whose calls lock several rows; theorems about all of them but `Portal` and `Stock`, whose
operators are used by the others.

What would come next: `Console` with `Migrate` and `Packages` in front of it, as a sign-in runs them; the
promises of `Intake` and of `Packages` as abstract specifications.
