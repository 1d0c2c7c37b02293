# Formal models of the universal_saas API

TLA+ modules, TLC configurations and TLAPS proofs for the NestJS/Prisma API under
`src/apps/api`. The API is a multi-tenant ERP: some forty subsystems over one PostgreSQL
database, each a few services whose methods are HTTP handlers. A handler typically reads a
document, checks its status, and then writes, often in a `prisma.$transaction`. No service
asks for an isolation level and none locks the rows it reads (the only explicit locks are an
advisory lock in `data-operations` and an atomic `UPDATE ... RETURNING` in `numbering`), so
every transaction runs under PostgreSQL's default, READ COMMITTED, and what a handler checked
may no longer hold when it writes. Work that outlives a request (workflow executions, their
approvals and timers, background jobs) runs in the memory of an API process, without
transactions and without a queue that survives the process. That is what these models are
about.

Paths below are relative to `src/apps/api/src` unless they begin with `src/` or `prisma/`.

## Inventory

| Component | State | Operations | What makes it hard | What makes it correct |
|---|---|---|---|---|
| Sales orders (`sales/orders`) | order status; lines with quantity, reserved, delivered | create, update, submit, approve, reject, confirm, allocate, releaseAllocation, cancel, close | status checked outside the transaction and written by id; balances read without a lock; update deletes and recreates the lines | reservations, lines and balance agree; fulfilled and cancelled orders stay so and hold what they should |
| Reservations (`sales/reservations`) | status, line, quantity | release (others through orders and deliveries) | quantity read before the transaction | as above |
| Delivery orders (`sales/deliveries`) | status; quantity per order line | create, ready, pick, dispatch/ship, deliver/execute, cancel | executed from any open status, checked once; order status ignored | nothing delivered beyond what was ordered, each delivery posted once, DELIVERED means issued |
| Balances (`inventory/balances`, `adjustments`) | on hand, reserved; movement ledger | applyStockMovement | read, compute, write absolute value | on hand is the sum of the ledger; reserved fits on hand |
| Workflow executions (`workflows/executions`) | execution status and node, steps; running interpreters and timers in memory | start, interpret, retry, cancel, wake, the handlers of two job types | one execution row written by interpreter, timer, resume job and user | terminal statuses are final; the graph is followed by one driver at a time; every execution stops running |
| Workflow approvals (`workflows/approvals`) | approval status, votes | decide (delegate only audits) | read before the transaction, job created outside it | one vote per user, a resolved approval has its vote, a decided approval resumes its execution |
| Background jobs (`common/jobs`) | job rows; `isProcessing` per process | create, cancel, process | in-process trigger, several processes, crash | each job runs, once, and a cancelled one does not |
| Payments and settlement (`payments`, `ar`, `ap`, `sales/credit-notes`, `purchasing/debit-notes`, `sales/refunds`) | documents with total, paid, allocated, applied and remaining amounts; allocations and applications; journals | create, post, allocate, apply, void of each kind | amounts computed from unlocked reads; checks outside transactions; one void that a CHECK always refuses | amounts agree with allocations; one journal in force for what is posted; nothing settled outside the books |
| Ledger (`accounting`) | accounts, entries with lines, periods; reports computed from posted entries | draft, post, reverse, close, reopen, report | reversals of closed periods, types of accounts that change | statements balance; the chart is a forest; nothing unposted in a closed period |
| Finance (`banking`, `accounting/budgets`, `assets`, `tax`) | statements, matches, reconciliation sessions; budgets; assets with a schedule; tax periods | match, adjust, reconcile, activate, depreciate, dispose, lock | several documents per amount | what is reconciled, depreciated or locked agrees with its entries |
| Staff payments (`expenses`, `payroll`) | claims, reimbursements; payroll periods, runs | approve, post, pay, calculate | recalculation leaves older runs | approved before posted, paid once |
| Commerce (`crm/leads`, `crm/opportunities`, `sales/quotations`, `crm/quotations`) | leads, opportunities, quotations and their orders | win, convert, send, accept, revise, void | two services for one table | a quotation becomes one order |
| Stock (`inventory/costing`, `inventory/transfers`, `warehouse`, `shipping`, `purchasing`, `procurement`) | cost layers and valuation; documents that move stock; order lines and receipts; shipments | receive, issue, return; complete, cancel, pick, count; post, ship | absolute writes, two services for one table, errors that are swallowed | stock is what came and went; every document moves it once |
| Production (`manufacturing`, `planning`) | bills, orders, MRP runs and plans | issue, complete, execute | cycles through several bills | components are conserved; bills are acyclic; plans cover the shortage |
| Quality and returns (`quality`, `returns`) | lots, holds, non-conformances; return requests | decide, release, close; authorize, receive, inspect, dispose, resolve | decisions after dispositions | goods are disposed of once, decisions have a reason |
| Service desk (`service`) | tickets, diagnoses, estimates; repair orders, parts, labor | triage, approve, issue, return, hand over, invoice | incremental and recalculated costs | costs and charges add up |
| Billing, imports, messages (`billing`, `data-operations`, `common/idempotency`, `integrations`, `notifications`) | subscriptions, invoices, credits; import jobs, rows, keys; deliveries with attempts | pay, meter, apply events; preview, commit, retry | events of providers in any order and again; crashes between batches; retries | paid amounts add up; an import that says it is complete is; no message is sent past its attempts |
| Access (`auth`, `security/sessions`, `organizations`, `roles`, all controllers, the seed) | users, sessions, members, roles, permissions; guards of the endpoints | sign in and out, refresh, revoke; add, suspend, remove; grant | overlapping refreshes and revocations; last owner; permissions spread over a hundred files | an ended session stays ended; an organization keeps an owner; owners reach what is theirs |
| Master data (`master-data`, `catalog`, parties of `sales`, `purchasing` and `crm`, `payroll` staff) | sequences, units, categories, items, variants, tiers, prices, locations, customers, suppliers, departments, employees, compensations | create, update, delete, draw a number | concurrent draws, flags that only one row may have, hierarchies | no number twice, one default, one primary, one salary a day, no orphan and no cycle |

What is left (PROJECT.json lists every component, with the reason) are read-only queries, files,
configuration, and the web frontend, which keeps no state of its own.

Components meet in three ways: handlers of different services write the same tables
(orders, reservations, deliveries and adjustments all write balances; payments, notes and refunds
all write invoices), services call each other inside one transaction (`executeDelivery` calls
`applyStockMovement`), and events or background jobs carry work on after a commit (approvals resume
executions through a job).

## Modules

| Module | Models |
|---|---|
| `SalesDatabase` | what a transaction reads under READ COMMITTED; the tables, their CHECK constraints, requests, transactions, row locks, rollback, commit |
| `SalesOrders` | `sales/orders/sales-orders.service.ts` |
| `StockRequests` | `sales/reservations/reservations.service.ts`; `inventory/adjustments` and `applyStockMovement` in a transaction of its own |
| `DeliveryOrders` | `sales/deliveries/delivery-orders.service.ts` and the issue part of `inventory/balances/balances.service.ts` |
| `SalesFulfillment` | the composition: initial state, next-state relation, properties |
| `MCSalesFulfillment` | instances for TLC |
| `SalesFulfillmentProofs` | inductive invariant, theorems and proofs, for overlapping requests |
| `SalesSequentialProofs` | the same for what needs that requests do not overlap |
| `WorkflowDatabase` | the tables of the workflow engine and the jobs, and what API processes keep in memory |
| `BackgroundJobs` | `common/jobs/job.service.ts` |
| `WorkflowExecutions` | `workflows/executions/workflow-execution.service.ts` |
| `WorkflowApprovals` | `workflows/approvals/workflow-approvals.service.ts` |
| `WorkflowLifecycle` | abstract specification of one execution: what INV-393 and INV-394 promise |
| `WorkflowEngine` | the composition of jobs, executions and approvals; properties |
| `MCWorkflowEngine` | graphs and instances for TLC |
| `WorkflowEngineProofs` | inductive invariant, theorems and proofs, for any number of processes and any failures |
| `WorkflowSequentialProofs` | the same, and the refinement of `WorkflowLifecycle`, for what needs one process or requests that do not overlap |
| `Handlers` | what every service method has in common: read, check, write; requests that end early |
| `Invoices`, `Payments`, `CreditNotes` | one module per service, each extending the one before, since each writes the tables of the earlier ones; `Invoices` has the fiscal periods and the journals of documents, too |
| `IdealSettlement` | abstract specification: what settling an invoice promises |
| `Settlement` | the composition; types, properties, the refinement of `IdealSettlement` |
| `MCSettlement`, `SettlementProofs` | instance for TLC; inductive invariants, theorems and proofs: first for overlapping requests, then, with the refinement, for what needs that requests do not overlap |
| `SumTheorems` | lemmas about sums over finite sets, used by the proofs of sales, settlement and the back office |
| `Ledger` | accounts, entries made by hand, reversals, periods, and the reports computed from them |
| `Finance` | bank reconciliation and budgets, fixed assets, the tax ledger |
| `StaffPayments` | expense claims and payroll |
| `Commerce` | leads, opportunities, quotations |
| `Purchasing` | requisitions, purchase orders, receipts, returns, of both services; cost layers and valuation |
| `Warehouse` | transfers, put-away, picking, replenishment, quarantine, counts, and shipments |
| `Manufacturing` | production orders, bills of material, MRP runs |
| `Quality`, `Returns`, `ServiceDesk` | inspection and non-conformance; return requests; tickets and repair orders |
| `Billing`, `DataOperations`, `Messaging` | subscriptions and invoices; imports with idempotency keys; webhooks and notifications |
| `Endpoints` | the guards and required permissions of the endpoints of every controller |
| `Access` | the permissions and the roles the seed creates; sessions; members, roles and what the guards admit |
| `MasterData` | numbering, catalog, prices, locations, parties, staff, compensation |
| `BackOffice` | the composition of the modules from `Ledger` to `MasterData` as domains; their properties taken together |
| `MCBackOffice` | instances for TLC |
| `BackOfficeProofs` | inductive invariants of the domains of documents, theorems and proofs |
| `PlatformProofs` | the same for master data, access, imports, messages, billing, purchases, costs and the books |

### Orders to fulfilment: state and actions

`orders`, `lines`, `reservations`, `balances` and `deliveries` are the committed tables. A row
that does not exist yet has status `NONE`; `movements` adds the ledger up by order line, by
stock key and by delivery order. `requests[w]` is the request worker `w` is serving, a record
whose `pc` names the step it is at and whose other fields are what the handler has read so far
(its local variables). `pending[w]` holds the rows its open transaction has written.

A handler is cut into steps where another request can change its outcome: after the read that
precedes the transaction, after each read in the transaction whose value is used by a later
write, after each statement that takes row locks, and at the commit. Writes that follow each
other without such a read are one step: acquiring a lock can be moved later past the steps of
others, who do not see uncommitted rows. A write waits until no other open transaction holds
the row, which the action's guard says; it then applies to the row as committed by then, as an
`UPDATE ... SET x = x + n` does under READ COMMITTED, except where the code writes a value it
computed itself (`Issue`, `Adjust`).

`Abort` ends a request anywhere before its commit, and stands for everything that does: a
guard that throws inside the transaction, a CHECK constraint or foreign key that refuses a
write, a deadlock victim, the 5 s limit Prisma puts on interactive transactions, and a stopped
process. An action whose guard includes a constraint is thus never silently skipped: the
request can only be rolled back. In particular no model waits in a deadlock for ever, which is
what PostgreSQL's deadlock detection guarantees.

`update()` deletes an order's lines and creates new ones. The model keeps the line ids and
counts `version`, so a request that has read a line can tell that its row is gone: an insert
that refers to it then fails on its foreign key. Deleting cascades to reservations (status
`DELETED`) and is refused when a delivery order refers to a line.

### What the sales models abstract

- Prices, taxes, numbering, customers, credit check, addresses, events, audit and batch/serial
  tracking: they decide nothing the properties see (a failing check is a request that ends).
- The cost of goods sold recorded during a delivery: it writes none of these tables and its
  errors are swallowed.
- A delivery order names a line at most once; `update()` changes quantities, not items or
  location; every stock key has its balance row from the start.
- The order in which a loop visits the lines is left open (the query gives none for deliveries
  created in one statement).
- Statuses `RESERVED`, `PARTIALLY_DELIVERED`, `DELIVERED` (of orders) and `VOIDED` are left
  out: no service writes them.
- `invoice()`, `checkAvailability()` and the delivery order's `update()` write none of the
  modelled state.

### Workflow engine: state and actions

`executions`, `steps`, `approvals` and `jobs` are committed tables: executions with status and
node, the number of step rows per execution and node, approvals with the vote of each user, job
rows in order of creation. The rest is memory of the API processes:

- `processors[p]` is `processNextJobs` of process `p`: idle (`isProcessing` is false) or at a
  step of the first job of its `batch`. `triggered[p]` says that a `setImmediate` of `createJob`
  is due; one that finds `isProcessing` set is lost (`DropTrigger`).
- `interpreters[i]` is a call of `interpretGraph`, or the timer that a DELAY node leaves behind
  when the call returns. `origin` says who awaits it: nobody, after a `setImmediate` of
  `startExecution` (`start`); the job processor (`job`); a timer that ignores errors (`timer`).
- `requests[w]` is an HTTP request between its read and its write: `recordDecision`,
  `cancelExecution`, `cancelJob`. A request with one write only is one action.

Every `await` after which the code uses what it read or decided before is the end of a step. One
turn of the interpreter's loop is a read (`ReadNode`) and the step of the node's kind; the step
of an APPROVAL node is two (`RequestApproval`, `WaitForApproval`), because the approval can be
decided in between. A decision is the read, the start of the transaction (`RecordVote`, which
waits for the lock on the approval row), the creation of the resume job on another connection
(`QueueResume`) and the commit. Updates of executions are by id and unconditional, and so are
their actions: `Wake`, `WaitForApproval`, `Advance` and `FailExecution` do not ask what the
status is.

`Crash(p)` ends a process, by failure or shutdown: batch, trigger, interpreters, timers and
requests of `p` are gone, the tables stay. `Errors` lets any awaited database call or action
reject: `HandlerThrows` and `AbandonBatch` are the inner and the outer `catch` of
`processNextJobs`, `RollBack` the end of a transaction, `Throw` a rejected `interpretGraph`. When
a `setImmediate` started that call nobody handles the rejection, and Node.js ends the process,
which is a `Crash`.

Abstracted: what actions do and conditions evaluate (any outcome, any outgoing edge);
`MAX_NODE_TRANSITIONS`, 100 in the code, is a constant; time (a timer fires some time later);
organizations and eligibility. Approvals are of type ANY_ONE without deadline, because
`interpretGraph`, the only code that creates them, sets neither `approvalType` nor `expiresAt` nor
`escalateAt`; quorums, expiry and escalation are therefore unreachable, and so is the execution
status TIMED_OUT, which nothing writes. The idempotency key of an execution is stored but never
looked up, so it is left out. `POST /jobs` is modelled for types with a foreign handler and without
any. The graph is what `WorkflowGraphValidatorService` lets pass (`ValidGraph`, without
reachability): cycles are allowed, and so are nodes other than END without outgoing edges.

### Settlement and back office: state and actions

Most of the API is many services of one shape, and `Handlers` is that shape. `rows` is the
committed database: a record of tables, each a function from ids to rows, with the columns the
properties tell apart. `requests[w]` is a request: `Read` gives it a snapshot of the database, and
each method of a service is an action that takes its conditions and early returns from the snapshot
(`Seen(w)`), and what its statements do from `rows`: increments, `WHERE` clauses, CHECKs and
unique keys. A row that was never created has status `NONE`, a deleted one `DELETED`. A method that
writes in several transactions goes on through `Continue` or `Proceed`; `Abort` ends a request
anywhere, which is a failing check, a refused statement, a rollback, or a stopped process between
two transactions. `CommitIf` is a transaction that a constraint may refuse.

This is coarser than the sales and workflow models in two ways. All reads of a request are one
snapshot, although READ COMMITTED gives each statement its own; and a transaction takes effect at
once, since nothing but its commit is visible to others. Between a snapshot and the effect the
requests of other workers run.

In `Settlement` requests are interleaved in this way by the specification and in the proofs; the
instance TLC checks has one worker, because with two the amounts are wrong almost at once: two
allocations compute from the same read, and one of them is lost. `BackOffice` has two, but lets
requests overlap only in the domains of `Overlapping`; in the others a second request would act
on a stale status, and nothing stated about documents would survive. That is what the code does,
and the hazards of PROJECT.json name the lines; the properties say what holds beyond it. Overlap
stays on where the code does something about it: sessions, budgets (unique keys), imports (keys and batches),
webhooks (attempts counted first) and numbering (one atomic statement). Imports keep their
property with overlap only when all commits ask for the same batch size, which is why the instance
has one: a repeated commit counts batches by their index.

A behaviour of `BackOffice` is about one domain, which its initial state picks. The domains share no
rows, or only rows that one of them never changes, so that nothing is lost by checking them side
by side instead of as a product. Their operators keep the names of the services' methods with
that of the document.

`Ledger` computes trial balance, general ledger, income statement, balance sheet and cash flow from
the rows as `financial-reports.service.ts` does, for entries of two lines, two accounts, and days
that are periods. `Endpoints` lists the controllers one by one: per required permission the methods
that require it. `Access` uses it twice: as the guards in front of the operations on roles, and
for what an owner can reach. Users, numbers, rows and amounts are one to three; the rest of a row (names,
addresses, prices, texts) is left out.

## Runs

All runs check deadlock off (`CHECK_DEADLOCK FALSE`): with all ids used up and every document
closed, no request has anything left to do, and a workflow engine whose executions have ended or wait
for a vote is at rest.

The specifications of the sales services, of settlement and of the back office state no fairness,
and nothing but safety is claimed of them: an HTTP request may always fail. `FairSpec` of the workflow
engine is for runs without faults: weak fairness of every request, processor and interpreter once
begun. A process that lives settles its promises, runs its `setImmediate` callbacks and timers, and
PostgreSQL grants locks; nothing is assumed of users, who need not vote, start or cancel anything.

| Run | Instance | Shows |
|---|---|---|
| `sales_sequential` | 2 orders of one line, 1 key, 1 delivery, 1 worker, stock 2, adjustments by one | without overlap, whatever fails half way: reserved stock is the active reservations (`ReservedIsActive`), on hand is the ledger (`OnHandIsLedger`), cancelled orders hold nothing (`CancelledHoldsNothing`), no reservation is unknown to its line (`ActiveWithinLine`) |
| `sales_two_lines` | 1 order of 2 lines on one key, 2 deliveries, 1 worker, stock 2 | allocation status, delivery status and quantities agree (`AllocatedIsReserved`, `IssuedWasDelivered`), a fulfilled order is only ever closed (`FulfilledIsFinal`, ADR-073) |
| `sales_concurrent` | 1 order of 1 line, 2 deliveries, 2 workers, lines rewritten once | what survives every interleaving: types and non-negative quantities (`TypeOK`), `NeverOverDelivered`, `DeliveredWasIssued`, `ReplacedLinesWereUnissued` |
| `sales_oversold` | 2 orders, 2 workers | violation of `AllocationFitsStock` (ADR-018) |
| `workflow_one_process` | 1 process, 1 execution through approval, action and delay, 1 worker, 2 jobs, cancellations | one interpreter or timer drives an execution (`OneDriver`), no node runs twice (`NodesRunOnce`), no node behind an approval runs before it is given (`ApprovedBeforePassing`) |
| `workflow_faults` | 2 users, 2 workers, 2 jobs, 1 crash, errors anywhere | `TypeOK`; a resolved approval has the vote it shows (`ResolvedByVote`), votes are never replaced (`VoteIsFinal`, INV-397), no job is begun again (`BegunOnce`) |
| `workflow_loops` | 2 executions (one a retry) of a graph with a cycle and a dead end, 2 approvals, limit of 4 transitions, fairness | every execution implements `WorkflowLifecycle` (`FollowsLifecycle`) and stops running (`RunsEnd`) |
| `workflow_unresumed` | 1 execution, 1 approval, fairness, no faults | violation of `DecisionResumes` (ADR-127) |
| `settlement` | receivables or payables; 2 invoices, 1 payment, 1 note, 1 refund, amounts up to 2, a period that closes, 1 worker | types and CHECKs (`TypeOK`); paid is what was allocated and applied (`PaidIsSettled`); used is what was allocated, applied and refunded (`UsedIsAccountedFor`); one journal in force exactly for what is posted (`PostedIsInForce`); only posted documents settle (`SettledWasPosted`); allocations are never taken back (`AllocatedStays`, because a CHECK refuses every void of a payment that has one); every behaviour implements `IdealSettlement` (`SettlesAsPromised`) |
| `office` | the 35 domains of `BackOffice`, 2 workers | see below |
| `reversals_offset` | the ledger, one entry and its reversal | violation of `ReversalsOffset` (ADR-036) |
| `owners_reach_all` | 2 users, all endpoints | violation of `OwnersReachEveryEndpoint` (M05-Roles-and-Permissions) |

The properties of `office`, each a conjunction of what the modules say about their domains:

- `AccessIsGoverned`: a session reported revoked admits nobody again; an organization keeps an owner
  that is neither suspended nor removed; an active owner is admitted to every endpoint whose controller
  establishes the organization, whatever became of the roles.
- `MasterDataConsistent`: no number is drawn twice between two settings of its sequence; live variants
  have a live item; at most one default tier; live locations lie within live ones; at most one
  primary contact; departments have no cycle and employees no removed department; at most one
  active compensation on a day.
- `StockAddsUp`: a line has received what its posted receipts brought, never more than ordered;
  layers are consumed first in, first out and agree with the valuation.
- `GoodsLeaveOnce`: every stock document moves goods once; no more is shipped than was packed.
- `MakesWhatIsPlanned`: components are conserved; no product needs itself; a plan covers its shortage in
  whole lots and not by one lot too much.
- `InspectedAndReturned`: returned goods are disposed of once; lots, holds and non-conformances are
  decided for a reason.
- `ServiceAddsUp`: tickets have origins; costs and charges of a repair order add up.
- `StaffArePaidOnce`: claims are approved before they are posted and paid what they claim; one salary
  per period.
- `BooksAgree`: statements balance and the chart is a forest; what is reconciled, depreciated or locked
  agrees with its entries.
- `ConvertsOnce`, `BillingAddsUp`, `ImportIsComplete`, `MessagesSentOnce`: as their names say, of
  quotations, of invoices and credits, of import jobs, and of webhooks and notifications.

The bounds. Quantities 1 and 2 against a stock of 2 give exact fits, shortages, partial
reservations and partial deliveries; two reservations let a line be reserved in two steps; two
deliveries of one line race for the same remainder; two workers are what every race found here
needs. `MaxVersion` bounds how often the lines of an order are written: 2 is one `update()`.
`MaxOnHand` bounds adjustments. Reservation, delivery and worker ids are symmetric: no
definition orders them.

For the workflow engine: a limit of 4 transitions lets the acyclic graphs run through and cuts the
cycle off, at every node of it; `MaxJobs` 2 lets a queue order, overtake (by priority), be dropped
and be left behind; 2 interpreters are what it takes for a timer or resumed call to meet a running
one. `workflow_one_process` has one worker because two overlapping decisions do break its
properties: each resolves the approval and queues a resume job. The same with two processes, whose
processors take the same jobs. `workflow_loops` has no cancellations since those break the
life cycle (`completeExecution` and `failExecution` write over CANCELLED), and no graph in which a
node without edges can be the last transition allowed: there `interpretGraph` completes the execution
and then fails it.

For settlement and the back office: amounts up to 2 are paid and used in parts or in one;
`MaxReversals` 1 lets the void of a
note or refund stop after its reversal was posted, and be tried again; three cost layers with the quantities
1 and 2 are consumed in part and across layers; two bills close a cycle through each other; an
asset of up to three months is disposed of before, during and after its depreciation; two rows fail or
pass in every combination with one row per batch; two days are two periods, one of which can be
closed while the other is open; three departments or locations are the smallest longer cycle;
numbers up to 3 let two requests draw while a third sets the sequence back. Workers, and invoices,
are symmetric.

The refinement of `WorkflowLifecycle` is the identity on `executions`: the abstract specification
has only that variable, and hides interpreters, jobs and approvals. That of `IdealSettlement` maps the
statuses of an invoice to whether it is in the books, and its allocations and applications to the
amount that is settled, so that payments, notes, refunds, journals and requests are hidden.

Each property of a passing run has a mutant in PROJECT.json: a definition of the model changed
the way a bug in that code would change it, under which TLC finds the property violated. The
mutated operators stand before the original in the same module and say so.

## Findings

Four statements of the repository's documents do not hold of the code; PROJECT.json quotes them.
Overlapping allocations oversell. An approval decided between its creation and the update that sets
the execution WAITING leaves the execution waiting for ever, since the resume job finds it RUNNING and
is dropped. A reversal does not offset its original in the reports, since these count posted entries
and the original is VOIDED by then. And owners, who have all permissions, are refused by the
controllers that require a permission without `TenantContextGuard`: the guard that evaluates the
permission does not know the organization.

Other divergences have no run of their own; the notes of the hazards name them: overlapping
executions of one delivery order, posts of one payment, allocations and adjustments; cancelled orders
that ship; cancelled executions that run on; returns that count for nothing until they are
authorized; the last owner set INVITED, which leaves an organization
without an active one (ADR-005).

## Proofs

`SalesFulfillmentProofs` proves, for any number of orders, lines, keys, reservations,
deliveries and concurrent requests, and any quantities:

- `TypeCorrect`: `Spec => []TypeOK`. Quantities are naturals, so no CHECK constraint is ever
  violated by a committed row of a balance.
- `OverDeliverySafety`: `Spec => []NeverOverDelivered`.
- `ReplacementSafety`: `Spec => ReplacedLinesWereUnissued`.
- `DeliverySafety`: `Spec => []DeliveredWasIssued`.

The assumptions are `LinesAssumption`, `BoundsAssumption` and `FiniteAssumption` of `SalesDatabase`:
lines belong to orders and keys, quantities are positive, bounds are naturals, tables have finitely
many rows (else the sums mean nothing).

None of the four is inductive: a commit publishes what a transaction wrote long before. `IInv`
adds, for every worker (`WorkerOK`), that what its request remembers exists (ids of documents
that exist never go away, `Grows`), and that each line its transaction has written carries the
committed version and the committed delivered quantity plus what the transaction issued
(`WritesOK`). This stays true while others step because a written line is locked
(`LockedOnce`), which is the heart of the argument: the increment of `quantityDelivered`, unlike
the absolute write of `quantityOnHand`, cannot be computed from a row someone else changes.
`TablesOK` adds that a line with movements has a delivery order, which is what the foreign key
needs to keep `update()` away from it. One lemma per action (`...Keeps`) shows that the action
keeps `IInv`; four general lemmas (`InsideTransaction`, `TablesWritten`, `OnlyRequest`,
`WorkerKept`) do the part they have in common.

`DeliveredWasIssued` adds up over delivery orders, several of which may be executed at a time.
`DeliveryInv` adds to it what an open transaction promises: it has issued in full the lines it is done
with and nothing of the others, and one that is about to commit either delivers nothing or has
issued all of the one delivery order it makes DELIVERED.

`SalesSequentialProofs` proves, for the same constants with requests that do not overlap
(`Alone`: there is one worker, but any number of requests after each other, each of which may
fail, crash or be rolled back at any step):

- `ReservationSafety`: `Spec => []ReservedIsActive`, and `LedgerSafety`: `Spec => []OnHandIsLedger`:
  the two counters of a balance are what the documents add up to.
- `CancelSafety`, `LineSafety`, `AllocationSafety`, `IssueSafety`: `Spec => []CancelledHoldsNothing`,
  `[]ActiveWithinLine`, `[]AllocatedIsReserved`, `[]IssuedWasDelivered`.
- `FulfilledSafety`: `Spec => FulfilledIsFinal`.

`Alone` is the hypothesis of each theorem and not an assumption on the module's constants. It is what these
properties need: the code does not lock what it reads, and the instances with two workers break
every one of them. `SequentialInv` says three things. The committed tables agree (the six properties,
with what ties them together: a line's reservations, the status of an order and of its deliveries).
What the open transaction sees, its own writes on top of the committed rows, agrees in the same way for
every order but the one it works on, and for that one up to how far the handler has got: between
two statements of `executeDelivery` a reservation is consumed whose balance still holds it, and the
invariant names the difference. And what the request has read so far is still what the rows say,
which is where `Alone` enters. `SumTheorems` moves one row in and out of each sum.

`WorkflowEngineProofs` proves, for any graph, any number of processes, requests, executions,
approvals and jobs, and whatever crashes or fails:

- `TypeCorrect`: `Spec => []TypeOK`.
- `ResolutionSafety`: `Spec => []ResolvedByVote`.
- `VoteSafety`: `Spec => VoteIsFinal`.

The assumptions are `GraphAssumption` of `WorkflowDatabase` (what `parseGraph` and the validation
of a definition admit: one start node, edges between nodes) and `EngineAssumption` of the
same module (bounds are naturals, switches are booleans).

`VoteIsFinal` is about a check that is made long before the write, so the invariant has to say
what a decision may still believe when it commits. `VotesInv` does: a decision is on an
approval that exists, at most one transaction at a time holds that approval (`OneTransaction`:
its update locks the row), and the user of that one has not voted
(`StillMayVote`). `JobsInv` and `MemoryInv` give what the other steps need to keep the types:
resume jobs name an execution, jobs only grow (`JobsGrow`), batches hold jobs that exist, and a
processor waits for exactly the one interpreter it called (`OneCalled`), so that the return of an
interpreter wakes the processor that called it and no other. Each part has its own lemma
(`ExecutionsKept`, `VotesKept`, `JobsKept`, `MemoryKept`) with a case per action.

`WorkflowSequentialProofs` proves, for any graph and any number of executions, approvals, users and
jobs, what needs more:

| Theorem | Property | Needs |
|---|---|---|
| `BegunSafety` | `BegunOnce` | `OneProcess`; anything may fail or crash |
| `DriverSafety` | `OneDriver` | `Alone`: one process, one request at a time, no errors and no crashes |
| `NodesOnceSafety` | `NodesRunOnce` | `Alone` and a graph without cycles (`Acyclic`: nodes can be ranked along the edges) |
| `ApprovalSafety` | `ApprovedBeforePassing` | `Alone` and a graph in which only an approval leads to what is behind it (`Gated`) |
| `LifecycleRefinement` | `FollowsLifecycle` | `Alone`, no cancellations, and every START, CONDITION, ACTION and other node has an edge that leads on (`Through`) |

The runs show that none of these is asked for nothing: `workflow_one_process` has the same shape,
overlapping decisions and a second process break the properties (see the bounds above).

The argument for `BegunOnce` is `BatchInv`: the jobs of a batch differ, those that the processor has yet
to begin are PENDING or CANCELLED, and the one it has begun is PROCESSING or CANCELLED. With two
processes the second makes a job of the batch PROCESSING, and the invariant is gone.

The argument for the rest is `ClaimInv`. There are three ways in which an execution can go on: an
interpreter or a timer, an approval that is open, and a resume job that is yet to be handled. An
execution has at most one interpreter or timer, and at most one of the other two (`OneClaim`); it has
both only while the interpreter has requested an approval and has not yet set the execution WAITING
(`AboutToWait`), and in that window `ReadResume` drops the job because the execution is not WAITING
(`NoneWaits`), which is the finding of `workflow_unresumed`: what loses the decision is also
what keeps a second interpreter away. `OneClaimInductive` is this invariant, with one lemma per
action that passes a claim on (`RequestApprovalClaims`, `QueueResumeClaims`, `ResumeClaims`,
`CreateClaims`) and general ones for those that only give a claim up (`ClaimsGoOn`).

`PositionInv` adds where each claim is: what has run ranks below the node that is about to run
(`Ahead`) and not above the one that has run last (`Reached`), and all approvals in front of the next node
are given. `LifeInv` adds that the execution's row says the same as its claim: RUNNING at the
node an interpreter works on, WAITING at the node of the timer, the approval or the job. With it
every step maps to the step of `WorkflowLifecycle` of the same kind (`Begun`, `Moved`, `Paused`,
`Continued`, `Ended`, `Failed`) or leaves `executions` alone.

`Through` is the restriction on graphs that the bounds speak of. A node that is no END node and has no outgoing edge completes the
execution and the loop goes on to read it once more. If the node was the last one that
`MAX_NODE_TRANSITIONS` permits, the loop does not read it, and the check behind the loop
(`workflow-execution.service.ts:333`) sets the COMPLETED execution FAILED. The
validation of a definition lets such nodes pass.

Only model-checked: `RunsEnd`. Liveness under fairness, and what a function defined by recursion
computes for every input, are out of the prover's reach.

`SettlementProofs` proves, for any number of invoices, payments, notes, refunds and overlapping requests,
and any amounts:

- `TypeCorrect`: `Spec => []TypeOK`. In particular no committed amount is negative and none is used
  beyond what there is.
- `SettledPosted`: `Spec => []SettledWasPosted`.

The assumptions are `SidesAssumption` of `Settlement` and `MaxAmountAssumption` of `Handlers`. No row is
ever locked here, so an invariant about the tables alone is not inductive: what a request writes
depends on a snapshot that may be as old as the request. `Inv` therefore says that the database is
`Good` (its type, the CHECKs, that the status of a document tells whether it was posted, and the
property), that so is every snapshot a request holds, and that the database `Grows` from each of these
snapshots: a document that was posted stays one that was, a payment keeps having an amount, and
a refund stays in existence. These are the only facts a write takes from its snapshot. A request that
is between the two transactions of a refund's void has seen that refund exist. There is one lemma per
operation, and below them a lemma per kind of row that the operations share (`InvoiceStep`,
`AllocationStep`, ...).

The second part of the module proves, under `Alone` (one request at a time, failing anywhere) and
`FiniteTables` (finitely many invoices, payments, notes and refunds):

- `PaidSafety`: `Spec => []PaidIsSettled`, `UsedSafety`: `Spec => []UsedIsAccountedFor`,
  `InForceSafety`: `Spec => []PostedIsInForce`.
- `AllocationSafety`: `Spec => AllocatedStays`.
- `Implements`: `Spec => SettlesAsPromised`: every behaviour is one of `IdealSettlement`, under the
  mapping the run uses.

Overlap has to be excluded since two allocations to one invoice that overlap each write a paid amount computed
from the row they read, and the sum loses one. `SequentialInv` adds to `Inv` that the rows are
`Balanced` (what an invoice was paid, a payment allocated and a note applied are the sums over
allocations, applications and refunds; a document that was never posted has nothing of either; and
`JournalFits`: the journals in force are those of the posted documents), and that the snapshot of the one
request is `StillSo`, that is the database itself, but for the reversal journal that the first of the two
transactions of a void has posted. For the refinement, `PaidIsSettled` turns the sum that the
mapping takes into the paid column, and each operation either moves one invoice as one action of
`IdealSettlement` does, or leaves what is mapped alone.

`SumTheorems` has the lemmas on sums: `SumFunction` of the models is a fold, whose
definition the prover can only use for one element at a time. `SetInduction`, an induction over
finite sets for a set of subsets instead of a predicate, is what makes it possible to say something of
every finite set; with it sums are integers, are monotone, and change by what one element
changes.

`BackOfficeProofs` proves, for any number of workers, any amounts and any bills, of the domains in which
one request is handled at a time:

| Theorem | Property | Domains |
|---|---|---|
| `StaffSafety` | `StaffArePaidOnce` | expenses, payroll |
| `ConversionSafety` | `ConvertsOnce` | quotations (of both services), leads |
| `ReturnsSafety` | `InspectedAndReturned` | returns, quality |
| `ServiceSafety` | `ServiceAddsUp` | tickets, repairs |
| `GoodsSafety` | `GoodsLeaveOnce` | warehouse (any kinds of documents at once), shipping |
| `PlanSafety` | `MakesWhatIsPlanned` | production, planning, boms |

Each says `Spec => []Property` provided that its domains are not in `Overlapping`. That is the
setting of the run, and the scope of the properties: where two requests read the same status, both
go on, and a claim is paid or a quotation converted twice (see the hazards). It does not mean
that requests are atomic: they may end at any step, also between two transactions. The
assumptions are `MaxAmountAssumption`, `InitialStockAssumption` of `Warehouse` and `BomsAssumption` of
`Manufacturing` (there are finitely many bills).

`OfficeInvariance` is the common part. `Ready` says that at most one request is in progress and that one at
its first step has read the rows as they are (`Fresh`); it rests on `Keeps`, proved of every handler of every
domain: the handler stays in its domain and leaves the other requests alone. Given that, each domain has an
invariant of its rows alone (`ClaimsOk`, `PayrollOk`, ...), a lemma that each of its handlers preserves it, and
one that it implies the domain's property. None of the properties is inductive. For instance: what the
ledger owes claimants needs what has been posted and paid of a claim at each of its statuses
(`ClaimOk`); one paid run needs that at most one gets past its calculation (`OneIsSettled`); the stock
needs that a document that is not completed has moved exactly what was picked
(`StockMoved`); costs that some handlers change by a difference and others compute anew need that they
are the sums of the parts and hours at every step (`CostsOk`). A conversion by `crm/quotations` has two
transactions, and what the second relies on is an invariant of its own (`CrmOk`).

That no product needs itself is about paths of any length. `MadeOf` follows the bills as deep as there are
items; `MadeOfClosed` shows that it then has found everything (each depth that finds something finds an
item more), so that it is the least set closed under the bills, and `StaysAcyclic` that a bill the check
lets pass closes no cycle. `FromZero` is the induction over the depth: over the naturals in a set
instead of those with a predicate.

`PlatformProofs` goes on with the domains of the platform, of purchases and of the books. There the
code sometimes does something about overlapping requests, and the theorems allow them:

| Theorem | Property | Requests may overlap in | One request at a time in |
|---|---|---|---|
| `ImportSafety` | `ImportIsComplete` | import | |
| `MessageSafety` | `MessagesSentOnce` | webhooks | notifications |
| `MasterDataSafety` | `MasterDataConsistent` | numbering, pricing | catalog, locations, parties, staff, compensations |
| `AccessSafety` | `AccessIsGoverned` | sessions | access |
| `BillingSafety` | `BillingAddsUp` | | subscriptions, billing |
| `StockSafety` | `StockAddsUp` | | purchasing, costing |
| `BooksSafety` | `BooksAgree` | budgets | ledger, banking, assets, tax |

They hold for any number of workers, any amounts, any file (`FileAssumption`: its rows are 1..n, and a batch
is not empty), any finitely many accounts of the five types and entries (`LedgerAssumption`) and any life of an
asset (`MaxLifeAssumption`); the two days of the ledger, the two lines of an entry and the two receipts and
one return of an order, of any lines, are part of the model. `ImportSafety` assumes `OneSize`, all commits ask for the same batch size: a repeated commit takes over the
numbers of the batches that are completed, and with another size these are other rows, so that without it the
job ends COMPLETED with rows missing. `PlatformInvariance` is the common part, on top of `Ready`.

With overlap, an invariant has to speak of what every request in progress has read and done. For imports, of
each of them: all it will leave out is there (`RunDone`), for what was there when it read stays; batches
marked as completed, by whichever commit, were written; and as long as none of its batches failed it has left
nothing behind the next one. That a row is created once needs the key: while it has not expired, one commit has begun
(`Begun`), and nothing is written beyond where it stands (`WrittenUpTo`), of which its own account was made before
it took the key (`KeyHeld`). For webhooks, a delivery is carried on by its one job in the queue
or by the one request that took the job, never by both (`Holds`, `QueueOk`), which is why counting the
attempt before the call is enough. Sessions, numbers, default tiers and budgets are written by single statements, so
that their invariants are about the rows alone (`SharedOk`). Where requests must not overlap, the properties of the catalog, the
locations and the compensations are almost inductive; contacts need that a request of `crm/` between
its two statements has left no other primary one (`CrmCleared`), notifications what each step of sending has
recorded (`NotifiedOk`), and bills that a request that has consumed credit for an invoice knows an amount that is
consumed still, while no invoice exists (`AppliedOk`). Subscriptions need that a provider which is silent has left
no event half-way.

Two arguments are of another kind. That departments have no circle is proved from the walk the code makes:
`UpFrom` takes as many steps up as there are departments, `UpFromClosed` shows that it then has met everything
above (each step that meets something new meets one department more), and `StaysOrdered` that a department
which is not met on the walk from its new parent can be put below it. And that owners reach their endpoints is
proved controller by controller (`EndpointsReached`): what each of them requires is among what the seed knows of
that part of the system (`KnownGroups`), and a step never changes what the role of the owner is granted.

The stock and the books are sums, and what makes them agree is a way of adding up. Purchases
(`PurchasingOk`): what a line has received, whichever service received it, is the sum over the posted receipts, and a
return takes from its receipt no more than that has brought. Costs (`CostingOk`): layers are consumed
first in, first out; after taking `n`, of what the first `i` layers had, `LeftIn(layers, i)` less the smaller of `n` and
that is left, from which follow the order, that no layer gives more than it received, and that the layers hold
at least what is on hand.

Statements (`LedgerOk`): a posted entry has two balanced lines on accounts that are not deleted, since an
account with a line, even one of a draft, is not deleted. By `NetsToZero`, an induction over the entries, the accounts
together are then debited what they are credited over any days; `TypesAddUp` splits that sum by the five types,
and with the sign each type has in its balance (`TypeTotalIs`) it is the balance sheet (`SheetBalances`);
`DaysSplit` gives the trial balance and the cash flow. None of it depends on the types and parents that accounts
have, so that changing these is harmless. A period that is closed has no draft, for a draft is written in
an open period and the check looks at all of them. The chart of accounts (`ChartOk`) is read as a hierarchy of departments, so that
`StaysOrdered` serves both. Its check is another one, however: it climbs from the new parent, and says no when it
meets the account or any account twice. `NotCircularBelow` shows that a climb that meets neither ends within as many
steps as there are accounts (`FS_PigeonHole`), and so has seen all that is above; `OrderedNotCircular` that in an
ordered chart no climb is called circular, that is that the check never refuses the parent an account has.

A locked statement (`BankingOk`) needs that its session is not open any more; depreciation (`AssetsOk`) that a
draft has no posted month, since capitalizing it replaces the schedule, and that voiding and disposing leave the
posted months as they are; a locked tax period (`TaxInv`) that a request that has posted its journal entry
in one transaction finds the period not locked in the next. One budget is active because that is a single conditional statement, so that requests about budgets may overlap.

Every safety property that a passing run of `BackOffice` checks is thereby proved for its domains. The domain of
non-conformances (`NcrNext`) has no property of its own: what is stated of them, that rejected goods have one, is part
of the quality domain. Only model-checked, of the whole project, is the liveness property `RunsEnd` of the workflow
engine (see above), since neither fairness nor `ENABLED` is within reach of the prover.

## Not modelled

- The web frontend (`src/apps/web`), shared packages, DTO validation, generated code and migrations beyond the
  constraints that are used: no state of their own.
- Read-only parts: analytics, search, dashboards, indicators, the reconciliation with the subledgers,
  budget against actual, stock availability, matching suggestions, the API documentation.
- Configuration: tax codes and rates, warehouse zones and bins, plans and discounts, notification
  templates and preferences, carriers, policies, connections, workflow definitions. They are edited by
  handlers of the shape of `MasterData`, and the models take what they say as constants or as any choice.
- Batches and serials: no counter of theirs is shared; movements are modelled without them.
- Exports write files. Events and audit records are appended and read by nobody who decides.
- Formatting of numbers, prices, currencies and dates, e-mail and HTTP calls to providers (they
  succeed or fail).

## Plan

1. Done: order to fulfilment, the workflow engine, settlement, the back office, access, master data.
2. Proofs: done for sales, for settlement and the workflow engine with their refinements, and for
   every domain of the back office that a property is about.
3. Finer reads: where a handler of the back office reads several rows one after the other and their
   order matters, one step per read, as in `SalesOrders`.
4. Batches and serials as part of the movements of `Warehouse`.
