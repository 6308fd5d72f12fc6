# A formal model of the MIK club backend

The repository is the intranet of a flying club: members book aircraft, log flights, pay fees,
claim expenses. `src/apps/backend` is an Express server over PostgreSQL with background workers;
every invoice, credit note and reimbursement it decides on is written to an outbox table and
turned into a document at an external accounting service, SimplBooks. Two web applications and a
proxy stand in front of it.

This directory models the parts where money, the aircraft's technical logbook and shared aircraft
depend on what happens *between* two database statements or two processes: places where a unit
test sees one request at a time and the code meets several.

## 1. Inventory

Paths are under `src/apps/backend/src/` unless they start with `src/`.

| Part | State | Operations | Talks to | Correct when |
|---|---|---|---|---|
| **SimplBooks outbox** `workers/simplbooksOutboxWorker.ts`, `services/simplbooks/simplbooksOutboxHandler.ts`, `db/outbox-simplbooks-queries.ts` | `accts.outbox_simplbooks`: type, payload, status PENDING/PROCESSING/SYNCED/SKIPPED/FAILED | enqueue (inside a business transaction), start-up sweep, claim with SKIP LOCKED, ten handlers, admin retry | SimplBooks over HTTP, mail, everything that enqueues | one document on record per message, one e-mail per invoice, settled is final, nothing forgotten |
| **Flight log** `routes/flight-log/api.ts`, `db/flight-log-queries.ts`, `src/sql/.../V1560` | `flight.logs`: status NEW/VALIDATED/QUEUED/INVOICED/PAID, billable member, linked fuel and oil records | insert, validate, revert, patch, delete, link | liquid records, invoicing | frozen flights stay; a flight turns NEW, entered or reverted, at the end of the logbook only |
| **Flight invoicing** `routes/invoicing/api.ts`, handler `createFlightInvoice`, `workers/simplbooksInvoicePaymentWorker.ts` | flight statuses, invoice numbers, `paid_at` | the treasurer's run, invoicing, payment sync | flight log, outbox | each flight on one invoice, to the right member, never stranded |
| **Membership fees** `services/accounting/recurringFeesProcessor.ts`, three handlers | `accts.recurring_fees_processing`, `member.annual_fees` | approval, yearly run, equipment fee request | outbox | each fee charged once a year, nobody left out |
| **Aircraft bookings** `routes/bookings/api.ts`, `db/booking-queries.ts`, `src/sql/.../V325` | `schedule.bookings`, `reminder_sent_at` | create, patch, cancel, transfer, reminder claim | suspension | confirmed bookings of an aircraft do not overlap; one reminder each |
| **Overdue invoices and suspension** `workers/overdueInvoiceWorker.ts` | `can_make_reservations`, `overdue_email_sent_at` | daily sweep: restore, suspend and cancel bookings, remind | bookings, invoices, mail | who owes nothing is restored, who owes long is suspended |
| **Membership cancellation** `routes/members/api.ts`, `db/member-queries.ts` | member type, `pre_removal_snapshot`, CREDIT_NOTE messages | cancel (six statements), restore | bookings, suspension, fees, outbox | a removed member comes back as before; what is revoked stays revoked |
| **Prepaid hours** `services/accounting/flightPrepaidAllocator.ts`, `flightInvoiceCreator.ts`, `db/prepaid-hours-queries.ts` | `prepaid.member_packages`, usage log | greedy plan under row locks, invoice, application; purchase, extension, expiry | flight invoicing, shop | a plan still fits when the invoice is back; every minute is given or charged once |
| **Shop** `routes/shop/api.ts`, `db/shop-queries.ts` | carts, stock, options, discount uses, orders | cart, checkout in one long transaction, status, stock | outbox, prepaid hours | nothing is oversold, one invoice per order |
| **Expenses** `routes/expenses/*.ts`, `db/expense-queries.ts`, `db/liquid-queries.ts`, `services/fuelReimbursement.ts` | claims and line items, linked liquid records | draft, submit, retract, correct, reject, approve, reimburse | outbox, liquid records | a record is on one claim or free, a claim lists only what it holds, what is paid adds up to the cent |
| **Inventory reservations** `routes/inventory-reservations/api.ts`, `db/item-reservation-queries.ts`, `src/sql/.../V2030` | reservations, items and units | reserve, patch, cancel; units come, go and move | - | a unit is promised once at a time, an item no more than its units in service carry |
| **Sessions** `db/session-queries.ts`, `routes/auth` | `member.sessions`, tokens | login, refresh, revoke | - | a revoked session is never refreshed |
| Synchronisations (SimplBooks members, Brevo), exams and training records, occurrences, findings, meetings, documents, reports, web applications, edge proxy | | | | see `PROJECT.json`, `components` |

What makes it hard is the same everywhere. A request handler reads, awaits and writes, in different
transactions; a second request, a worker or an admin may act in between. PostgreSQL runs at READ
COMMITTED, so a trigger or a check sees only what is committed. A process can die at any await, and
a deployment may have two alive. SimplBooks and mail cannot be rolled back. The `hazards` of
`PROJECT.json` list these places line by line with the properties that watch them.

## 2. Modules

| Module | Role |
|---|---|
| `OutboxPromise` | abstract outbox: open, settled, filed |
| `SimplbooksOutbox` | the table, the worker and the handlers; implements `OutboxPromise` |
| `FlightLog` | one aircraft's flights and the requests of admins and pilots |
| `FlightInvoicing` | extends `FlightLog`, composed with `OutboxPromise` |
| `MemberFees` | approval, yearly run, equipment fee and handlers, composed with `OutboxPromise` |
| `Expenses` | claims, the records they are made from, approval and its messages, composed with `OutboxPromise` |
| `FuelPayout` | what a fuel claim pays, as a calculation; `Expenses` extends it |
| `FuelClaim` | a claim while its rows are entered, and the properties of `FuelPayout` |
| `PrepaidHours` | allocator, invoice lines, and the handler's transaction between plan and application |
| `Shop` | carts, orders, stock, packages and order invoices, composed with `OutboxPromise` |
| `ItemReservations` | reservations, capacity trigger, items and units |
| `Bookings` | one aircraft's schedule: requests, trigger, reminders |
| `Suspension` | extends `Bookings`: who may reserve, the nightly sweep, the admin's revocation, tokens |
| `Removal` | extends `Suspension`: a membership cancelled and restored, the fee's credit note |
| `MC*` | constants and initial states of TLC's instances |
| `SumTheorems` | what sums over finite sets obey: the lemmas that the proofs about money, minutes and stock rest on |
| `Bookings_proofs` | theorems of `Bookings`, `Suspension` and `Removal` |
| `FlightInvoicing_proofs` | theorems of `FlightLog` and `FlightInvoicing` |
| `Expenses_proofs` | theorems of `Expenses`, `FuelPayout` with `FuelClaim`, and `PrepaidHours` |
| `SimplbooksOutbox_proofs`, `MemberFees_proofs`, `Shop_proofs`, `ItemReservations_proofs` | theorems of the module they are named after |

The composition follows the code: the code that enqueues sees of the outbox only that a message
stays open until it is settled, once, with its document or without. `SimplbooksOutbox` proves
that promise once, and the four modules composed with it use the promise instead of the worker.

### How state and actions correspond to the code

**SimplbooksOutbox.** `status`, `type`, `cause` and `docref` are the table (the last two are what
a follow-up's payload refers to); `local` and `sentAt` are the invoice rows; `created`, `emailed`
and `markedSent` are the outside world, which no rollback touches. `pc`, `cur`, `doc` are a
worker's program counter between two awaits. `Claim` is the claiming transaction, `Clear` the
handler's reads, `Create`/`CreateUnheard` the HTTP call with and without an answer, `Record` the
rest of the transaction up to COMMIT, `Email`, `MarkSent`, `CommitSent` those of the e-mail handler,
`Throw` an exception at any await, `CatchOwn` and `Report` the two catches, `LoseReport` a failing
UPDATE in the catch, `Sweep` the start-up reset, which the code does not await before its loop.
An order's INVOICED and the credit note's local effects happen in the transaction of `Record` and
are not told apart; an order's PROCESSING, which the handler commits before that transaction, is a step
of `Shop`. Row locks are modelled where they matter: an e-mail transaction holds its
own row locked while the mail leaves.

**FlightLog.** A request is a record in `req` between its last read and its write. `BeginX` is the
read with the route's checks, `X` the statement that follows, on whatever the row has become. The
trigger is `ProtectedPeriod`. It locks nothing and sees committed rows only, so the two
writes that make a row NEW are two steps each: `Insert`/`Enter` and `Revert`/`Thaw`, statement and commit, with the row locked in between (`Locked`). `since` is
history: the later flights frozen while a statement waits. A PATCH writes the payer of a row and
decides nothing that changes until its commit; it is one step. Flights are numbered in time order in disjoint slots; changing a
flight's times is not modelled. `linked` stands for "the records the flight needs are linked".

**FlightInvoicing.** `BeginRun` is the snapshot of invoicable flights grouped by member,
`InvoiceFlights` one member's transaction, `Crash` drops all open requests, `Invoice` is
the handler's effect through `OutboxPromise!File`, `MarkPaid` the payment sync, which may come back
to an invoice because its list is read long before it is worked off.

**MemberFees.** `process` is the row of the year's run, `rows` the `member.annual_fees` table,
`charges` the invoices on record, `made` the invoices SimplBooks really holds. `BeginRun`,
`StartRun`, `ListMembers`, `QueueMember`, `CompleteRun` are the awaits of
`createAnnualMemberFeesForMembers`. Any open message may be handled next, because a FAILED one may
be retried at any time. `InvoiceFees`, `RejectDuplicate` and `LoseInvoice` are the handler that
commits, the handler that the primary key stops after SimplBooks has acted, and the handler that
dies or throws after SimplBooks has acted. `NewYear` lets the calendar move under open messages.

**Bookings.** `book` is the table, a request in `req` is between two awaits as in `FlightLog`:
`BeginCreate`/`BeginPatch` are the checks and the read of what is in the way, `Clear` one turn of
the loop that cancels it, `Insert`/`Update` the statement with constraint and trigger, `Commit` its
commit. Statement and commit are two steps because the trigger, which locks nothing, sees
committed rows only; a waiting statement holds its row (`Locked`). Two bookings can therefore come to
overlap. What each request keeps, as history, is what others wrote since it read the schedule
(`since`) and since its trigger looked (`unseen`): the properties say that these are the only ways. `Cancel`, `Transfer` and the
reminder claim are one step: they confirm nothing and move nothing, so no other trigger minds when
exactly they commit. `Passes` is the trigger, for any UPDATE and whatever the new status; `Audited` is
the CHECK that keeps a cancelled row cancelled. Who a booking's instructor is is not kept: any of
`Instructors` may write, which allows more than the code.

**Suspension.** `sweep` is the program counter of `processSuspendedMembers`, `claim` the
`canMakeReservations` of each member's token, `overdue` what the invoice queries would find. Restoring
or suspending one member, a read and a write, is one step: the write does not depend on anything
that changes in between but the same flag. Register and bookings are written in two steps, by
the sweep (`Suspend`, `PurgeSuspended`) and by the admin (`Revoke`, `Purge`).

**Removal.** `kind` is the member's type, `snapshot` the column that restoring reads, `fee` the
year's annual fee invoice, `notes` the CREDIT_NOTE messages written for it. `BeginLeave`,
`ReadMember`, `Deactivate`, `ClearBookings`, `ListFees`, `SendNote` are the awaits of
`cancelMembershipHandler`, which runs in no transaction; `BeginReturn` and `RestoreMember` those of
restoring. Between any two of them another request, the sweep, the reminders and a crash may come. Two
histories: `was`, the type a member last had before a removal, and `late`, that another
request wrote the register after a cancellation looked at the type and before it wrote.

**Expenses.** A request in `req` has judged its claim by the status it read, and writes with one
transaction that (but for `Retract`) does not ask for the status again. `Relinked`/`Released` are
the UPDATEs that tie fuel records to a claim and let go of them, `MayLink` the check that all of
them were found free, which rolls the transaction back. `Approve` decides with `FuelPayout` on the
items it read which message to send.

**FuelPayout.** Litres have three decimals and prices four, so what fuel costs is a number of parts of a
cent, `Fine` of them to the cent; what is paid is whole cents. `FuelReimbursement` is the capped total, the
club card's part, and the difference either way, each rounded by itself (`ToCents`, the `toFixed(2)` of
the code). `Share` is `round2` of a row's share, `PayoutRows` gives the last row what is left over. The
code reckons with floats, which may round an exact half either way; no property depends on that.

**PrepaidHours.** `package`, `log` and `billed` are the tables and the invoices; a worker's `planned`
is its open transaction from `SELECT ... FOR UPDATE` (`Plan`) over the HTTP call to the writes
(`Apply`, or `Fail`). `Allocate` is the greedy loop as a fold over the pairs of flight and
package in the code's order; `Charged` is what is left of a flight's lines.

**Shop.** `TakeStock`, `ReadOption`, `WriteOption` are the statements of the checkout
transaction, `CommitOrder` its last ones with the COMMIT; what is taken and not committed is in the request,
and `Locked` says whose rows another's UPDATE waits for. `Victim` is PostgreSQL's deadlock detector. The
three statements of `updatePrepaidPackage` are `ResizePackage`, `ReadSold`, `SyncStock`; `supplied` is history: what
the admins have put in stock.

**ItemReservations** is laid out as `Bookings`: `Judged` are the request's checks, `Insert`/`Update` the
statement with constraints and trigger (`Passes`), `Commit` the commit. `Patched` merges a PATCH into
the row as it is when the statement runs. `since` is history: the reservations written and the units
retired or moved while a statement waits for its commit.

## 3. Runs

| Run | Question | Result and bounds |
|---|---|---|
| `outbox` | Does one worker keep the outbox's promise through crashes, sweeps, lost reports, retries and unheard calls, and does every message end? | holds under `Fairness`; two requested messages with their follow-ups (4 rows), 1 crash, 2 retries, 1 lost report |
| `invoicing` | With one admin at work and a pilot's stale requests, is each flight invoiced once, to its payee, moving forward only? | holds; 3 flights, 2 members, 2 messages |
| `invoicing_two` | What survives two admins at once with stale reads? | nothing is stranded, invoice and payment agree, no frozen flight is deleted, and a flight turns NEW before a frozen one only if that one was frozen between trigger and commit; 2 flights |
| `fees` | Two clients start runs and ask for equipment fees, over two years, with crashes and a handler cut short | nobody queued twice, processed means queued, charged once, made once; 2 members, 3 messages, 1 fault |
| `bookings` | Do the trigger, the constraint and the claim hold under interleaved requests? | hold: bookings overlap only through statements that were uncommitted together, or, tentative ones, through a write behind a request's back; an admin, a member, an instructor, 2 bookings, 2 requests and 2 statements at once, 3 slots that overlap or touch, 1 crash |
| `suspension` | Are members restored and suspended as they should when a sweep is cut short, and can a removed member be restored as before, with two requests at once? | holds under `Fairness`; 2 members and 1 admin, 2 overlapping bookings of which the trigger protects one, 1 crash at any await, 3 turns of debts and grants |
| `removed_member` | Does the nightly sweep leave a removed member alone? | violated, see findings |
| `expenses` | Do records and claims stay in step when a member's requests from two sessions and a treasurer's overlap? | holds; 2 claims of which the treasurer reviews one, 1 record that both may list, 2 requests at a time, 1 message followed to its end |
| `amounts` | Do a fuel claim's rows add up, at every price? Does a plan of prepaid minutes still fit when its invoice is back, and are all minutes charged once? | holds; claims of up to 4 rows, costs in thirds of a cent; 2 packages, 3 flights in 2 messages, 2 workers |
| `reservations` | Do the checks and the trigger keep units apart and items within capacity while units come and go? | hold, but for what is written between trigger and commit; 2 reservations, 2 requests or statements at once, 2 items, 3 units, 2 users |
| `shop` | Two members check out while an admin edits stock, an option or a package: do sold, issued and in stock agree? | holds; 2 orders, a shirt with an option and a flight hour package, 1 admin edit |
| `shop_discount` | Is an order invoiced at the total its member was told? | violated, see findings |

Bounds. Three flights are enough for "a flight between two others", two members and two messages
for "the wrong one", two clients for every race of a read with a write, because a request keeps only
one read. Clients, admins, users and bookings that are interchangeable are
symmetric in the large runs without liveness; members are not, when one of them renews the equipment
fee or knows the code. One crash can hit every program counter. A message is retried twice so that a retry can follow a retry that
failed. Everything that counts upward is bounded by a constant named in its guard (`MaxRequests`,
`MaxCrashes`, `MaxRetries`, `MaxLost`, `MaxFaults`, `MaxDocs`, `MaxStatements`, `Horizon`, `MaxRows`, `MaxItems`,
`MaxUses`, `MaxOwned`) or by the finite set it draws from. Two rows are enough for "a pair overlaps". One
package beside another is enough for "the one that expires first", three flights for "two that share a
package and a third in another message". `amounts` checks its two calculations one or the other at
a time (`NoHours`): they share nothing but the arithmetic. `shop` follows what becomes of
a placed order only while no checkout is open (`InTurn`): the two halves share the order's status and nothing
else. `expenses` has room for one message and one treasurer, so two overlapping approvals are not in it: what
they lead to is in section 4. `suspension` draws one of two scenes at the start: the
memberships cancelled and restored, without the sweep, and the debts, in which nobody leaves, and the admin alone
has requests; what the sweep does to those who have left is `removed_member`'s question, where the two go
on together. Both of these runs serve one booking statement at a time, since what two do to each other is
`bookings`' question; they start from two bookings that overlap, which is what it leaves behind.
The outbox runs with one process; the theorems that hold for any number say so.
All runs but `suspension` set `CHECK_DEADLOCK FALSE`, since a bounded instance stops
when its flights, messages, years or bookings are used up.

Fairness in `outbox`: the platform restarts a dead process, the event loop runs the
sweep and the loop, and an HTTP call ends within its 30 s time-out. Admins, request handlers and
faults are under no fairness. `EveryMessageEnds` speaks of behaviours without a lost report: a failure that could not
be written down leaves a row PROCESSING until the next start, which nobody promises.

Fairness in `suspension`: cron starts the sweep every night and the sweep goes on (weak), a statement
commits (weak), and a statement that waits for a row lock is given it (strong, since PostgreSQL serves
waiters in order while other requests keep locking the row). Crashes are bounded, requests are under no
fairness.

Every passing property has a mutant of the code under which TLC finds it violated; they stand next to the
definitions they change and are listed in `PROJECT.json`.

## 4. Findings

Each run that expects a violation quotes what the code, a comment or a document says.

- `SweepLeavesRemoved` (run `removed_member`): removing a member clears `canMakeReservations`
  (`db/member-queries.ts:948`, tested at `test/db/member-queries.test.ts:582`), and the next nightly sweep
  sets it again, because it restores whoever owes no overdue flight invoice, removed or not
  (`workers/overdueInvoiceWorker.ts:219`).
- `BilledAsConfirmed` (run `shop_discount`): the confirmation mail states the total with the discount
  taken off (`templates/shop-order-confirmation-en.md:15`); the invoice charges quantity times unit price
  and never reads `discountAmount` (`services/simplbooks/simplbooksOutboxHandler.ts:501`), which the order's
  total has had taken off (`db/shop-queries.ts:1259`).

The models also show the following. No run asserts them: no document promises otherwise, and a property
that is checked says in its comment which of these it has to exclude.

*Flights and invoices*

- two overlapping invoicing runs read the same list and invoice a flight twice; the UPDATE does
  not ask for VALIDATED (`db/flight-log-queries.ts:1803`, `:1812`);
- with two admins, a PATCH that read VALIDATED changes the payer of a flight that is already queued for
  its invoice (`routes/flight-log/api.ts:503`), so `BilledToPayee` needs the single admin of `invoicing`;
- a liquid record can be unlinked or deleted between the liquid check and the write, and leaves a
  validated flight without it (`routes/flight-log/api.ts:567`);
- a revert of a flight and a validation of a later one, both uncommitted, pass order check and trigger and leave
  a NEW flight before a frozen one; so does an entry beside a validation (`V1560:20`, which locks nothing and sees
  committed rows only). `NewAtTheEnd` says that this window is the only way;
- validate checks that all earlier flights are validated, awaits, and writes; an earlier flight inserted
  meanwhile stays NEW before a frozen one (`routes/flight-log/api.ts:529`, `:591`).

*Fees and removal*

- a new member reached first by the yearly run never pays the joining fee
  (`simplbooksOutboxHandler.ts:169`, `:172`, `:269`);
- two requests for the equipment fee before the first is invoiced make two invoices at SimplBooks, of
  which the primary key keeps the second out of the database (`recurringFeesProcessor.ts:41`):
  `MadeOnce` speaks of the annual and joining fees only;
- a crash in the yearly run leaves its row in progress for good, and no run of that year can start
  (`recurringFeesProcessor.ts:134`);
- a fee queued in one year and handled in the next charges the next year
  (`simplbooksOutboxHandler.ts:224`): the payload carries no year;
- overlapping cancellations of one member overwrite the snapshot with REMOVED, and overlapping
  restorations fall back to FLYING (`db/member-queries.ts:915`, which reads without a lock);
  `RestorableAsBefore` leaves out the cancellation that another request's write has overtaken, and says that
  nothing else loses the type;
- cancel, restore and cancel again before the payment sync writes a second credit note for the same fee;
- a failure or a crash after the deactivation leaves the fee uncredited, and the second attempt is
  refused because the member is REMOVED (`routes/members/api.ts:1236`); a fee whose message was
  queued earlier is invoiced after the removal;
- the mail about a removal says that equipment fees are credited
  (`templates/member-removed-en.md:5`), which `getUnpaidMembershipFeesForYear` does not select.

*Bookings and suspension*

- two booking statements in flight at once both pass the overlap trigger, and both commit (`V325`);
  `ConfirmedApart` says that two confirmed bookings overlap in no other way, and `LiveApart` that a tentative one does
  so only if one of the two was written after the other's request had read the schedule;
- the trigger raises on every update of a row that a confirmed booking overlaps, so of two overlapping
  bookings neither can be cancelled, and such a row fails the whole reminder claim and the
  sweep's cancellations;
- a crash between suspending a member and cancelling the bookings keeps the bookings for good: the
  next sweep finds the member suspended already (`overdueInvoiceWorker.ts:246`);
- a suspended member books with an old token, or is given a booking by a transfer checked before
  (`routes/bookings/api.ts:51`, `:478`);
- the sweep restores whoever owes nothing, whoever suspended them: an admin's revocation lasts
  until the next night (`overdueInvoiceWorker.ts:217`).

*Expenses*

- records of an approved claim can still change when two requests overlap
  (`db/liquid-queries.ts:562`, `db/expense-queries.ts:578`), and the admin's override of a fuel price
  changes rows made from records, although `treasurerEdit` calls itself the one path that may
  (`db/expense-queries.ts:935`);
- two approvals that overlap send two reimbursements: `approveExpenseClaim` has no status in its WHERE
  (`db/expense-queries.ts:694-711`), and the route's check (`routes/expenses/api.ts:1022`) is made before;
- reject, back to draft and submit pays the items of records that the rejection released;
- back to draft of an approved claim whose message is still open leads to a second reimbursement;
- a PUT with line items and no list of records leaves the records linked; a PATCH or DELETE of a
  record that began before the link writes a linked record.

*Amounts*

- the last row of a fuel claim takes the remainder: it can exceed its own cost, or be negative, by
  cents; a float may round an exact half either way;
- what the member gets and what the card paid can differ from the trip's total by a cent, since each figure is
  rounded by itself (`fuelReimbursement.ts:73-82`);
- more prepaid minutes credited than flown makes the invoice handler throw.

*Inventory reservations and shop*

- with two statements in flight both pass the capacity trigger (`V2030:65`), to which `UnitApart` and `WriteFits`
  confine what can go wrong; units that leave service
  leave promises behind, since only reservations are checked; the unit's old status, which decides the
  path, is read without a lock;
- two POSTs of one member order one cart twice and pass `maxOwned`; two members together pass a
  code's `maxUses`; lines added to the cart during the checkout are deleted without being ordered;
- an admin's edit of an option between a checkout's SELECT and UPDATE is lost, and an update of a prepaid
  package leaves the stock of its product behind;
- a status set by an admin overwrites whatever was there, and the invoice handler overwrites
  CANCELLED (`db/shop-queries.ts:1365`).

## 5. Theorems

`tlapm` checks the following for every value of the constants.

- **SimplbooksOutbox_proofs**, any number of rows and processes: `TypeCorrect`, `RecordedIsReal`,
  `OneMail`, `SentMeansSent`, `NoneForgotten`. The inductive invariant `Inv` adds to typing what a
  worker's program counter says of its row: which row it holds, that a document number it carries
  is one that SimplBooks has, that a row not yet inserted is pristine, that a client exists once. The
  mail property needs `FollowUpFiled`: a follow-up refers to a recorded document.
  Assuming one process (`instance_count: 1` of the deployment):
  `RecordsOnce`, `SettledStays` and `ImplementsPromise`, the refinement `Spec => Promise!Spec`, with
  `DispatchOpen` (the row under dispatch is not settled) as the key lemma. With two processes
  all three are false: the second one's sweep hands out a row that the first is dispatching.
  `RecordsOnce` and `SettledStays` follow from the promise, which is what the run checks.
- **FlightInvoicing_proofs**, any number of clients: `KeptWhenFrozen`, `TypeCorrect`,
  `NoneStranded`, `OnRecord`, `PaidTogether`, `TurnsNewOnlyAtTheEnd`. The invariant `Books` ties the payloads, the
  open messages and the statuses. The last theorem needs that a statement which waits for its commit has noted every
  later flight that is frozen by now (`Seen`), through all the actions of both modules that freeze one.
- **MemberFees_proofs**, any number of members, years, admins and messages: `TypeCorrect`,
  `OnceQueued`, `OnceCharged`, `OnceMade`, `AllQueued`. None of the properties is inductive: `Inv` adds
  that a settled message is closed and a sent one well-formed (`MessagesKnown`), that a year without a row
  has no run and no message, has one client past `StartRun` at most, and that this client has sent one message to each
  member it listed and no longer has to queue, to others none (`RunsApart`), that no member has two
  messages of one run (`OneEach`), that only a settled message has an invoice (`InvoicesKnown`), and that,
  until a handler is cut short, SimplBooks has no fee without its row (`MadeWithRow`). The frame lemmas `RunsFrame` and `FeesFrame` dispose of
  the actions that leave the runs, or the fees, alone.
- **Bookings_proofs**, any number of bookings, users, slots, requests and statements at once: `TypeCorrect`,
  `RemindedAtMostOnce`, `CancelledStays`, `ConfirmedStayApart` and `LiveStayApart`. The invariant `IInv` says of a request
  between two awaits what is still true of the schedule it read: what waits for its commit still passes the
  constraint, because it holds the lock of its row (`Pending`, `OneWriter`), and whatever overlaps its slot by now is
  among the bookings it has still to clear or was written since (`Looked`).
  For `Suspension` and `Removal`, any number of members, bookings and requests: `RegisterTypeCorrect` and
  `RemovedIsRestorable`, which needs that a cancellation not overtaken has read the type that the member still has, and
  that a removed member's snapshot is the type of before (`Remembered`).
- **ItemReservations_proofs**, any number of units, reservations, requests and statements at once: `TypeCorrect`,
  `UnitsStayApart` and `WritesFit`. The invariant says that a request writes a row that is there (`AboutRows`) and
  that what the trigger found, that the unit is free and the item has room, is still so of everything that was not
  written while the statement waits (`Looked`). That a commit then promises no more than is in service follows from the sums: the load at an hour is
  what the trigger added up.
- **Expenses_proofs**, claims, for any members, treasurers, claims, records and requests under way: `TypeCorrect`,
  `NoneStranded` and the action property `SavedIsLinked`. `Inv` adds what a request under way carries: the
  items of a payload come from the records it picked, and a correction leaves an item its record (`Judged`).
- The fuel payout, for any rows, prices and parts of a cent: `PayoutIsExact` (to the cent), `PayoutIsFair` (row by
  row) and `CardNotReimbursed`. The sum of the rounded shares is bounded by an induction over the rows
  (`HalvesBounded`), the cost of the rows splits into those the card paid and those the member paid
  (`CostsSplit`), and `ToCentsFacts` bounds what one rounding does to an amount.
- Prepaid minutes, for any flights, packages, messages and processes: `OldestGivesFirst`, `PlansStillFit` and
  `FlightsBilledInFull`. The allocator is a greedy loop; by induction over its pairs (`AllocateGreedy`) its plan is
  `Greedy`: no package gives more than it has, no flight takes more than it is billed for, and a pair is passed by
  only when one of the two has nothing left. Every such plan is the one that the closed form describes
  (`GreedyOldest`): what a package gives is what the flights need beyond the packages that expire first.
  `HoursInv` then carries a plan through the HTTP call: two open plans have neither a package nor a message in common,
  because the rows are locked and the message is claimed (`Separate`), so what one worker writes leaves
  the other's plan as sound as it was (`PlansKept`); and the flights of a message are billed together.
- **Shop_proofs**, any products, options, members and sessions: `TypeCorrect`, `StockIsConserved`,
  `OptionsAreConserved`, `PackagesAreIssued`, `OrdersInvoicedOnce`. A sum over open requests and orders is not
  inductive by itself: `Inv` adds how far through its lines a checkout is (`InOrder`), that the
  stock covers what it has taken (`Covered`), that two checkouts never hold the same product (`Apart`), and that
  what it has read of an option, without a lock, is still true less its own lines, because the option's product is
  locked (`ReadTrue`, which is why an option must belong to one product). An admin who overwrites an option in the middle
  breaks that, and the invariant says so: it speaks of the options not `overtaken`.
- **SumTheorems**: sums over finite sets are defined by the community modules through a recursive function. Its
  lemmas (`SumAdd`, `SumUnion`, `SumMonotone`, `SumTimes`, `SumColumns`, `SumRows` and others) are proved from
  `FamilyByOne`, an induction over families of finite sets that rests on the least element of a set of
  naturals; it is stated for a set, not for an operator, which is the form the provers can use.

Assumptions on the constants are the named ASSUMEs of the modules, which TLC evaluates in every run:
identifiers are positive naturals, bounds are naturals, request types are those that request handlers may enqueue,
admins and pilots are different clients, the sets that sums range over are finite (records, packages, flights,
reservations, units, members), and an option belongs to one product. One theorem module has a
hypothesis besides: `RecordsOnce`, `SettledStays` and `ImplementsPromise` assume one worker process, which is how the
backend is deployed. The others hold of any number of processes, clients, requests and statements. No module declares a RECURSIVE operator.

Every invariant and every action property of the passing runs is stated by one of these theorems, with three
exceptions. `InvoicedOnce`, `BilledToPayee` and `BillingGoesForward` are true with one admin at work, and false with two
(section 4); the code does not guarantee one, so they are model-checked on that instance and not stated as
theorems. Only model-checked too are `EveryMessageEnds`, `PaidIsRestored` and `LongDebtIsSuspended`, since
liveness under fairness needs ENABLED, which is beyond the prover, and the two violations of section 4.

## 6. Plan

In order of what an error would cost the club.

Done: the outbox with its promise, liveness, proofs and refinement; the flight log, flight invoicing over
both, membership fees, bookings, suspension and removal, expenses with the fuel payout, prepaid hours, the shop
and inventory reservations, each with proofs of all its safety properties.

Left:

1. The refinement of the composed modules: that `FlightInvoicing`, `MemberFees`, `Expenses` and `Shop` each
   implement `OutboxPromise` over their own variables, so that the composition is a theorem too.
2. Prepaid balances inside `FlightInvoicing`, whose flights carry no minutes so far.
3. Sessions: token lifetimes against suspension and removal.

## 7. Not modelled

- *Outbox*: dry-run mode; a COMMIT whose acknowledgement is lost (the worker would write FAILED on
  a SYNCED row); a graceful shutdown is a crash.
- *Flight log*: several aircraft (they share nothing), changes of times, crew and remarks, page and row
  numbering of the printed logbook, legacy manual litres, a liquid admin's overrides.
- *Flight invoicing*: prices, invoice lines, credits, e-mail follow-ups (they are in the outbox).
- *Membership fees*: prices, members' eligibility conditions, which stay as they are while the model
  runs; the end of a membership and its credit notes are in `Removal`.
- *Bookings*: a change of aircraft, the role check of instructors, descriptions and cancellation reasons,
  calendar sequence numbers, mails other than reminders.
- *Suspension*: the overdue mails; a second sweep at once.
- *Removal*: mails, roles, mailing lists, an admin's own change of `memberType`, the promotion of
  juniors to flying members, fees without a payment reference, for which no credit is queued.
- *Prepaid hours*: rates and articles, the equipment and error fees, the preview, which plans without
  locks and writes nothing (`routes/invoicing/api.ts:148`), the second UPDATE of
  `extendExpiryForAircraft`; `deductMinutesFromPackage` and `createMemberPackage`, which have no caller.
- *Expenses*: receipts and attachments, mileage legs, the messages between member and treasurer.
- *Inventory reservations*: quantity adjustments, locations, categories, the audit log, the link to a
  booking.
- *Shop*: products and categories, the discount code in the order's own body, publishing, mails.
- *Web applications* (more lines than the backend): forms and tables, which hold no state that
  outlives the page; the backend decides every state change.
- Everything else listed with status `not_modelled` in `PROJECT.json`, with the reason.
