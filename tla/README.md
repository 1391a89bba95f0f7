# Lion safari ticketing in TLA+

The program sells tickets for a safari park: online through a payment gateway
(Cashfree), at the counter for cash, and offline at a till that holds a book of
pre-issued blank tickets. A gate scanner, often offline, admits groups. The
server is one Next.js application over Postgres with a job worker (pg-boss);
tills and scanners are browsers with an IndexedDB.

Paths below are relative to `src/src/`.

## 1. Inventory

| # | Component | State it keeps | Operations | Talks to |
|---|---|---|---|---|
| 1 | Booking state machine (`domain/booking/status.ts`, `create.ts`, `refund.ts`) | `bookings` (status, idempotency key, visit date) | createBooking, transitionBooking, cancelBooking, refundOnlineBooking | 2, 3, 5, 6 |
| 2 | Tickets (`domain/ticket/issue.ts`) | `tickets` (one per booking, UNIQUE) | issueTicketFor, issueReservedTicket, deactivateTicketForBooking | called in the transactions of 1, 3, 5, 7; writes the feed of 8 |
| 3 | Online payments (`domain/payment/*`, webhook route, `jobs/handlers/reconcile-payments.ts`) | `payments`, `payment_events`; the gateway's orders and refunds | startOnlinePayment, processPaymentEvent, reconcilePayments | gateway (calls, webhooks), 1, 2, 4 |
| 4 | Ticket delivery (`jobs/queue.ts`, `deliver-ticket.ts`) | pg-boss jobs, `tickets.delivered_at` | enqueueTicketDelivery, deliverTicket, resendTicketAction | 3 (after its commit), mail service |
| 5 | Offline till and ticket books (`domain/booking/reserve.ts`, `lib/counter/*`, `app/api/counter/*`) | RESERVED bookings owned by a device; the till's book, queue, meta | allocateBook, applyBook, claimBlank, pushSales, activateReservedBooking, expireStaleBlanks | 1, 2, 7, 13 |
| 6 | Counter sales online (`app/(staff)/counter/*`) | bookings, tickets; the draft key in the tab's sessionStorage, the cached page | createCashSale, voidOwnSale, the form and its reloads, the day-end slip | 1, 2, 5, 7 |
| 7 | Boarding (`domain/boarding/confirm.ts`) | `boarding_events`, `tickets.status` | validateToken, confirmBoarding | 2, 8, 9 |
| 8 | Scanner sync (`domain/scanner/*`, scanner routes) | `change_log` | buildSync, the page cursor, lookup | 2 (feed), 9 (pages) |
| 9 | Scanner client (`lib/scanner/*`, `app/scanner/scanner-app.tsx`) | IndexedDB: tickets, staging, queue, meta | handleScan, confirmBoarding, pullManifest, pushQueue | 7, 8 |
| 10 | Sessions and login (`lib/auth/*`, `login/actions.ts`) | `staff_sessions`, `login_attempts` | attemptLogin, createSession, getSessionStaff, revokeAllSessionsFor | 11, all staff routes |
| 11 | Staff accounts (`admin/staff/*`) | `staff_users` | create, edit, (de)activate, delete | 10 |
| 12 | Customer's pages (`app/(customer)/*`, `lib/rate-limit.ts`) | the form's window; the tab's timer and poll; `rate_limits` | the form, startBooking, the ticket page, PaymentPending, the look-up limit | 1, 3, 4, 13 |
| 13 | Prices and dates (`pricing.ts`, `visit-date.ts`, `lib/time.ts`) | none | pure functions | 1, 5, 12 |
| 14 | Reports (`domain/reports/*`) | none (SQL, several statements each) | list, export, totals, day-end slip, discrepancies | 1, 5, 7 |
| 15 | Administration (`admin/*` actions, `domain/settings`) | devices, rates, the offline-selling switch | CRUD; key rotation, deactivation | 1, 5 |
| 16 | Enquiries | `group_enquiries` | insert, status | nothing |
| 17 | UI, PDF, CSV, images | none | rendering | |

### What is hard here, and what makes each component right

* **Ordering and repetition of payment news (3).** The gateway repeats, delays
  and reorders webhooks; the sweep asks about the same orders under event ids of
  its own; administrators cancel and refund meanwhile. Right means: no entry
  without captured money, no money back with an entry left, one confirmation
  per event, a lost webhook is made good.
* **Transactions around calls (3).** Checkout and refund are several
  transactions with a gateway call between them; each can die in between.
* **Two copies of a book (5).** A blank exists in Postgres, in a till's book, in
  its queue, in a reply on its way and in a guest's hand. Right means: it is
  handed out once, its sale reaches the server or is still queued, a device's
  exposure stays bounded, the guest gets in, only on the day.
* **Time (5, 8, 9).** The day turns while tills and scanners are offline; the
  worker that voids yesterday's blanks races with late sales; the manifest of
  yesterday must not admit.
* **A feed by sequence number (8).** `change_log` ids are drawn before commit; a
  watermark can pass over a row that commits later. A 30-second overlap is to
  catch it.
* **Pages, cache, queue (9).** The manifest comes in pages while the operator
  boards and the queue is pushed; every merge must keep local boardings.
* **A sale that hangs (6).** The key that makes a sale repeatable lives in the
  tab, survives reloads, logins and outages, and must be dropped exactly when
  the sale has become a ticket. Right means: no group sold twice, the slip
  agrees with the drawer, whoever paid is served.
* **A page that waits (12).** Its only wake-up is a timer that a hidden tab, an
  error or a rate limit may take away. Right means: it shows the outcome in the
  end, and the days it offers are days the server takes.
* **A queue after the commit (4).** The e-mail is queued outside the
  transaction; jobs throw in batches, workers die, sends collapse. Right means:
  a ticket without an e-mail has a reason.
* **Server actions without transactions (10, 11).** Each is several statements;
  two administrators and a sign-in may be between any two of them. Right means:
  an administrator remains, a replaced password lets nobody in, no sale loses
  its seller.
* **Reading in pieces (14).** An export pages by OFFSET, a page counts and lists
  in two statements, totals come from two: each sees a later database.

`PROJECT.json` lists the hazards line by line, with the properties that cover
them.

## 2. Modules

| Module | Models | Role |
|---|---|---|
| `BookingStatus` | the status tables of components 1 and 2: `Allowed`, `MayBecome`, `Issue`, `Deactivate` | shared by the models below |
| `TicketPromise` | what selling online promises: money (owed, captured, returned) against entry (none, admits, spent, void) | abstract specification |
| `OnlinePayment` | component 3 with the parts of 1, 2 and 7 it drives; the gateway is external | implements `TicketPromise` |
| `OnlinePayment_proofs` | the theorems about `OnlinePayment` | proofs |
| `TicketBook` | component 5 with the parts of 1, 2, 7, 12 and 13 it meets | model |
| `GateSync` | components 7, 8 and 9: one scanner in full, others as transactions | model |
| `CounterSale` | component 6 with the parts of 1, 2, 5, 7 and 14 it meets: one till's window over a shift | model |
| `VisitDay` | the days of component 13: the window, the default day, the server's refusal, the browser's copy | operators of `CustomerTicket` |
| `CustomerTicket` | components 12 and 4: one customer's tab, and the e-mail worker | model |
| `StaffAccess` | components 10 and 11, statement by statement | model |
| `StaffAccess_proofs` | the theorems about `StaffAccess` | proofs |
| `BookingReport` | component 14's list, export and totals beside bookings that change | model |
| `TicketBook_proofs`, `GateSync_proofs`, `CounterSale_proofs`, `CustomerTicket_proofs`, `BookingReport_proofs` | the theorems about the module of that name | proofs |
| `NaturalSets` | least and greatest elements of sets of numbers | lemmas of `TicketBook_proofs` and `GateSync_proofs` |
| `MCOnlinePayment`, `MCTicketBook`, `MCStaffAccess` | the symmetry of the model values, for TLC | instances |
| `MCCounterSale`, `MCCustomerTicket`, `MCBookingReport` | values of constants that a cfg cannot write | instances |

### How state and actions correspond to the code

A database transaction that locks the rows it decides on is **one action**; so is
a Dexie (IndexedDB) transaction and a single query. Where the code reads without
a lock, or awaits a call, the operation is split there and anything may happen
in between. A process that dies is an action that ends the operation at any of
these points.

**`OnlinePayment`.** `booking`, `ticket`, `paymentStatus`, `paymentId` and
`events` are the columns of the rows of one booking; `checkout`, `sweep` and
`refunding` say where a request or job stands between two of its steps; `order`,
`refund` and `sent` are the gateway. `startOnlinePayment` is `CheckPayable`
(reads PENDING without a lock), `RecordPayment` (the payment row) and
`CreateOrder` (the call). `processPaymentEvent` is one action over
`HandleSuccess`, `HandleFailure` and `HandleRefund`, with the claimed event id,
the duplicate exit and the rollback of a refused transition. `reconcilePayments`
is `SweepSelects`, then per row `FetchOrderStatus` and one of `SweepConfirms`,
`SweepCloses`, `SweepSkips`. `refundOnlineBooking` is `RefundFinds`,
`RefundChecks`, `RefundVoids` (the transaction that takes the ticket away),
`RefundSends` (the call, with or without an answer) and `RefundRecords` or
`RefundFails`. A webhook, once sent, stays in `sent`: delivery is any number of
times, in any order, or never.

**`TicketBook`.** `booking`, `ticket`, `visitDay`, `owner` are the blanks in
Postgres; `held`, `queue`, `metaDay`, `metaOff` one till's IndexedDB; `sync`,
`pushed`, `judged`, `reply` the sync in progress; `requests` and `pulls` what the
server still works on, whether or not the till waits. `allocateBook` counts
(`AllocateCounts`) and inserts (`AllocateInserts`) in two steps, because nothing
locks what it counts. `expireStaleBlanks` is `ExpirySelects` and one
`ExpiresBlank` per row. A sale is `SellResolves` (`counterState`, which day the
till believes it is) and `SellClaims` (`claimBlank`). `guests` counts the groups
a blank was handed to; no code has it, the properties do.

**`GateSync`.** `status`, `log`, `seq`, `boarded` are the tables; `open` is a
transaction that has drawn its `change_log` id and not committed. `cache`,
`staging`, `queue`, `meta` are the scanner's IndexedDB; `pull` is `pullManifest`
with the cursor and the page it holds; `push`, `sent`, `judged` are `pushQueue`;
`look` and `screen` are `handleScan`; `asked` is history: whether a lookup stored the
ticket's row, and whether a manifest lost that row again. `buildSync` is `FirstRequest` or
`NextRequest` (day, time, watermark; or the cursor and its refusals) and then
`ReadPage`; the client's half is `PageArrives` and `PullCompletes`. Push and
pull run side by side, as `syncManifest` starts them.

**`CounterSale`.** `page`, `draft`, `shell`, `shown` are the tab: what it shows,
the key in sessionStorage, the key inside the service worker's copy of /counter,
the sale on the ticket page. `booking`, `ticket`, `buyer`, `tender` are the rows,
by idempotency key. `Submit` sends the form; `ServeSale` is `createCashSale`
(rate, the lookup by key, the insert) on a request that may arrive after its tab
has given up, `ServeLogin` and `ServeError` its refusals; `LoseRequest` and
`LoseReply` lose one half or the other, and `Receive` is what the tab makes of an
answer. Voiding is
two actions, because `voidOwnSaleAction` checks in one transaction and cancels
in another. A sale from the offline book is one step: `TicketBook` has the
rest. `guest`, `paid` and `given` are the window and the drawer, which no code has.

**`CustomerTicket`.** `form` is the rendered window and the day picked; `Submit`,
`Started` and `Refused` are the form and `startBookingAction`, with every way
back to a form whose booking exists already. `timer` and `polling` are
PaymentPending's `timer` and `running`, and `TimerFires`, `PollsOn`, `PollFinds`,
`Hide`, `Show` its callbacks. `Confirm`, `Fail`, `CallOff` stand for
`OnlinePayment`. `job` holds the pg-boss rows; `Queue` and `Resend` send to it,
`Fetch`, `Deliver`, `DeliverThrows` and `WorkerDies` are the worker's batch, in
which one throw fails what is left.

**`StaffAccess`.** `account` are the rows, `session` what each cookie leads to,
`login` a sign-in between password check and session, `request` a server action
between two statements. `Begin` is the guard at its head; then `Create`;
`SetActive` and `Revoke`; `ReadBefore`, `Edit` and `Revoke`; `CheckDelete` and
`Delete`. `CutShort` ends any of them. `together` and `cutShort` record what the
properties except.

**`BookingReport`.** A row is its place in the order of `created_at` and `id`;
`CreatedAt` gives its instant, the beginning of the transaction that inserts it.
`CreateBooking` inserts one row, `AllocateBook` all the blanks of a book at once,
which share their instant, and rows may become visible after later ones (`Insert`).
`status` and `boarded` move as `BookingStatus` lets them; `task`, `offset`, `total`,
`listed` are the reader between two statements; `throughout` and `moved` are what
the property needs to know of the past. ORDER BY with LIMIT and OFFSET picks the
rows whose place, the number of rows before them, lies in `Window(offset)`. The
export sorts by both columns (`OldestFirst`). The table sorts by the instant
alone, so rows of one instant have no fixed order and each statement may see
another one: `NewestFirst` is the set of pages that Postgres may return.

## 3. Runs

Passing runs:

| Run | Instance | States | What it shows |
|---|---|---|---|
| `online_safety` | 1 booking, 2 payment attempts, 2 administrators, every kind of refund report | 117 235 | the safety of online selling, and the refinement `KeepsPromise` |
| `online_live` | 1 booking, 2 attempts, 1 administrator, every kind of refund report | 59 931 | a lost webhook is made good by the sweep; a refund reaches its booking unless another report of it was processed first |
| `book_till` | 1 till, 1 device that may be deactivated, 2 blanks, 2 days, a clock one day off, the offline switch | 2 168 480 | no blank twice, no sale lost, no sale without a guest, the guest gets in |
| `book_stock` | 1 till, 1 device whose key may be reissued, 3 blanks, 1 day, 2 book requests at once | 1 014 606 | a book holds the target for each request at work, and no more |
| `book_live` | 1 till, 1 blank, 3 days, horizon 1, a clock one day off either way, a rate that may be retired | 119 640 | for which days a till with a wrong clock sells; unsold blanks leave RESERVED, queued sales drain |
| `gate_cache` | 2 tickets, page size 1, 4 clock ticks, overlap 2 | 1 142 828 | what the cache has wrong is always in the next sync, whatever order the transactions commit in |
| `gate_scan` | 3 tickets, 2 days, page size 1, lookups of two of them | 1 613 095 | nobody in twice unless a manifest lost the row a lookup stored, no boarding lost, the rollover blocks |
| `counter_sale` | 2 groups (cash, UPI), 3 keys, one outage | 162 060 | no group sold twice, the slip matches the drawer, whoever paid is served |
| `customer` | 1 customer, 1 other booking in the batch, 2 days, 2 sends, 1 retry | 72 243 | the form offers what is taken, the page settles, the mail settles, an unmailed ticket has a reason |
| `staff_access` | 2 accounts, both administrators, 3 requests, 1 failure, 1 reset | 1 095 166 | the park keeps an administrator, old passwords let nobody in, nothing is orphaned |
| `report_export` | 4 bookings, two of one instant, batches of 2, 2 inserting at once, 3 filters | 808 621 | what an export or a table may miss, and boarded against expected |

One run is a disagreement between the code and its own words (the quotation is in
`PROJECT.json`, "findings"). What happens is TLC's trace:

| Run | Property | What happens |
|---|---|---|
| `counter_spent_key` | `SaleGetsItsOwnTicket` | the first group is served online and has its ticket, which clears the draft; the link drops; "Next sale" mounts the cached page, whose key that sale spent, and stores it as the draft; the link returns, the refresh leaves the draft alone, and the next group, sold under it, is handed the first group's ticket |

`CHECK_DEADLOCK FALSE` is in every cfg: every behaviour ends once the bounded
clock, days, keys, requests and ids are used up.

### Bounds, and why they are enough

* *One booking* in `OnlinePayment`: all locks, rows and ids are per booking, and
  only the sweep's LIMIT couples bookings (section 6). Two payment attempts give
  a failed and a captured one, or two webhooks of different attempts; two
  administrators give the race for one refund. The theorems hold for any number.
* *Two blanks, one till* in `book_till`: a push of one while another is sold, a
  partial answer, a half-filled book. `PushLimit` 2 lets a push carry both,
  `ClockSkew` 1 lets the till's clock be a day off, `Target` 1 makes "one too many"
  visible at once. Two days let the rollover happen once, with a book that may
  already reach into the second (`Horizon` 1).
* *The office's switches* (`Switched`, `Retired`, `Reissued`, `SaleRates`) say what
  the office may change in a run: deactivation and the offline switch in
  `book_till`, key reissue in `book_stock`, a retired rate in `book_live`. All at
  once is a matter of state count; the combinations that fail are in section 6. A
  till that changes to another device is in no run: the theorems `SalesAreReal`
  and `GuestsGetIn` include it, and section 6 says what it breaks.
* *`PullLimit`* is how many book requests the server works on at once. Nothing in
  the code limits it: a till that gives a request up asks again. `book_stock` has
  two, the fewest that race, and a third blank to be one too many; that the bound
  grows by the target with every further one, and no faster, is
  `BooksAreBounded`. The other runs are about other things and use 1.
* *`ClockSkew`* is how many days a till's clock may be off, in either direction.
  `book_live` has three days, so that the clock may be wrong both ways, the day
  turn and a sync land within one sale. Its fairness forbids no step, so an action
  property is checked over every behaviour.
* *`GateSync`*: what matters is `TxLimit + LookupLimit < Overlap`. `gate_cache` has
  two tickets (an id drawn first may commit last, and with `PageSize` 1 the
  manifest has two pages), transactions that stay open for a tick, and an
  overlap of 2; where they are equal TLC refutes `StaleIsResent`. A lookup's late
  answer, which the overlap has to cover too, is left to the theorem
  `StaleRowsAreResent`; TLC agrees for one ticket (`LookupLimit` 1, `Overlap` 3), and
  cannot finish with two. In the
  code the overlap is 30 s and a lookup gives up after 8 s, so a transaction may
  stay open for 22 s; nothing in the code enforces it. `MaxAdmissions` 2 is one
  more than is right. `Elsewhere` names the tickets other clients work on.
* *`Late`* tickets are sold during the behaviour. *`Shown`* are the tickets
  presented to this scanner, with or without a link. In `gate_scan` these are one
  of today sold late, so that a manifest may or may not have it, and
  one of tomorrow; the third is there for the pages.
* *`CounterSale`*: three keys are one for each group and one to spare for a
  reload; one outage (`everCut`) separates what must hold without one from what
  one may break; a group comes only when nothing is on its way and a key is left.
  Voiding hands the money back in the step that cancels; the office cancels only
  for a group that holds the ticket and has left the window.
* *`CustomerTicket`*: the clock runs until the customer has a booking, to the
  morning of `LastDay`; the e-mail is followed once the page has shown the
  outcome, since the two share nothing but the status. `BatchSize` 2 puts
  another booking's e-mail beside the customer's; `MaxSends` 2 is the
  confirmation's and a re-sent one; `RetryLimit` 1 lets a job fail for good.
  `MaxAdvance` 2 with the second day closed lets a window reach over a closed day and
  start on one. REFUNDED is left out; the page treats it as REFUND_PENDING.
* *`StaffAccess`*: `MaxFailures` 1 reaches the lock at once. Two accounts show every
  race of two administrators; three requests let one of them act, be answered
  and act again. The theorems hold for any number.
* *`BookingReport`*: four rows with batches of two are an export of up to three
  batches and a table of two pages; the second and third share an instant, so the
  end of a page may fall between them. `Touched` are the rows whose status may
  change or whose party boards: one of the two blanks, and both others. `InFlight` 2
  lets a row appear before one already seen. A party boards whole, so a row is one
  visitor. The filters are the three that select differently: all, one made of two
  statuses, one status.

### Fairness, and why the code justifies it

* `SweepFairness`: pg-boss schedules the sweep every two minutes, with retries;
  it may die on any row and the gateway may not answer, so its steps are strongly
  fair (they happen if possible again and again). That a booking outgrows the
  sweep's window is never assumed.
* `WebhookFairness`: the gateway repeats each *refund* webhook, whatever it reports,
  until it is answered; in which order is open.
  Payment webhooks get no fairness: they may all be lost.
* `WorkerFairness`: `expireStaleBlanks` runs every two minutes; a row it dies on
  is selected again.
* `SyncFairness`: the till syncs every minute, the link comes back again and
  again, not every request ends in an error. Sales, the office and the gate
  have no fairness.
* `CounterSale`: the seller does not walk away from a paying group. A hanging
  form is reloaded, a lost session signed in again, the sale sent again and
  again; requests get through again and again, and so do answers. Nothing is
  assumed of voids, boardings, the office or the link, and a link that goes down
  ends the claim.
* `CustomerTicket`: browser timers fire, the tab is looked at in the end, the
  rate limit's window passes again and again, look-ups do not fail for ever, a blocked
  page is reloaded; the worker fetches and finishes or fails its jobs. Nothing is
  assumed of the gateway, the customer's payment or the office.

Every property of a passing run has a mutant in `PROJECT.json`: an operator with
a plausible bug, next to the definition it replaces, under which TLC finds that
property violated.

## 4. Proofs

`OnlinePayment_proofs`, for any sets of bookings, payment attempts and
administrators, any `SweepLimit` and any set of refund reports (the module's
three ASSUMEs and no others):

| Theorem | States |
|---|---|
| `TypeCorrect` | `Spec => []TypeOK` |
| `Invariant` | `Spec => []IInv`, `IInv == TypeOK /\ Safety` |
| `AdmissibleIsPaid`, `ConfirmedIsTicketed`, `TicketIsCaptured`, `OrderHasRow`, `RefundBarsEntry`, `RefundedIsReturned` | the safety invariants of `online_safety` |
| `TicketIsFinal`, `ConfirmedOnce` | its action properties |
| `Refinement` | `Spec => KeepsPromise`: `OnlinePayment` implements `TicketPromise` |

**The inductive invariant.** The six safety invariants are not inductive: a
webhook in flight that claims a success for an unpaid order would break
`TicketMeansCaptured` in one step. `EvidenceIsTrue` adds what every message and
half-done request knows: a success in flight speaks of a PAID order, a sweep
that saw PAID was right, a checkout past its first transaction has a payment
row, a refund past its first transaction has voided the ticket, a report of a
completed refund is true. With it, every step preserves the conjunction
(`SafetyStep`, one case per action; `ProcessSafe` serves both the webhook and the
sweep). The action properties and the refinement are then shown step by step from
`IInv`; a step of the protocol maps to one step of `TicketPromise` or to none.

`StaffAccess_proofs`, for any sets of accounts and administrators and any bounds,
from the module's four ASSUMEs:

| Theorem | States |
|---|---|
| `TypeCorrect` | `Spec => []TypeOK` |
| `NobodyIsOrphaned`, `OldPasswordShutsOut`, `ParkIsNotLockedOut` | the three safety invariants of `staff_access` |
| `Invariant` | `Spec => []IInv`, their conjunction with what they rest on |

**The inductive invariant.** A request that has passed its guard goes on without
looking again, so the invariant says what such a request may still rely on.
`WriterIsAdmin`: as long as no two administrators have worked at once, whoever
is about to write is an active administrator; `OwnAccountStays`: what it does to
its own account leaves it one. So every write leaves at least the writer
(`LockoutWrite`), and every other step leaves the accounts alone
(`LockoutFrame`). For passwords, `SignInIsCurrent` gives a sign-in past its check the
excuses of `NobodyInOnAnOldPassword`, and `ResetIsNoticed` says that the read
before an edit has noticed the reset, so that the revocation is not skipped.

`TicketBook_proofs`, for any tills and devices, any finite set of blanks, any
calendar and limits (`BookAssumption`):

| Theorem | States | Assumes |
|---|---|---|
| `BookInvariant`, `TypeCorrect` | `Spec => []BookInv`, `Spec => []TypeOK` | nothing |
| `SalesAreReal` | `SaleHasGuest` | nothing |
| `GuestsGetIn` | `GuestGetsIn` | nothing |
| `SalesFollowClocks` | `Spec => SaleFollowsClock`, an action property | nothing |
| `BooksAreBounded` | `BookIsBounded` | nothing |
| `TicketsAreSoldOnce` | `NoBlankSoldTwice` | `KeepsKeys`, `KeepsRates` |
| `SalesAreAccounted` | `SaleIsAccounted` | `KeepsDevices`, `KeepsRates` |

**The inductive invariants.** `BookInv` follows a blank on its way: what a queue, a
push or a verdict names has a guest, what a till holds or is offered has been
issued, and the worker's old list names only blanks of days gone by
(`StaleIsPast`), which is why a ticket of today survives it. "Sold once" is about
what the browser does not know: between a sale and the server's verdict the
blank is still RESERVED on the server and may be in an answer already. So
`OnceInv` says that such a blank is in the queue of the one till that could get
it (`SoldIsQueued`), that a verdict means it will not be offered again
(`JudgedIsDone`), and that an answer holds nothing else that was sold
(`ReplyIsUnsold`). `AccountInv` needs that verdicts are recorded
(`JudgedIsRecorded`). `BoundInv` counts what the requests at work may still insert
beside what is unsold (`OwedFits`): a count may be out of date when it is acted on,
but it was at most the target, so together they stay within the target for each
request.

**The assumptions** are conditions under which the code keeps the property, and
section 6 has what happens without them: a key reissued to a second till
(`KeepsKeys` is `Reissued = {}`, or one browser and one device), a rate retired
between sale and push (`KeepsRates`), a till that comes back as another device
(`KeepsDevices` is one device, or none reissued or retired). No run checks one of
these properties outside its condition; within it the hazards stay: `book_till`
retires its device, and the theorems let its key be reissued too. How wrong a clock may be
(`ClockSkew`) and how many requests race (`PullLimit`) are parameters of what
`SaleFollowsClock` and `BookIsBounded` say, not conditions.

`GateSync_proofs`, for any tickets, days and clock, any page size and limits
(`GateAssumption`):

| Theorem | States | Assumes |
|---|---|---|
| `TypeCorrect` | `Spec => []TypeOK` | nothing |
| `AdmissionsAreAccounted` | `AdmissionIsAccounted` | nothing |
| `RolloverHolds` | `Spec => RolloverBlocks`, an action property | nothing |
| `NobodyGetsInTwice` | `AdmittedOnce` | nothing |
| `StaleRowsAreResent` | `StaleIsResent` | `TxLimit + LookupLimit < Overlap` |

**The inductive invariants.** `GateInv` relates the clock, the last sync and the
pull under way (`ClockLeads`, `PullHolds`), and says that what a page or the staging
table holds was true when it was read, so that a status can only have moved on since
(`ReadsAreReal`, `TicketsMoveOnce`). `OnceInv` adds that a manifest under way has,
or will read, every ticket the cache has that no lookup brought (`FullKeepsKnown`),
that what the scanner knows to be dead is nowhere on its way as ACTIVE, that a
ticket let in is neither shown nor asked about again (`AdmittedIsSpent`), and that
no lookup is out while a verdict is on the screen (`AsksBetweenScans`): replacing
the cache by the manifest then forgets a boarding only together with a row that a
lookup had stored, which `asked` records. `FreshInv` is the argument for the
overlap: a transaction that is open is younger than `TxLimit`, and a lookup younger
than `LookupLimit` (`NothingOutlives`); so a row that was read before the change
committed has a `change_log` entry no older than that before the sync began
(`ReadsAreFresh`, `FullIsFresh`, `IncrementIsFresh`), which the next sync's overlap
reaches back behind (`OutdatedIsResent`). The bound is sharp: with `TxLimit +
LookupLimit = Overlap` TLC has a counterexample (section 3, bounds).

`CounterSale_proofs`, for any finite sets of groups and keys (the module's five
ASSUMEs):

| Theorem | States |
|---|---|
| `TypeCorrect` | `Spec => []TypeOK` |
| `NoSaleTwice` | `OneSalePerGuest` |
| `SlipIsRight` | `DrawerMatchesSlip` |
| `OwnTicketsWithoutOutage` | `Spec => [](~everCut => SaleGetsItsOwnTicket)` |

`SaleInv` says that a request that could still make a sale is for a group that has
paid and has none, and that all such requests carry one key (`NewRequestsAgree`):
a copy that was given up and one sent again after a reload cannot both sell.
`NoOutageInv` says, while the link has not been down, that the draft key is the
key of the group at the window or of nobody, and that every other group that has
paid has its sale. `OwnTicketsWithoutOutage` is the other half of the finding: the
run `counter_spent_key` shows a group with another's ticket after an outage, the
theorem that there is no other way to get there.

`CustomerTicket_proofs` (the ASSUMEs of `CustomerTicket` and `VisitDay`):
`TypeCorrect`, `FormAndServerAgree` (`FormOffersWhatIsTaken`, from the closed days
being apart and the window reaching past one) and `UnmailedHasReason`
(`UnmailedIsExplained`). `MailInv` follows the e-mail of a paid booking: a
booking that has its ticket has been mailed, has an e-mail coming
(`AllSettledOrAwaited`, with `SlotHasJob` for the one that a taken slot
swallowed), or has a reason why not.

`BookingReport_proofs` (`ReportSizes`, `RowsAreInOrder`): `NoBookingIsMissed`
(`NothingIsMissed`) and `TotalsAgree` (`BoardedWithinExpected`), for any instants,
also of whole books. `ReportInv` counts places: a row that
still has to be read lies at or behind the offset (`ExportIsBehind`), rows that
join push it only further back, and a short batch is the last one. In the table
only a row that has its instant for itself has a place, which ties before or
behind it cannot move (`PagesAreBehind`); for the others the theorem claims
nothing.

**Only model-checked:** liveness (`LostWebhookRecovered`, `RefundReachesBooking`,
`StaleBlanksExpire`, `QueueDrains`, `GuestIsServed`, `MailIsSettled`,
`PageSettles`); the prover does not handle liveness under fairness or ENABLED.
Every safety invariant and every action property that a passing run checks is the
subject of a theorem, under the conditions named above where there are any.
What the proofs say nothing about is the code outside the models (section 7).

## 5. Plan

Done: every module of section 2, and a theorem for every safety property the runs
check. What is left, in this order:

1. An abstract `BlankPromise` (a blank is offered, handed out once, accounted
   for) that `TicketBook` implements, and the step-by-step proof, under
   `KeepsKeys`, `KeepsRates` and `KeepsDevices`.
2. The same for the gate: a scanner as one that admits or refuses, with the
   queue as the channel to the server.
3. `NoBlankSoldTwice` under a retired rate for blanks whose sale was not refused,
   which would weaken `KeepsRates`.
4. Enrolment and key rotation of scanners; the throttle under parallel
   attempts that read the same count; liveness of the gate's queue.

## 6. Where the code departs from its words, or from what one would expect

All of this was met while modelling. Where TLC refutes a property in one of the
modules, with the change named, the property's name is given and it stands at the
end of the module. One of them has a run, which is named; for the others none is
kept.

**Online payments**

* **A booking confirmed by the sweep cannot be refunded**: the sweep's event has
  no payment id, which refundOnlineBooking demands (`PaidIsRefundable`;
  `cashfree/index.ts:174,179`, `refund.ts:76`).
* **A refund whose call failed cannot be retried**, though its message says so: the
  booking has left PAID (`FailedRefundCanBeRetried`, even under `RefundSpec`;
  `refund.ts:62,126`).
* **A late success during a refund** takes a REFUND_PENDING booking back to PAID
  with its ticket CANCELLED (`PaidHoldsLiveTicket`; `process.ts:137`).
* **cancelBooking takes a PAID online booking to CANCELLED**, from where no refund
  can be sent (`PaidIsNeverJustCancelled`; `refund.ts:18`).
* **A pending refund report swallows the success**: the event id is type and
  refund id without the status, so whichever report comes first is the only one
  that counts: after a report that the refund is pending, the booking stays
  REFUND_PENDING, though admin/bookings/actions.ts:76 says that it "shows as refunded
  once the provider confirms" (`RefundShowsOnceConfirmed`, even under `LiveSpec` in
  `online_live`'s instance; `cashfree/index.ts:227`). It is the
  exception of `RefundReachesBooking`, `SuccessSwallowed`.
* **A success after FAILED or CANCELLED is answered 500 for ever**: the transition
  throws, the claim rolls back, each retry repeats it (`process.ts:137`).
* **After 24 hours a paid order is never looked at again**
  (`PaidOrderLeavesPending`; `reconcile-payments.ts:42`).
* **LIMIT 100 without ORDER BY**: with more waiting bookings than `SweepLimit` the
  same unpaid ones may fill every sweep, and `LostWebhookRecovered` fails.

**Customer's pages and ticket delivery**

* **A booking edited after an abandoned checkout keeps its old day and count**: the
  form's key finds the old row and nothing compares them (`create.ts`).
* **A PENDING booking made before closing time can be paid after it**, for a visit
  that is no longer bookable.
* **A re-sent ticket within the 60-second slot is dropped by the queue**, while the
  page says "Ticket re-sent"; sends on two sides of a slot's end arrive twice, as
  does one whose audit row fails after the mail has gone (`queue.ts:68`).
* **One throw fails what is left of a batch**; the other bookings' e-mails wait
  for the retry. Four retries take minutes, not "roughly a day" (`queue.ts:38`).
* **A failed start of the queue is kept**: getBoss hands out the same rejected
  promise until the process restarts.
* **A re-send after a failed refund mails a dead ticket**: deliverTicket looks at
  the booking's status, not the ticket's; the PDF route does not refuse RESERVED.

**Offline till**

* **A till that reconnects after midnight has its sales refused** and forgets them
  (`LateSaleIsNotRefused`; `reserve.ts:206,223`).
* **A sale recorded between the worker's SELECT and its row's turn** is cancelled
  as unsold (`ExpirySparesSales`; `reserve.ts:281,290`).
* **Two book requests at once** both top the book up: a till gives its request up
  and asks again, both requests count the same empty book, and both insert
  (`reserve.ts:80`). That "a device that is already stocked gets nothing new"
  (`reserve.ts:68`) is `StockedGetsNothingNew`, which TLC refutes in `book_stock`'s
  instance; `BookIsBounded` says how far it goes.
* **Deactivating a device leaves its blanks admissible** until they expire
  (`RetiredDeviceHoldsNothing`; `issue.ts:85`).
* **A boarded, unsold blank leaves the discrepancy report** when the day turns: the
  query looks for RESERVED, and the rollover cancels it
  (`DiscrepancyStaysReported`; `ticket-books.ts:83`).
* **A sale of a rate retired since** is refused and forgotten, and its blank comes
  back into the book: with `SaleRates` containing "CATEGORY" and a till that
  stays on its device, `NoBlankSoldTwice` fails.
* **A key reissued to a second till** gives both the same blanks: with two tills and
  `Reissued` non-empty, `NoBlankSoldTwice` fails.
* **A till re-enrolled as another device** pushes its queue as that device; the
  sales are refused as BLANK_WRONG_DEVICE and forgotten. `SaleIsAccounted` is
  therefore checked with one device.

**Counter**

* **A cached page brings a spent key back**: run `counter_spent_key`. No answer has to
  be lost and nobody has to be sold a ticket offline for it.
* **An outage in the middle of a sale sells the group twice**, online and from the
  book. `DrawerMatchesSlip` and `GuestIsServed` except outages.
* **Reprinting with a sale unfinished** clears the draft of that sale, whatever
  clear-draft-sale-key.tsx:8-14 says of it; the repeated sale is then a second
  one. `Reprint` is modelled with nobody at the window.
* **A sale boarded between voidOwnSale's check and its cancellation** ends CANCELLED
  with a USED ticket (`counter/actions.ts:149,182`).
* **A committed sale cancelled elsewhere keeps its key**: the form is answered with
  an error for that key until the draft is discarded.
* **A custom price without a note is "Standard" on the slip** (`counter.ts:122`);
  updateRate speaks of "from today on" and changes the rate for every sale after it.
* **A retired rate refuses the repetition too**: createBooking resolves the rate
  before it looks for the key (`create.ts:81`); the group is served at another rate,
  which `GuestIsServed` allows.

**Gate**

* **Publishing a full manifest deletes a boarded ticket** that was sold after its
  page was read, looked up since and boarded while the manifest downloads: the
  row goes with its mark, the boarding still in the queue
  (`lib/scanner/db.ts:133`), though "a manifest response must not undo a boarding
  recorded while it was downloading" (`db.ts:93`): `BoardingStands`, which TLC refutes
  in 11 states with one ticket. The next scan finds no row and asks the server, which admits
  the ticket again if it has not heard of the boarding; this is the exception of
  `AdmittedOnce`.
* **A boarding pushed after midnight** is refused as WRONG_DATE and dropped, with
  the group long inside. `AdmissionIsAccounted` is about the ticket's own day.
* **The verdict on the screen** may be older than the cache when the operator
  taps; nothing looks again. Two offline scanners can admit the same ticket, as the
  repository's README says; `GateSync` counts the admissions of one.

**Staff**

* **Two administrators at work at once can lock the park out**, each removing the
  other after the check: the exception of `LockoutNeedsCompany`.
* **A sign-in between password check and session survives a reset**, and a role
  change whose revocation failed is not revoked by repeating it, since then nothing
  changes: the exceptions of `NobodyInOnAnOldPassword`.
* **Attempts against a locked account are counted**, so that trying keeps it locked.
* **An administrator cannot edit the own account at all**: the disabled role field
  is missing from the form, and the schema refuses it (`staff-manager.tsx:197`).
  After one success an edit dialog cannot be opened again (`staff-manager.tsx:120`).

**Reports**

* **An export can list a row twice, or skip one**: by OFFSET, when a row enters or
  leaves the selection behind the reader. `NothingIsMissed` says when.
* **A table sorted by a column with ties may leave a row out with nothing written**:
  listBookings orders by `created_at` alone, which all blanks of a book share, and
  Postgres may order them differently for each page (`bookings.ts:262`).
  `NothingIsMissed` excepts such rows; claimed for them, TLC refutes it under
  RESERVED.
* **A table's count, rows and totals are of different moments**: the link to a last
  page may be missing, and a page past the end is empty.
* **Refunds are netted off**: collected sums only bookings whose status is
  confirmed, although bookings.ts:302-307 and admin/bookings/page.tsx:88 say that
  it is not netted off.
* **"All statuses" leaves RESERVED out**, yet shows the same blanks once they expire
  as CANCELLED (`bookings.ts:168`). A relative range is taken again when the file
  is downloaded.

## 7. Not modelled, and why

* Signatures, tokens, hashes, amounts beyond "expected, different, absent",
  names, prices, group sizes: no property tells them apart. A group boards all
  or nothing; COUNT_MISMATCH cannot occur between an honest scanner and its
  server.
* The page for a confirmed booking without a ticket (`ticket/[code]/page.tsx:109`):
  status and ticket are written in one transaction, so it is never shown
  (`ConfirmedHasTicket`).
* The LIMIT 2000 of `expireStaleBlanks`: the next run goes on, and what it cancels
  it no longer selects.
* The search words of the reports: selling a blank rewrites its name and phone, so
  a row may leave a search's selection as it may leave a status filter's.
* Prices in paise are one multiplication; creating and re-pricing rates is one row
  at a time. What matters of a rate, whether a sale may still name it, is in
  `TicketBook` and `CounterSale`.
* Enrolment and deactivation of scanners: a deactivated scanner just stops.
* Parallel login attempts that read the same failure count (`login.ts:40`): a
  few attempts more than the limit, no state that lasts.
* Breakdowns of the reports per day and per rate: one statement each over what
  `BookingReport` has.
* Enquiries: inserts and status updates of rows that nothing else reads.
* Rendering, PDF, CSV, images. What a screen lets its user do is a guard of the
  actions above.
* The gateway, pg-boss, browsers and Postgres: external, modelled from how the code
  uses them. Postgres is taken at READ COMMITTED with row locks as requested.
