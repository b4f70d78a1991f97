# Verification of the rental management system

TLA+ modules, TLC configurations and TLAPS proofs about the API, the worker and
the API clients of this repository. `PROJECT.json` maps every definition to the
source lines it translates and lists runs, mutants, theorems, findings and
hazards.

## The system

A NestJS API (`apps/api`) and a worker (`apps/worker`) share one PostgreSQL
database through Prisma; a Next.js application (`apps/web`) calls the API.
There is no other shared state: every interaction between components is a row
that one transaction writes and another reads. `TransactionService.run` is
`prisma.$transaction` without an isolation level, so transactions run at READ
COMMITTED and nothing is retried after an error. Two facts of PostgreSQL shape
everything: a `SELECT ... FOR UPDATE` (used by some handlers) makes a read
current until commit, a plain read (used by most) may be stale by the time the
handler writes; and a unique violation aborts the whole transaction, so the
`catch (P2002)` branches that read or write afterwards inside it cannot run.

| Component | State | Operations | Hard part | What makes it correct |
|---|---|---|---|---|
| Transactional outbox (`infrastructure/outbox`, `worker/outbox`) | `outbox_events`, `processed_messages` | append, poll, reject, dispatch, record, postpone | overlapping polls, crashes, handler outside the recording transaction | nothing lost, nothing foreign handled, every event completes |
| Idempotency keys (`infrastructure/idempotency`) | `idempotency_keys` | begin/complete, findExisting/resolveOrCreate | racing retries, expiry | one effect per key, no key stuck |
| Invoices, credit notes (`billing`) | `invoices`, `credit_notes` | create, post, void, credit | unlocked reads | status, balance and allocations agree |
| Ledger (`billing/ledger.service`) | `ledger_entries` | balanced journals with posting keys | posted by handlers of three modules | every journal balances, control accounts equal the tables |
| Document numbers (`billing.rules`) | counter rows in `tenant_settings` | draw under a lock | year taken from the request | no gap, no number twice |
| Payments, allocations (`payments`) | `payment_transactions`, `payment_allocations` | record, settle, allocate | several invoices in one request | no money twice, none lost |
| Refunds, reversals | `refunds` and the above | request, approve, execute; reverse | three users, unlocked approval | never above the payment, dual control |
| Intents, webhooks | `payment_intents`, `provider_webhook_events` | create, deliver | duplicates, order, rollback of the mark | an accepted event has had its effect |
| Deposits, dispositions | `security_deposits`, disposition lines | hold, propose, approve, execute | unlocked approval | liability follows what is held |
| Billing and utility runs | `billing_runs`, `charge_key` | preview, approve, commit | overwritten status, billing again | one invoice per charge |
| Periods, bank reconciliation | `accounting_periods`, runs and items | ingest, match, resolve, complete, post, close | totals summed from stale items | a completed run agrees with its items |
| Leases, allocations (`leasing`) | `leases`, `lease_allocations` with two exclusion constraints | create, allocate, patch, activate, transfer, terminate | capacity, whole units and beds share a unit | no place twice, capacity kept, a lease in force keeps its place |
| Lease life cycle | lease status, occupancy, checklist, key loans | activate, move in, notice, renew, move out, complete | reads before the transaction, versions | one live renewal, no keys out after move-out |
| Inventory | `properties`, `buildings`, `units`, `beds` | create, patch, archive, restore | search, then write by id | allocations stay sound; beds only in a unit of beds |
| Residents, waiting list | profiles, contacts, flags, entries | create, patch, archive, flag, promote | flags raised during an activation | a flag that was seen blocks |
| Owners, agreements, access grants | ownerships, agreements, grants | create, end, activate, archive | shares summed without a lock | shares and periods fit |
| Organizations, memberships, roles | memberships, invitations, role assignments | invite, accept, patch, suspend | judged on one snapshot, written on another | rights are earned, an owner remains |
| Sessions | `refresh_sessions`, tokens, challenges | login, refresh, logout, reset, switch | statements outside a transaction | one session per proof, ended stays ended |
| Guards, route table | decorators of the controllers | four reads per request | rights change between the reads | what was handled was allowed |
| Documents, object store | `documents`, links, objects | intent, put, complete, link, delete | row and object written apart | what is listed can be downloaded |
| Imports | `import_jobs`, rows | dry-run, commit, apply | two deliveries of one event, crashes | every accepted row imported, once |
| Lists | cursors | one page after another | rows change during the walk | nothing missed, nothing twice |
| API clients (`apps/web/src/lib`) | none | one function per call | paths and headers named apart from the API | every call is one the API serves |
| Reports, audit, meta, health, rate limit, email, crypto, screens, seeds | append-only rows or none | - | - | not modelled |

Interactions: payments, refunds, reversals, credit notes and dispositions call
`LedgerService` inside their own transaction; nearly every handler appends to
the outbox and stores an idempotency key there as well; the webhook calls
`PaymentService.settleFromIntentInTx`; the worker hands import events to a
handler that opens transactions of its own; activating a lease makes a deposit
due and asks for the do-not-rent flags of its parties; documents, lists and
residents ask `AuthorizationService` for the properties in the caller's scope.

## Modules

| Module | Models |
|---|---|
| `Totals` | sums of money columns, the `reduce` calls of the services, as a recursive function |
| `Receivables` | invoices, credit notes, payments, allocations, refunds, reversals and the control accounts |
| `Journals` | every posting of `LedgerService` with its lines, keys and splits |
| `Numbering` | `allocateDocumentNumber` and its counter |
| `Settlements` | intents, provider events, recording of bank payments |
| `Deposits` | security deposits and their disposition |
| `Charging` | billing runs and utility allocation runs |
| `Reconciliation` | reconciliation runs and the closing of a period |
| `Delivery` / `Outbox` | abstract: at-least-once delivery / `OutboxService` and `OutboxConsumerService`, statement by statement |
| `AtMostOnce` / `Idempotency` | abstract: one effect per key / `IdempotencyService` as its two groups of callers use it |
| `Imports` | dry-run, commit and the worker's import handler |
| `Booking` | allocations of leases to whole units, beds and shares of capacity, against the administration of units and beds |
| `LeaseLifecycle` | the life of a lease after it has been drafted |
| `Inventory` | properties, buildings, units and beds as rows |
| `Residents` | profiles, waiting list, do-not-rent flags and the activation they block |
| `Interests` | ownerships, management agreements, access grants, the property scope |
| `Memberships` | members, roles, invitations, custom roles |
| `Sessions` | `AuthService`, statement by statement |
| `Routes`, `Gateway`, `Calls` | the route table and permission catalog, the guards, the API clients |
| `Documents` | upload, completion, links, deletion, list and download |
| `Paging` | lists walked page by page |
| `TotalsProofs`, `ReceivablesProofs`, `BookingProofs` | theorems about one module each |
| `LedgerProofs` | theorems about `Settlements`, `Numbering`, `Journals` and `MCLedger` |
| `FinanceProofs` | theorems about `Deposits`, `Charging`, `Reconciliation` and `MCFinance` |
| `PlatformProofs` | theorems about `Outbox`, `Idempotency`, `Imports` and `MCPlatform` |
| `TenancyProofs` | theorems about `LeaseLifecycle`, `Residents`, `Documents`, `Inventory`, `Interests`, `Paging` and `MCTenancy` |
| `AccessProofs` | theorems about `Memberships`, `Sessions`, `Gateway` |
| `MCLedger`, `MCFinance`, `MCPlatform`, `MCTenancy` | compositions for TLC |
| `MCReceivables`, `MCBooking`, `MCIdempotency`, `MCMemberships`, `MCInventory` | symmetry and bounds for TLC |

One convention runs through the modules: what a handler does under a lock, or in
a transaction whose first write excludes all others, is one action; where it
reads without a lock and writes later, it is a `...Read` that keeps what was read
and a `...Write` (or the name of the statement) that commits, and other actions
run in between. Errors and crashes before the commit are the action that leaves
the call without writing (`RollBack`, `Leave...`, `Breaks`). A request that is
refused changes nothing and is no action. Optimistic versions are compared where
the code compares them, which is mostly before the transaction.

### Receivables

Each table is a function from its row numbers; a row not yet inserted has status
`NONE`. `alloc[p][i]` is the sum of the live (not reversed) allocation rows of a
payment on an invoice, `ledger` the balance of each account, `posted` the
posting keys in use, `outbox` the aggregates that already have an event. Money
is a whole number of the smallest unit `roundMoney` keeps.

A handler that locks what it reads is one action (`RecordManual`,
`SettleFromIntent`, `Allocate`, `RequestRefund`, `ExecuteRefund`,
`VoidInvoice`); `PostInvoice`, `CreateCreditNote`, `PostCreditNote`,
`ApproveRefund` and `ReversePayment` are two. Each write action makes all changes
of its handler: rows, allocations, journal and outbox event.

`Serial` chooses whether transactions overlap. `SequencedOutbox = FALSE` (and
`SequencedDeposits`, `SequencedCharges`, `SequencedRecon` elsewhere) is the
program as it is: `OutboxService.append` inserts sequence 1 whenever the caller
passes none, and no caller passes one, so the unique index lets an aggregate
have one event. `TRUE` lifts this, so that the handlers are also examined along
the histories the index now cuts off; it only adds behaviours, and what is
checked or proved with it holds of the program as well.

### Journals, Numbering, Settlements, Deposits

`Journals` builds the lines of each posting method (invoice, void, credit note,
payment, allocation, refund, reversal, disposition) as a set of lines, told apart by
their posting keys, and posts them as `postBalancedJournal` does: refused when they do
not balance, given up as a whole when one key is taken. `Receivables` keeps only what
these journals do to the accounts.

`Numbering` follows the transaction that draws a number: find the newest counter
row, lock it and read it again or create it, stamp, commit. In `Settlements` a
delivery finds the event outside its transaction (`Deliver`), and the
transaction, serialised by the event's row and the intent's row, is one step; a
failed one leaves nothing, because the mark `FAILED` is rolled back with it.
`Deposits` has one deposit and several lines; `taken` is a history variable that
counts how often a line was taken out of the deposit.

### Charging, Reconciliation

`Charging` has one period. `bill` maps invoices to kind, lease and run; a charge
key is free as long as no bill has its kind and lease. Previews and approvals are
two steps, a commit is the read of the run and the locked rest. `FAILED` and
`PARTIAL` do not occur in it. After an error of the database they cannot commit, as the
transaction that should record them is aborted. The errors the loop itself throws
(`billing-run.service.ts:618-629`: no such lease, no party to bill) would let them
commit, but no operation leads there: a lease is created with at least one party
(`packages/contracts/src/leases.ts:119`), and neither leases nor their parties are ever
deleted. In `Reconciliation` an operation is its check, the summing
of the run's items as its transaction sees them, and the update of the run with the
commit.

### Outbox, Idempotency, Imports

A poller is one call of `poll()`; the two-second timer starts them without
waiting, so several are open. Each step of `processEvent` is an action: `Poll`
reads the batch (oldest due events, at most `BatchSize`), `Reject`, `Skip` or
`Check` look at the next one, `Dispatch` or `DispatchFails` run its handler,
`Record` inserts the message and publishes in one transaction, `RecordFails` is
the loser of the unique index, whose error path postpones the event. `Crash`
empties a poller between any two of them. `Delivery` is the promise.

`Idempotency` is about one key (the unique index keeps keys apart). Each request
carries a hash chosen in the initial state, equal hashes being retries.
`ReserveFirst = TRUE` is begin/complete (refunds, dispositions, reversals,
reconciliation); `FALSE` is findExisting before the transaction and
resolveOrCreate at its end (payments, intents, invoices, credit notes, billing
runs, leases, imports). `effects` are the requests whose work was committed since
the row last expired. The unique index does not cover rows without a tenant; only
the sample endpoint of `meta` writes such rows.

`Imports` is one job. A row needs a property and a unit; every statement of the
handler is a step, because it runs outside any transaction: two workers that
deliver the same event search and create side by side, lose at the unique index
(`LoseCreate`), crash, and start over.

### Booking, LeaseLifecycle

`alloc[l]` is the `ACTIVE` row of `lease_allocations` of lease `l`: unit, type,
bed, quantity and a half-open period. `unit` keeps mode, capacity and whether the
unit is archived, `beds` the beds that are not. `peak` is a history variable, the
largest capacity a unit has had. `applyAllocationInTransaction` is followed step
by step: `Begin` claims the lease by its version (or creates it) and reads unit and
bed; `Check` locks the unit's row, looks for mixed types and sums the capacity of
other leases, still against the capacity read by `Begin`; `Insert` replaces the
row, where the two exclusion constraints may refuse, and commits. `CreateAllocated`,
`SetAllocation` and `Transfer` begin this way. `PatchLease` and `ActivateLease`
lock before they read. `patchUnit` with a mode and `createBed` read without a lock
and write by id. `ACTIVE` stands for `ACTIVE` and `NOTICE` there, `ENDED` for
`ENDED` and `CANCELLED`; a renewal is a `CreateAllocated`.

`LeaseLifecycle` has the same leases without their places. `request` keeps the row
an operation has read (and whether keys were out); the claim's `WHERE` is the
guard of the write. `history` is `lease_status_history`.

### The other modules of the tenancy

`Inventory`: the four tables as one function, `edit` the call in flight.
`Residents`: `saw` is what a call remembers; an activation checks the flags
before and inside its transaction. `Interests`: `visit` is the decision of a call
that it will write; `Overlapping` chooses whether two may be under way. The scope
operators are `AuthorizationService`'s. `Memberships`: a replacement of roles ends
the assignments its snapshot shows and inserts new ones, so it has a begin and an
end; `founders` is a history variable, everybody who has been an owner.
`Sessions`: a caller goes from statement to statement (`op`); `opened` and `ended`
are history variables, the sessions a challenge has opened and the sessions
somebody was told are ended. `Documents`: `object` is what the store holds, `site`
what scopes a link; the store is S3 when `AtomicPut`. `Paging`: a list is described
by its cursor, its order and what may change of a row; a page is a set of rows, and
the client counts how often it was shown each; `KeysetLists` are those whose cursor
goes with their order.

`Routes` lists all handlers with scope, permissions and headers, `Gateway` sends a
request through `JwtAuthGuard`, `OrganizationPathGuard`, `PermissionsGuard` and the
header checks, reading session, membership (twice) and role keys in four steps
while an administrator changes them. `Calls` lists the functions of the API
clients; a behaviour of `Gateway` may begin with any of them.

## Runs

Modules whose parts share no row that both write are composed as a sum: `part` (or
`active`), chosen in the initial state, names the one that runs, and the others
rest in one fixed state. Interleaving them would multiply the states and show
nothing more, because no step of one can enable, disable or change a step of
another. Where components do meet on rows (payments with invoices, refunds and
ledger; bookings with the administration of units; the poller with the recording of
its messages; activations with do-not-rent flags; dry-runs with the worker) they are
in one module.

| Run | Question | Bounds |
|---|---|---|
| `receivables_serial` | do tables, statuses and ledger agree after any sequence of operations, one at a time? | 2 invoices, 2 payments, 1 refund, 1 credit note, amounts 1..2 |
| `ledger` | what survives stale reads in the program as deployed, for receivables, keys recorded last, settlements, numbers, journals? | receivables: 2 invoices, 1 payment, refund and credit note, 2 open transactions; keys: 3 requests, 2 hashes; settlements: 1 intent, 2 provider events, 2 deliveries, 1 recorder; numbers: 4 postings, 2 years, 2 counter rows; journals: 2 of amounts 0..2 |
| `finance` | do refunds stay within the payment, are charges billed once, does the liability follow the deposit, do completed reconciliations agree? | refunds: 2 of 1 payment on 2 invoices, 3 users, one at a time; charging: 2 leases, 2 billing runs, 2 utility runs, 2 open requests; deposits: 2 lines, 3 users, 2 open approvals; reconciliation: 1 payment, 1 run, 2 items, 3 users, one transaction |
| `platform` | does every event complete, does begin/complete execute once, is an import applied once and to its end? | outbox: 3 events (one foreign), 2 polls, batch 2, one failure, one crash; keys: 3 requests, 2 hashes; imports: 2 rows that share a property, 2 workers, 1 dry-run, 1 commit, 1 crash |
| `booking` | can racing requests give a place twice, overbook a unit, lose the place of a transfer, move an ended lease? | 2 leases, 1 unit, 1 bed, 2 open requests, capacity up to 2, 2 days |
| `tenancy` | what do leases, documents, inventory, memberships, sessions, lists, residents, owners and guards keep with two calls in flight? | see below |
| `refund_race` | is the refund limit kept when approvals overlap? **No** | 2 open approvals, 2 refunds |
| `outbox_sequence` | do legal operations commit? **No** | 2 events of one aggregate |
| `duplicate_payment` | does a key recorded last execute once? **No** | 3 requests, 2 hashes |
| `owner_remains` | is an owner left after replacements of roles? **No** | 2 members, 2 open calls |
| `shares_overlap` | do the shares of a property stay within the whole? **No** | 2 owners, 2 ownerships of 60 %, 2 open calls |
| `beds_in_whole_unit` | are there active beds only in units of beds? **No** | 1 unit, 1 bed, one call at a time |

`tenancy`: 3 leases (one that may go through its whole life, its renewal, a rival
renewal), 1 key, 1 checklist item; 1 document, 1 resident, 1 lease, 1 property; 1
property, 2 units and 1 bed with one code; 2 people, 1 invitation, 2 role lists; 2
sessions, 2 refresh tokens, 1 challenge; 3 rows, 2 sort keys, pages of 1, 2 changes;
1 resident, 1 lease in draft, 2 flags (a second one, so that a replacement of flags
leaves one); 2 owners, 2 ownerships of 50.0000 % or 50.0001 % (so that one sum is
the whole, one the tolerance and one above it), 2 agreements, 1 grant, 2 days; 1 user in 2
organizations, 1 change of rights during a request, a custom role with
`finance.billing_run.preview` beside the auditor's; 2 calls in flight everywhere but
in `Interests` (`Overlapping = FALSE`, as `shares_overlap` shows the other case), 3
in `Residents`, as an activation meets a flag and its replacement.

Why this is enough: two invoices are enough for an allocation to move between them
and for a refund to be split over two rows with a rounding choice; two refunds for
one to be hidden from the other's limit; two open transactions for any pair of
handlers to interleave, one of them stale; three requests for a pair to race while a
third replays; three events for one to be postponed, one foreign and one younger;
two days for periods to overlap, to touch and to be apart; capacity 2 for a share to
fit beside one lease and not beside two; two rows of an import for one key to be
shared and one not; four postings for two to draw from one counter row while two make
rows of their own. One unit is enough in `Booking` because rows of
different units never meet in a check.

Three runs cut their state space with a constraint. `InScope` (`MCBooking`): a unit
that could once hold two leases is let by capacity only, the other modes, beds and
mixed claims are explored with capacity one. `RunsInScope` (`MCFinance`): billing and
utility runs are not mixed, since their charge keys differ in kind, and a second
billing run is made for one lease. `InterestsInScope` (`MCTenancy`): there are owners,
with their ownerships, or agreements, as no operation on one reads the other. A step
to a state outside is still checked.
Symmetry is taken of requests and of users where no property and no initial value
tells them apart; `platform` has liveness properties and takes none.
`CHECK_DEADLOCK FALSE` is set where the tables fill up or every request has ended,
which is the end of a bounded history and not of the program.

### What each property says

- `UnappliedAgrees`, `LedgerAgrees`, `StatusMatchesBalance`, `InvoiceConserved`,
  `VoidIsFinal`: control accounts, payments, balances and statuses of `Receivables`
  relate as the books require; the first three are checked with operations one at a
  time, the last two with stale reads. `RefundsWithinPayment`,
  `RefundsUnderDualControl`: one at a time.
- `LedgerBalances`, `NumbersWithoutGap`, `AcceptedIsSettled`,
  `LiabilityFollowsHeld`: no line of a refused journal stays; the numbers of a
  year are 1 to n; an accepted provider event has its payment, and a paid intent
  too; the liability account differs from what is held by transfers only, and no line
  is taken twice even when a stale approval puts it back.
- `ChargesFit`: a charge is billed once, and a committed utility run has charged all
  its leases. `RunsAgree`: a completed reconciliation agrees with its items.
- `ImplementsDelivery`, `EventsComplete`, `ImplementsAtMostOnce`, `RequestsEnd`,
  `OneRequestPerKey`, `PublishedIsApplied`, `ImportHandled`: the platform's
  promises, two of them as refinements of `Delivery` and `AtMostOnce`.
- `NoDoubleBooking`, `WithinPeak`, `RentedHasPlace`, `EndedStaysPut`: bookings.
- `LeasesSafe`: an occupied lease is in force, who moved out left no key
  and a finished checklist, one live renewal, the history is a chain.
- `ListedIsDownloadable`, `WalkComplete`, `FlagsSeenBlock`, `InterestsFit`: documents,
  lists, residents, owners. A part of `InterestsFit`, `SharesWithinTolerance`, says that
  the ownerships of a property that are active on one day come to at most 100.0001 %,
  which is what `createOwnership` compares its sum with: tolerances do not add up, and
  the sum over all that meet the new period is the right one. `SharesWithinWhole`, the
  whole that the documents ask for, fails with and without overlap (see below).
- `RolesEarned`, `SessionsSafe`, `HandledWasAllowed`, `ClientsFit`: who may do what,
  for how long, and whether the web application's idea of it is the API's: `ClientsFit`
  says that nobody it calls a reader writes by any route but those that ask for
  `finance.billing_run.preview` (`ReadersOnlyPreview`), `ReadOnlyChangesNothing` says it
  without the exception and is refuted.

### What the violations show

- `refund_race`: `approveRefund` updates by id what it read without a lock. An
  approval or rejection that read `PENDING` before another approval and the
  execution committed overwrites `EXECUTED`; a refund it sets to `REJECTED` no
  longer counts against the payment, although its money is gone.
- `outbox_sequence`: the second event of an aggregate aborts the business
  transaction it is part of.
- `duplicate_payment`: when resolveOrCreate reports a replay, the callers return
  normally and the transaction commits the work beside the first one's.
- `owner_remains`: two replacements of roles each find the other member still an
  owner.
- `shares_overlap`: two creations each fit beside what is there and not beside each
  other.
- `beds_in_whole_unit`: `patchBed` sets an archived bed to active without looking at the
  mode of its unit, which could be changed while no bed was active. A creation of a bed
  that races with the change of the mode does the same.

### Claims TLC refutes without a run of their own

The modules keep these definitions, so that anyone can put them into a cfg. They
are claims of the documents or comments quoted with them.

| Definition | Claim | Counterexample |
|---|---|---|
| `CapacityRechecked` (`Booking`) | `docs/03-database-design.md:534`: a commit rechecks the capacity | a capacity lowered between the read of the unit (`lease.service.ts:1101`) and its lock (`:1142`); `WithinPeak` is what does hold |
| `ReferenceUnique` (`Settlements`) | `payment.service.ts:209`, Sprint 11: duplicate references are refused | two recordings search before either inserts |
| `IntentPaidOnce` (`Settlements`) | BR-046: no second payment for an intent | two events without a payment id, each given one of its own |
| `NumbersNotReused` (`Numbering`) | ADR-0006: numbers are monotonic | a posting dated in another year resets the only counter row |
| `StaleIsRefused` (`Inventory`) | `docs/04-api-specification.md:257`: a stale version is rejected | the version is compared before the transaction |
| `WalkStable` (`Paging`) | `docs/11-design-review-findings.md:62`: pagination is stable under concurrency | the row of the cursor is patched or removed |
| `DryRunBlocked` (`Imports`) | the comment at `import.service.ts:404`: a claimed job blocks dry-runs | a dry-run that validated meanwhile writes `QUEUED` by id |
| `DisposedOnRecord` (`Deposits`) | BR-047: no amount disappears | a late approval sets an executed line back to `APPROVED` |
| `SharesWithinWhole` (`Interests`) without overlap | `docs/03-database-design.md:531`: shares must not exceed 100.0000 | 50.0000 % and 50.0001 %: `ownership.service.ts:147` refuses a total above 100.0001 only |
| `ReadOnlyChangesNothing` (`Gateway`) | `docs/07-ui-design.md:113`: a read-only state for users lacking mutation permissions | a custom role with `finance.billing_run.preview` alone, which the list at `permission-catalog.ts:564` lacks, creates and previews runs |
| `CallsServed` (`Gateway`) | `docs/04-api-specification.md:327`: `GET /roles/{roleId}` | the role editor's `getRole` (`admin-api.ts:207`) has no route; nor has `listUtilityAllocationRuns` |
| `LinkedOnce` (`Documents`) | `createLink` refuses a second link | two links search before either inserts |

Refuted under other constants: `RunsAgree` with two transactions overlapping (the
totals are summed from what each sees), `InvoiceConserved` and `VoidIsFinal` with
overlapping transactions and a sequenced outbox (a reversal writes back sums of balances
it has read unlocked; the outbox as it is lets no reversal of a recorded payment
commit), `ListedIsDownloadable` with
`AtomicPut = FALSE` (the local store truncates a file before it writes it). Refuted
while modelling, and therefore not stated: that a closed period takes no posting
(Sprint 12, rule 8) - an operation that found the period open may commit after it is
closed, since nothing locks the period - and that the charges approved are those
committed - an approval may overwrite what a preview has changed meanwhile.

### Other differences met on the way

`patchUnit` sets a capacity without looking at allocations, though
`docs/04-api-specification.md:375` has a `409 CAPACITY_BELOW_COMMITTED` for it;
`archiveUnit` archives a unit that is allocated, though
`docs/03-database-design.md:376` says this is blocked; `patchUnit` sets a building
without looking it up, though `docs/04-api-specification.md:375` has a
`422 BUILDING_PROPERTY_MISMATCH` for it;
`docs/04-api-specification.md:253` promises a key at least seven days for financial
mutations and actor scope, the code keeps it 24 hours with organization scope; a
refund split over three or more allocations can leave a rounding remainder that no
invoice gets back, which the deployed outbox hides because a payment gets one
allocation only; the web sends `Idempotency-Key` to `createBillingRun`,
`bulkMeterReadings` and `commitUtilityAllocationRun`, whose routes ignore it
(`docs/04-api-specification.md:494`); `createOwnership` (`ownership.service.ts:155-183`) and
its sibling in `management-agreement.service.ts:136-192` answer 409 after they have
committed when a count has changed; `patchEntry` can bring a removed entry of the
waiting list back; two `setDoNotRent` at once leave two active flags; `createGrant`
looks for duplicates of today only.

### Fairness

`Outbox.FairSpec`: weak fairness of `Poll` and `Work` (the timer fires, Node runs
what it started) and of `BecomeDue` (time passes). No fairness of appends,
crashes or failures; these are bounded by `MaxFailures` and `MaxCrashes`,
because a handler that fails for ever is retried for ever by design.
`Idempotency`: weak fairness of each request's own steps, none of `Abort` or
`Expire`. `Imports`: weak fairness of `Start` (the poll that delivers the event)
and of `WorkOn` (each worker's next statement), none of crashes, dry-runs or
commits. `PlatformSpec` takes the same conditions, each guarded by its part: an
action of a part that rests is never enabled, so its fairness says nothing. All
other modules are about safety and state none.

## Proofs

All theorems are for every value of the constants within the named assumptions
of the modules, that is for tables, amounts, requests, pollers, deliveries and
postings of any number; a theorem that needs more says so in its ASSUME. Each rests
on an inductive invariant, whose parts are named below; each module's proof has one
lemma for the initial states, one for each action (or for a shape many actions
share), and the theorem.

Money (`TotalsProofs`, `ReceivablesProofs`, `LedgerProofs`, `FinanceProofs`):

- `TotalsProofs`: a sum has a value, changes by the change of the one row that
  changed, is monotone and additive. The recursive function is shown to exist
  and to be unique first; its induction is a proof by least counterexample,
  since the library's induction theorems take an operator parameter.
- `TypeCorrect`: the schema, with sound references. `Typed`
  strengthens `TypeOK` by them (a credit note that is not `NONE` has an invoice,
  a refund its payment), without which `invoice[creditNote[c].invoice]` would
  have no type. `UnappliedCash`: the unapplied-cash account, by the lemma that one
  row's change changes the total as much; with overlapping transactions too.
- `RefundsBounded`, `RefundsControlled` (assume `Serial`): the invariant adds that
  refunds not rejected fit their payment, that a refund is in the ledger exactly
  when it is `EXECUTED`, and that an open approval still finds its refund
  `PENDING`, which is what overlapping breaks.
- `InvoicesConserved`, `StatusesMatch`, `VoidStaysVoid` (assume that transactions
  do not overlap, or that the outbox is the deployed one): `InvoiceInv` says of each
  invoice what its total, balance, collections and credits are to each other
  (`Sound`), that what happened left its posting key or event (`Keyed`), and that
  a reversal still open has read balances that are current, or cannot commit since
  the event of its payment's recording is there already (`ReversalsCurrent`). One
  lemma, `AllocationsMove`, carries the five writes that move an allocation and
  the balance under it by the same amount; `GivenBounds` says that a refund takes
  from no allocation more than it holds, whatever the rounding of its shares. With
  a sequenced outbox and overlapping transactions the three are false.
- `AccountsAgree` (assumes `Serial`, and the deployed outbox or at most two
  invoices): the receivables and cash accounts are the sums of the tables, and a payment
  is what is unallocated, allocated and refunded of it.
  `LedgerInv` joins the invariants of the refunds and of the invoices and adds that
  a payment is allocated to at most two invoices (`Splittable`: with the deployed
  outbox to one) and that a payment being reversed is settled (`Reversible`). The
  crux is `SplitWhole`: what a refund takes from one or two allocations is what it
  gives back, because two shares rounded half up leave no remainder that the last
  row cannot take (`TwoShares`). With three or more rows the shares of a refund may
  leave a remainder that no invoice gets back, so there the theorem is not claimed.
- `AcceptedSettled`: for any number of intents, events and
  deliveries. The invariant adds to the type that the payment id of a receipt is one
  an event for its intent carried (`Traced`), so that finding the payment already
  there means that the intent was paid, and that the property holds of every
  recorded event, whether or not its provider was told (`Settled`).
- `WithoutGap`: for any number of postings and years. The invariant
  says that what a counter row holds was given (`CounterGiven`), that a number drawn
  and not yet stamped is the first of its year or follows one that was given
  (`PendingFollow`), and that the numbers of a year are 1 to some k (`NoGap`).
- `LedgerStaysBalanced`: documents, settlements and amounts of any number. The
  entries are finitely many lines with integer amounts (`JournalInv`); each posting
  method either adds lines disjoint from those there, since their keys are new, and
  balanced among themselves, or nothing (`PostKeeps`). That the sides of a union
  of disjoint sets of lines add up is a lemma about sums over finite sets
  (`SideOfUnion`).
- `LiabilityFollows`: for the deployed outbox
  (`~SequencedDeposits`) and any number of lines and approvals. The invariant says
  what a request leaves on the line (`Requested`), that a line was taken as often as
  its event was appended, hence once (`TakenOnce`), that the account agrees
  (`Agrees`), and that nothing is held or executed before the money is in
  (`NothingYet`).
- `ChargesStayFit`: for any leases, runs and open requests. `ChargeTyped` says what a
  request that has read a run may still write, `KeysUnique` that bills of one kind
  and lease are one, `AllocatedToAll` that a committed utility run has charged all
  of its leases; lemmas say what a loop over the leases in any order inserts.
- `ReconciledRunsAgree` (assumes that there is one transaction at a time; with two
  it is false, as the totals are sums of what each sees): rows refer to items and
  payments there are (`RowsFit`), and what the open transaction has read still holds
  (`TransFits`), so that the totals it writes are those of the items when it commits.

Platform (`PlatformProofs`):

- `PublishedRecorded`, `FinalStatus`, `Implementation`: the invariant says that append
  times are distinct (so a poller has one next event), that a poll records only what
  was handled and is not foreign (`PollsHonest`), and that published, recorded and
  handled agree. Each step is mapped to a step of `Delivery` or a stutter.
- `OneRequest` and, for `ReserveFirst`, `AtMostOnceExecution`: the invariant says who
  holds the key, that rows are of ended requests, that effects are at most the row's
  (`Window`), and that answers agree.
- `PublishedAreApplied`: for files of any length, any overlapping deliveries and
  crashes. What a delivery no longer means to apply is in the inventory
  (`WorkerFits`), and a job that is final or an event that is published has all its
  rows applied, unless a dry-run has replaced the rows after the commit (`redone`).

Tenancy (`BookingProofs`, `TenancyProofs`):

- `NoPlaceTwice`, `CapacityBounded`, `PlaceKept`, `EndedFinal`: the invariant says
  that at most one open transaction holds a
  unit or a lease (`LocksExclusive`), that what a request has claimed still is
  of a lease it may change (`ClaimsSound`), that a place found free stays free
  while the unit is held (`CheckedFree`), and that capacities read are at most
  the unit's peak (`PeakCovers`). A step either changes what requests hold or the
  row of one lease; two lemmas of these shapes carry most steps.
- `LeasesTyped`, `LeasesStaySafe`: a request has read what the lease is, or an older
  version that its claim will not find (`ReadOrStale`), so that the claim alone
  carries every decision made before it; the rest are the parts of the property as
  facts of rows (`RowsSafe`, `OneSuccessor`, `Chained`).
- `FlaggedAreStopped`, an action property: a call between its screening and its claim
  knows flags none of which stands against its lease (`DesksFit`), and a flag that was
  cleared does not become active again.
- `ListedIsThere` (assumes `AtomicPut`; with the local store it is false): a document
  that is ready was put whole, and a whole object stays (`ReadyIsWhole`), and an
  upload between its check and its write has seen a whole object (`UploadsFit`).
- `InterestsStayFit` (assumes `~Overlapping`): one decision is open (`OneVisit`) and it
  still holds (`VisitFits`), an archived owner has nothing active, a property one manager
  and an owner one interest on any day. Its part about shares is `SharesStayTolerated`:
- `SharesStayTolerated` (assumes `~Overlapping`, as two creations at once are the
  violation of `shares_overlap`; that the bound is the whole is refuted
  without overlap too): a creation under way has added up the rows that share
  a day with it, and they still are all that do. The property is about one day, the
  sum of the code about all rows that meet the new period; a sum over a subset of
  naturals is at most the sum over the set (`SumMonotone`). The folded sum of the
  model is shown to be the sum over a finite set in `TotalsProofs`.
- `WalksAreComplete` (assumes that the cursors of the lists walked go with their
  orders, which excludes `listBuildings` and `listRoles`): a client on its way has
  been shown the steady rows up to its cursor once and none ahead of it (`Progress`),
  and the row of its cursor is still in the list unless somebody has changed it.

Access (`AccessProofs`):

- `RolesStayEarned`: every member was let in by an owner or by an invitation of one
  (`OwnersKnown`, `AdmissionsFit`), and an invitation claimed by a call is claimed by
  no other and has admitted nobody (`ClaimsAlone`), hence used once.
- `SessionsStaySafe`: tokens and challenges that a call has claimed are spent
  (`CallsFit`, `TokensFit`), a challenge opens one session (`ProofsSpentOnce`), a
  session of an account with a second factor has one (`SessionsProven`), and what
  somebody was told is ended stays so (`SignedOutStaysOut`).
- `HandledAreAllowed`: what each guard has established of a request when it lets it
  through (`Established`), where what was true since it arrived is remembered
  (`Remembers`), since rights may change between any two reads.
- `ClientsServedRight`, for any custom role: the tables of `Routes` and `Calls` are
  concrete, but when a handler runs depends on what four
  guards read while rights change. Two lemmas read the tables (`TableFits`: a writing
  route asks for a permission that shows or for the one overlooked; `ClientCallsFit`: a
  client sends the headers its route asks for). The invariant, on top of that of
  `HandledAreAllowed`, says that whoever has been seen to hold a permission of a
  writing route has been seen to be more than a reader, unless the route asks for the
  permission overlooked (`Noted`).

The compositions (`LedgerTyped`, `FinanceTyped`, `PlatformTyped`, `TenancyTyped`): each
run is a sum of parts. `BooksRun`, `HandsRun`, `PlatformRuns` and `PartsRun` show that a
behaviour of the sum is a behaviour of every part's own specification: the part that
runs takes its steps, the resting ones stutter, and their fixed state is one of their
initial states. So every theorem above about a part is a theorem about the run that
checks it. The four type invariants follow from that and from one typing theorem for each
part (`NumbersTyped`, `JournalsTyped`, `OutboxTyped`, `KeysTyped`, `DepositsTyped`,
`ChargesTyped`, `ReconciliationTyped`, `DocumentsFit`, `PlacesTyped`, `WalksTyped`,
`ResidentsTyped`, `InterestsTyped`, `MembersFit`, `SessionsTyped`, `GateTyped`, besides
those above). Many of the types need an invariant of their own to be inductive, as a
reference that a call has kept is a row because of what the call has read; they hold
whether operations overlap or not. `PlatformRuns` leaves the fairness of the parts
aside.

The constants are assumed to be what the schema and the validation make them, and
finite where the model bounds them: `Postings` and the ownerships are finite sets, shares
are natural numbers (the schema of a percentage at
`packages/contracts/src/parties.ts:85` lets no sign through), counters like `MaxJournals`,
`MaxTokenVersion` and `MaxRightsChanges` are natural numbers, and the lists walked are
lists there are.

Model-checked only:

- liveness (`EventsComplete`, `RequestsEnd`, `ImportHandled`): temporal reasoning
  under fairness, and ENABLED, are beyond the prover;
- the six runs that expect a violation, and the claims refuted above: a counterexample
  needs no proof.

Every safety property of a passing run is a theorem, within the conditions named with
it. `LedgerAgrees` with a sequenced outbox and three or more invoices is not true
(the remainder above), so it is not claimed there.

## Not modelled

- Reports: several reads formatted into a document; audit: append-only rows;
  meta and health: a sample and probes; rate limiting, email, bcrypt, S3 and
  JWT: counters in memory and library calls. They keep no state that another
  component decides from.
- Screens of the web application, the shared packages' schemas and tokens, seeds.
  Validation schemas decide what a request may contain; the models take requests
  that passed them.
- `listPendingActions` of the leases: a list that is read, limited to a window of due dates,
  500 leases and 100 entries.
- Amounts of proration and of utility shares, late fees, meters and readings, aging
  buckets: arithmetic without protocol.
- The API's own `inventory-import-commit.processor.ts` does what the worker's
  handler does and is called by tests only.
- Retention, visibility, versions and types of documents; floors, unit types,
  amenities and operational statuses; terms and dates of leases; several currencies
  and periods; tokens of invitations; email verification.

Simplifications within modelled operations: one link target in each upload intent
(`Documents`), a patch of a member sets its status or its roles and not both
(`Memberships`), one interest type (`Interests`), a reversal only of a payment on at
most one invoice, which is all the deployed outbox lets happen (`Receivables`).

## Plan

1. Pure algorithms against reference definitions: the refund split for any number
   of rows, proration and utility shares, aging buckets.
2. Composition of `LeaseLifecycle` with `Booking`, and of `Settlements` with
   `Receivables`, once their bounds can be lowered.
3. Theorems: `LedgerAgrees` up to the remainder of a refund's rounding, for any number
   of invoices and a sequenced outbox.
