# TLA+ models of OFD V2

OFD V2 is the ordering, delivery, payment, settlement and tax-invoicing system of
a franchise head office: an HTTP API (`src/apps/api`), a background worker
(`src/apps/worker`), a Postgres store (`src/packages/db`), domain rules
(`src/packages/domain`), adapters to external providers
(`src/packages/integrations`), a web application (`src/apps/web`), scripts that
deploy it and move the data of its predecessor (`src/infra/scripts`), and that
predecessor, a server on SQLite (`src/server`). This directory models the parts
where concurrency, failure and ordering decide whether money, goods, documents and
accounts stay consistent.

## Inventory

| Component | State it keeps | Operations | What is hard | What must hold |
|---|---|---|---|---|
| Orders, prepayment, delivery (`service.ts`) | order, payment_request, bank_transaction, shipment, upload_session, receipt rows | create, submit, request change, resubmit, approve, reject, cancel, match, reverse, assign, dispatch, upload, complete | operations that decide on rows they do not write, under READ COMMITTED | payment gate, one-to-one matching, cancelled orders hold no money, billed = paid |
| Settlements and monthly credit (`service.ts`, `worker.ts`) | settlement rows and their payment requests | draft, monthly close, per delivery, review, approve, lock | races of the worker with the office, Seoul and UTC days, a close that dies half-way | each receipt is billed once, completed work has billed, credit is paid before approval |
| Tax invoices (`service.ts`, `worker.ts`, `popbill.ts`) | tax_invoice rows, provider documents | draft, review, approve, issue, reconcile, webhook, retry, modify | lost answers of the provider, retries, webhooks out of order | what an invoice says is so at the provider, no duplicate document |
| Bank synchronisation (`worker.ts`, `popbill.ts`) | bank.sync events, bank_transaction rows | schedule, request, poll, read pages, import | pages, two workers on one period, overlapping periods | done means imported |
| Outbox (`postgres-repository.ts`) | outbox_events | commit, claim, complete, dead-letter, requeue | leases that expire under a running worker, crashes | at least once, bounded attempts |
| Worker loop and scheduler (`runtime.ts`, `worker.ts`) | heartbeats, schedule ledger | cycle, tick, stop, queue due slots | overlapping workers, a stop inside a cycle, one failing part | a whole schedule, stopped means stopped |
| Originals and notices (`worker.ts`, `storage.ts`) | objects, document and notification rows | render or fetch, put once, notify, retry | nothing of it is one transaction, two handlers of one event | originals are fixed, told means sent |
| Photos of deliveries (`service.ts`, `storage.ts`) | upload sessions, objects | ticket, upload, verify, complete | an address that stays valid between two looks | the proof is what was looked at |
| Accounts (`auth-service.ts`, `auth.ts`) | actor, credential, admin_invariant rows, session tokens | login, step-up, change password, provision, deactivate, change role, reset | checks across accounts, races of logins, sessions issued late | a last master, sessions die with the password, bounded guesses |
| Requests (`client.ts`, `step-up-coordinator.ts`, `idempotency.ts`) | keys, one shared password dialog | click, send, resend, reserve, replay | lost answers, two requests under one key, a dialog several calls wait for | a form is applied once, no call waits for ever |
| Stores of aggregates (`postgres-repository.ts`, `memory-repository.ts`) | aggregates, claims, audit chain, outbox | get, commit, transaction, exclusive transaction | statements of transactions interleave; snapshots replace each other | transactions are atomic, the chain does not fork |
| Access policy (`service.ts`, `access-pages.ts`) | one document | choose pages of roles and accounts, order the menu | two savers, a catalogue that grows | acknowledged choices hold |
| POS sales (`pos.ts`, `app.ts`, `worker.ts`) | links, discovered merchants, aliases, products, sales | link, webhook, synchronise, map items | requests of several statements | sales of a mapped item are told by its product |
| Reports (`monthly-settlement.ts`, `pos.ts`) | none | loss of a day, of a month | two computations from different tables | they agree |
| Openings, leads, stores (`openings.ts`, `field.ts`, `app.ts`) | projects and tasks; leads; store aggregates | create, tick, move; stages, open; register, edit | absolute writes on what was seen long ago; two transactions for one move | nothing late is ready, an open lead has its store, audits tell the rows |
| Money (`money.ts`, `service.ts`) | none | price an order, split VAT | rounding | parts add up |
| Migrations and deployment (`migration-runner.ts`, `render-release.mjs`) | schema ledger; deploys and a manifest | migrate; deploy, roll back | two releases at once, lost answers, kills, deploys begun by Render itself | each file once, services go out in order |
| Legacy data and server (`legacy-migration*.mjs`, `server.js`) | import batches; SQLite tables | export, plan, apply, cut over; POS rows, closings, backfill | a source that goes on changing; rows and closings written apart | the cut-over is complete, closings catch up, a backfill is whole |
| Configuration, notices and settings, other pages of the web application | - | - | outside the core | - |

The components meet in the database. The API queues outbox events in the transaction that
changes rows; the worker claims them, calls providers and commits with compare-and-set;
providers call back by webhooks, which the API stores and queues; the scheduler queues
periodic events; the browser resends what it has no answer to.

## How operations become actions

A mutation of the API runs in one Postgres transaction (`idempotentMutation`,
`PostgresRepository.transaction`) at READ COMMITTED: every read sees what is
committed at that moment, and `commit()` re-checks the version of exactly the
rows it writes (compare-and-set) and the business-key claims of the rows it
creates. So:

* an operation whose guards concern only rows it writes, or rows whose writers
  all hold the advisory lock it holds, takes effect at its commit: **one action**,
  with the guards at that point;
* an operation that decides on other rows is **split** into read actions, which
  store what was seen, and a commit action that re-checks only what the code
  re-checks. Reads of rows that cannot change between two points are merged;
* any transaction may roll back at any point: version conflicts, errors and crashes.
  A request with a stale `expectedVersion` changes nothing and is not an action.

That transactions are atomic in this sense is itself checked: `PostgresStore` has their
statements as actions and implements `AtomicStore`, whose steps are whole transactions.

Each module has its variables, an `Init`, one action per operation and a `Next`; variant
definitions (marked "Variant") are mistakes the code could have made, which TLC must find
with the property of the run. Bounds are constants whose name begins with `Max` or `Last`.

## Runs

`MCSubsystems` and `MCPromises` put several modules that share no
state into one run of TLC: the variable `picked` chooses a module at the start of a behaviour,
`Next` is that of the picked module, and the others stay as they begin. Nothing is composed by
this; it saves runs. Processes have the same names in all subsystems, so that one symmetry serves.

| Run | Instance | Shows |
|---|---|---|
| `orders` | `OrderFulfilment` with 2 requests and up to 3 versions of an order; a behaviour plays one of three scenarios (`MCOrders`). *prepaid*: 2 prepaid orders, one of which may be sent back for changes, 2 credits of one amount, 2 days. *repriced*: 1 prepaid order, 1 on credit, 1 credit, 2 amounts. *staff*: the same orders without credits, and a driver's account up to version 3 that may be deactivated and given roles in any order | `PrepaidLeavesOnlyPaid`, `MatchIsOneToOne`, `CancelledOrderHoldsNoMoney`, `ShipmentFollowsApproval`, `BilledAmountIsPaidAmount`, `LivenessCountsDecisions`. In *prepaid* both orders compete for both credits; one credit names both depositors, so automatic matching meets the ambiguous and the unique case. In *staff* an account is deactivated while it is no driver's, and made a driver's afterwards |
| `invoice` | `InvoiceIssue`: 1 invoice, 2 handlers, 2 attempts per event, 1 retry by hand, 1 failure | `OutcomeIsTheProviders`, `SuccessIsFinal` |
| `invoice_group` | `InvoiceIssue`: 2 parts, 1 modified invoice, 1 handler, 1 attempt per event, 1 failure | `LockedByWholeGroup`; under fairness `InFlightSettles`, `CompleteGroupLocks` |
| `billing` | `SettlementBilling`: 2 receipts of a prepaid store billed monthly, 1 of a store on credit billed per delivery, 1 draft by hand, 2 runs of the close, 2 attempts, 1 failure; a month is one day | `BilledOnce`, `ReviewedIsPaid`, `DoneMeansBilled` |
| `promises` | `Requests` (a form sent three times, 2 servers, 1 crash, 1 expiry of each key), `PosSales`, `LegacyLedger`, `Outbox` | `FormIsAppliedOnce`, `AliasedIsMatched`; under fairness `WaitingIsSettled`, `ClosingsCatchUp`, `DeliverySpec` |
| `subsystems` | `Leads`, `LegacyBackfill`, `PostgresStore`, `SchemaMigrations`, `LegacyImport`, `Originals`, `AccessPolicy`, `MemoryStore`, `WorkerRuntime`, `Openings`, `Releases`, `DeliveryPhotos`, `Money`, `LossReports`, `PosSales` (merchant links), `BankSync`, `Accounts` (1 master, 1 account to be made, 2 passwords, lock after 2 failures, 2 requests) | one or two properties of each, see Modules |
| `cancelled_shipped`, `duplicate_document`, `business_month`, `last_master`, `expired_key`, `unordered_release` | small instances of the modules above | six statements of the repository that the code does not keep, see Findings |

Why the bounds are enough. Two requests show every race above, because each involves one
operation between the reads and the commit of another; where a third matters (a waiting
statement behind a waiting one) it only repeats the second. The scenarios of `orders` are apart
because their questions are: money and stock need two orders of one amount, prices one order of
two amounts, the driver's row no money. A key that expires needs the request that made its row
and two resends, which is why a form is sent three times. One retry gives two keys, two
attempts a takeover, one requeue tokens beyond one life of an event. Two receipts let a
settlement hold a part of the month, two pages of one credit let a result break off, two
file sets with a changed or missing file are all ways for releases to disagree. A month of
one day keeps the two calendars apart by half of it. Failures are bounded by one or two: the
code has no state that counts failures except attempts, which have bounds of their own.
Deadlock is not checked: a workload whose bounds are used up has nothing to do.

## Modules

### `OrderFulfilment` (core)

| Variable | Code |
|---|---|
| `order`, `request`, `txn`, `shipment`, `upload`, `receipt` | the aggregate rows `order`, `payment_request` (of prepaid orders), `bank_transaction` (credits of the approved account), `shipment`, `upload_session`, `receipt` |
| `driver`, `liveness` | the driver's `actor` row; the version of `admin_invariant` row `driver-liveness:<id>` |
| `payLock`, `tx` | the advisory lock `payment-match` and the open transactions of concurrent requests |
| `today` | the Seoul operational day |

Split operations: cancelling (shipments are read, not written), assignment, dispatch,
completion (around the remote verification of the photo), deactivation and change of role.
Operations under `exclusiveTransaction` hold `payLock` from their reads to their commit;
one-action operations need it free.

Abstractions: an order's lines are its total (`gross`); the match window and the
memo comparison are the relations `InWindow` and `RefersTo`; delivery days are
`1..MaxDay`; route sequence, delivery window, contents of proofs and reasons are left out
(they only reject a request); a ticket that expires is one that is not used. Roles of the
callers are not modelled except the driver's, whose account is: any active account may be
deactivated, only that of a driver through the `driver-liveness` row, and a change of role does
not ask whether the account is active, so an account that is not may become a driver's whose row
was never written.

Reachable and not judged: a shipment that was not moved on its day never moves again, a
reversed match is matched again by the next synchronisation, and a receipt may be stamped
after midnight. No document says which of these is meant.

### `EventDelivery` and `Outbox`

`EventDelivery` is what the outbox promises to the operations that queue events: an
event counts as done only after a handler has run to its end, it may be given up, an
event given up can be queued again, and no waiting event is forgotten.

`Outbox` is the queue as it is: `row` are the rows of `outbox_events`, `worker` and
`batch` the place of each worker in `processOnce`. Every SQL statement of `claimOutbox`
and `completeOutbox` commits on its own and is an action: `SweepDeadLetters`,
`ClaimOutbox`, `CompleteOutbox`, `FailOutbox`. `HandleNext`, `HandlerReturns` and
`HandlerThrows` are the loop of `processOnce`; `Abort` is a crash of the worker or an
error of the database, after which the leases of its batch just run out. `claims`
counts the claims of an event and stands for the random lease token; `ran` is a history
variable, the claims whose handler returned. `completeOutbox` takes an error without a message
for none, so a handler that throws one has returned as far as the queue knows, which `ran` says
too; the audit entry of a dead letter is a commit of its own that changes no row of the queue,
and is left out.

There is no clock - a lease may run out (`LeaseExpires`) and a retry may become due
(`RetryBecomesDue`) at any time; the order in which due events are claimed is left open. The
refinement mapping of `Delivery == INSTANCE EventDelivery` maps the statuses pending,
processing and failed to waiting, completed to done, dead_letter to given up.

### `InvoiceIssue`

One settlement and the tax invoices issued for it.

| Variable | Code |
|---|---|
| `invoice`, `settlement`, `issueType` | rows `tax_invoice` (parts of the settlement's group and modified invoices), status of `settlement`, issue type of the group |
| `document`, `late` | external: the provider's documents by management key; registrations still under way when their caller gave up |
| `left` | attempts the outbox still makes for an issue, retry or webhook event |
| `step`, `view` | handlers: where they are and what they read |

Management keys of an invoice are `0` for the first and `n` for the key of manual retry
`n`; the automatic retry of the worker keeps the key. A handler reads the invoice, calls
the provider, and writes with compare-and-set on the version it read: each call and each
commit is an action (`Asked`, `Registered`, `Recovered`, `Confirmed`, `SaveIssued`,
`SavePending`, `SettleSuccess`, ...), so issue handlers, webhooks, reconciliation (which
works on rows listed at its start) and the office interleave between any two of them.
`Caught` is the catch block of `issueTaxInvoice`.

Failures: a call that fails may have had its effect, have it later or never
(`RegistrationUncertain`, `OutcomeUnknown`, `LateRegistration`); a commit, a query or the
storage of an original fails (`Fails`); a worker dies (`Crash`). A conflict of versions
is not a failure but follows from the interleaving. Not modelled: amounts, the persons and
roles of the office, the production switch; the originals are in `Originals`.

### `SettlementBilling`

How confirmed receipts become settlements, up to their approval.

| Variable | Code |
|---|---|
| `receipt`, `settlement`, `request` | rows `receipt` and `settlement`; status of the `payment_request` of a settlement |
| `event` | outbox events: the close of a month, the delivery of a receipt; status and attempts left |
| `step` | runs of `createMonthlySettlementDrafts`: the stores left in its loop, the settlement about to be created |
| `now` | time in half days: 00-09 o'clock in Seoul, when the UTC date is still the day before, and the rest |
| `due`, `faults` | history: the receipts there were when a close was requested; the failures so far |

A run of the close reads the receipts of one store (`ReadStore`), and creates their
settlement in a later step (`CreateSettlement`), so a second run of the same event, a
draft by hand and new deliveries fall in between. Business keys decide
(`Conflict`): the receipts of a settlement, and the period of a monthly one. After a
conflict the handler looks for a settlement it may take for its own (`Existing`);
`AcceptExisting` goes on, `RejectConflict` throws and leaves the other stores to the
next attempt. For a store on credit that lookup runs in the transaction PostgreSQL has
aborted, and fails (`Resolved`). The handler of a single delivery (`BillDelivery`)
depends on its receipt alone and is one step. Drafts by hand, matching, reversal and
review hold the payment lock and are one action each.

No liveness is stated: a close that conflicts with a draft by hand ends as a dead letter,
which nobody promises otherwise. A receipt that is committed after the close of its month has
read its store is billed by no close.

### `Accounts`, `MCAccounts`

Actor and credential rows, the tokens that were issued, and requests as chains of queries. A
token carries the password it was obtained with (history). The clock is left out: a lock may
end at any time, and a session that has expired is one that nobody presents.
`LiveSessionKnowsPassword`: a session that is accepted knows the present password;
`GuessesAreBounded`: wrong passwords are counted although requests overlap. The versions of
the run leave room for one conflict of a request that records a failure, so giving up is
beyond it; the proof covers it. Where deactivation and change of role meet shipments they are
in `OrderFulfilment`
(`LivenessCountsDecisions`: the row that serialises assignments with deactivations counts
every assignment and every deactivation of a driver that was committed; the account may still
be deactivated between the look at it and the look at the row).

### `Requests`

One page of the browser, clicks with their keys and bodies, requests and answers on the wire,
the shared promise of the password dialog, and the transactions of the server with their
`idempotency_keys` row. Connections break, the page is left, the API crashes and keys expire.
The operation behind a request is abstract.

`reserveIdempotency` is taken statement by statement, since each sees what is committed when it
begins: the `INSERT` waits for whoever holds the row; the `SELECT ... FOR UPDATE` remembers the
row it saw (`Look`), and when that row is no longer there once it may be locked, returns none
(`RowIsGone`); an expired row is replaced by the one who locked it (`ReplaceExpired`); and a
`DELETE` after a `SELECT` without a row takes the row that is there by then, whoever made it
(`DeleteRow`). A row has a number (`id`), so that one made later is not taken for it.

`FormIsAppliedOnce`: as long as the row of its key does not outlive its day, what a form asks for
is done at most once; and a click that is told "done", after an expiry too, asked for something
that was done. That a key is applied once in the life of each of its rows, `OncePerLife`, is
not so, see Findings. `WaitingIsSettled`: each call that waits for the password is sent again
or fails.

### `AtomicStore`, `PostgresStore`, `MemoryStore`

`AtomicStore` is what `StateRepository` promises: a transaction changes aggregates one
version at a time, takes business keys, appends to the audit chain and queues events, in one
step. `PostgresStore` has each statement as an action; statements wait for rows, keys and the
advisory lock of the ledger, see what is committed when they start, and one transaction of a
cycle is aborted. `StoreIsAtomic` is the refinement. `MemoryStore` is the store of the
demonstration: transactions work on a copy and put it back, so what is committed beside them
is gone as a whole (`StoreIsOfOnePiece`).

### `WorkerRuntime`, `BankSync`, `Originals`

`WorkerRuntime` is the loop of overlapping workers: heartbeat, schedule, outbox, each of which
may fail alone; stop and kill at any point. `ScheduleIsWhole`: a schedule no statement failed
has queued every slot due. `StoppedIsStopped`: no heartbeat of an earlier cycle says "running"
after the worker closed.

`BankSync` is a synchronisation from its event to the import: the provider's job, its pages, two
workers at one event. `SyncedIsImported` covers what the bank showed of the period when it was
asked for. The schedule asks for each day once, in its first minutes, and only for that day, so
credits posted later come in by requests of finance alone; and a period that overlaps an
imported one never succeeds in Postgres, because the claim of a known credit aborts the
transaction although the code passes over it. Both are in the model; no document promises
otherwise.

`Originals` is the handler that keeps the original of a row and tells the store: an object that
may not be overwritten, a row that names it, a notification per channel, each call and commit
a step. `OriginalsAreFixed`, `ToldIsSent`.

### `DeliveryPhotos`, `Money`, `LossReports`

`DeliveryPhotos`: the ticket, direct uploads as often as the address is valid, and the
verification in two remote calls that name one version of the object
(`ProofIsWhatWasSeen`). `Money`: pricing and splitting of up to three lines with unit prices 0
to 10, which give every remainder of the division by 110 that such totals can have; all
choices among equal remainders (`SplitAddsUp`). `LossReports`: the loss of a month against the
losses of its days (`LossIsWhatWasLeft`).

### `AccessPolicy`, `Leads`, `Openings`, `PosSales`

`AccessPolicy`: read, change and write back one document, releases that add pages, roles that
change (`SavedChoicesHold`). `Leads`: the move of a lead
registers a store in one transaction and moves the lead in the next
(`OpenedLeadHasStore`); edits of stores (`AuditTellsStore`). `Openings`: projects of the
template's tasks, whose day moves (`NothingLateIsReady`).

`PosSales`: the routes and the synchronisation statement by statement. `LinkedIsNotOffered`: a
merchant with a store is not offered for linking. `AliasedIsMatched`: rows of an item with an
alias are told by its product or one of two requests is about to see to it, unless a statement
failed or another alias was removed, which takes the product from rows it shares (`posMissed`
remembers both). A call to the provider may fail and ends the synchronisation of a link
(`LinkFails`), a crash or an error of the database between two statements of a request of a user is
not modelled. That the sales of a day agree with the provider in the end is promised by nobody:
the worker asks for a day only while it lasts, the last time at half past eleven at night, and
passes over what fails, so a failure of the last synchronisation, a late cancellation or an
older answer that is stored last stays until somebody synchronises that day by hand.

### `SchemaMigrations`, `Releases`, `LegacyImport`, `LegacyLedger`, `LegacyBackfill`

`SchemaMigrations`: runners of different releases under the advisory lock (`MigratedOnce`).
`Releases`: deploy and rollback of three services at a provider that queues, loses answers and
goes on when the script is killed - and that deploys all three by itself at every push
(`PushCommit`, `render.yaml`). What the scripts ensure is the order in which they start services
(`ReleasedInOrder`); that no service runs a newer commit than the API, `ApiIsNewest`, they
cannot, see Findings. `LegacyImport`: plans of exports that are
applied, replayed and overtaken by newer ones while the old server goes on
(`CutoverIsComplete`: every row that can be imported is there, not that it has its latest
content, which the counts of the gate do not tell either; the code's gate also asks that writing
has stopped and for the states of the rows, so it lets fewer batches pass). `LegacyLedger`: orders, products, POS rows and closings of the old
server (`ClosingsCatchUp`). `LegacyBackfill`: a job that is interrupted and taken up
(`BackfillIsWhole`).

## Fairness

* `InvoiceIssue`: handlers keep taking steps, the schedule keeps requesting reconciliation, the
  tax office decides. Webhooks are not fair. Failures are bounded: a provider that never
  answers again settles nothing.
* `Outbox`: each worker keeps taking steps (`runCycle` repeats, and `withTimeout` ends every
  handler), leases run out and retries become due. Nothing is assumed about the order of
  claims, because each claim uses up an attempt.
* `LegacyLedger`: the scheduled synchronisation of the old server runs again and again. It
  covers today and yesterday, so the promise is about a day while it is one of these; the
  provider's orders, edits and failures are bounded, so they end. `PosSales` has no fairness: the
  schedule of the worker gives a day no last synchronisation that succeeds.
* `Requests`: only the expiry of the step-up dialog is fair (`RejectStepUp`); the user, the
  network and the server owe nothing.

## Proofs

TLAPS proves the following for all values of the constants, with the named assumptions of each
module. TLC checked the invariants before they were proved.

Where an invariant is not inductive by itself, the strengthening is named; it says what the
unfinished operations still know.

* `OrderFulfilmentProofs`. `MoneyInv` adds to `PrepaidLeavesOnlyPaid`, `MatchIsOneToOne` and
  `CancelledOrderHoldsNoMoney` that the row lock is held by the reader that will commit
  (`LockHeldByReader`), that what an operation has read and will not check again still holds
  (`ReadsStayTrue`), and what automatic matching carries to its commit (`AutoMatchFacts`).
  `GoodsInv` gives `ShipmentFollowsApproval` and `BilledAmountIsPaidAmount`, and the action
  property `DeliveryIsFinal`: no step changes a goods receipt, its price or its payment.
  `LivenessInv` counts the decisions about a driver, so that of two that read the same row one
  fails. It also says that an account once deactivated is not active again, and that a deactivation
  whose version still holds has found it active.
* `OutboxProofs`. `OutboxInv`: the token of a lease is that of the latest claim
  (`LeaseOfLatestClaim`), whatever a worker holds was claimed (`HeldWasClaimed`), and a handler
  that returned has run (`ReturnedHasRun`). From it come the safety theorems and the refinement
  of `EventDelivery`, step by step, without its liveness.
* `InvoiceIssueProofs`. `IInv`: what every handler in flight knows (`HandlersSound`: of a key
  that is `Fresh`, an answer that `Fits` the document, a row `Backed` by one), honest rows
  (`RowsHonest`, `RowsReported`), and rows nobody has started on (`Untouched`, `Apart`). Documents
  only move on (`Grows`, `Stays`).
* `SettlementBillingProofs`. `RowsInv` (rows and snapshots of drafts), `MoneyInv` (`BilledOnce`,
  `ReviewedIsPaid`) and `CoverInv`: what a running close has passed is billed or on its list
  (`RunCovers`), and what it works on is confirmed (`DueConfirmed`). `MoneyInv` also gives the
  action property `SettlementsStand`: what a settlement bills is never rewritten, its review never
  goes back, and no payment of a store on credit is touched after it.
* `AccountsProofs`. `AccountsInv`: an account has a credential and nobody else (`Paired`), no token
  is newer than its account (`TokensAreOld`), and what a request has read is what the rows said
  at the versions it read and will commit against (`RequestsHonest`). Since versions only grow
  (`RowsGrow`), a refused session stays refused. `CountInv` is about periods, which begin when the
  failures are forgotten or a lock runs out: while the account is unlocked, the guesses of the
  period are its commits and the failures still to record (`Open`, `Accounted`), and one of
  these has been retried no more often than there were commits; once it is locked, only the
  logins that read it unlocked guess on, and the request that locked it is none of them
  (`Shut`). It needs that a request remembers the count of the row's version (`SameCount`).
* `RequestsProofs`. `RequestsInv`: messages and answers on the wire fit the click they belong to,
  one message of a click at a time (`OneMessage`), calls that wait are those the dialog knows
  (`NobodyIsLost`), and a row of `idempotency_keys` is held by one transaction (`OneHolder`) and
  says what was done (`KeyHonest`). As long as a key's row has not expired, a request that has seen
  it still finds it, so that none deletes a row or runs beside one (`ServiceHonest`).
* `StorageProofs`. `StoreInv` for the refinement of `AtomicStore` by `PostgresStore`: each open
  transaction's private state continues the committed one (`AllFit`), two of them share no row or
  key (`AllApart`), one holds the lock of the ledger (`OneLock`). `MemInv`: the store and every
  copy of it are `OnePiece`. `MigrationInv`: the holder of the advisory lock is alone
  (`OneHolds`) and what it read of the ledger continues it (`AllContinue`). `OriginalsInv`: the
  bucket only grows, a handler that told a channel finds the row at that version or `Onward` from
  it. `PhotosInv`: what the verification saw stays (`Grown`), so what it proves is `Proven`.
* `SubsystemsProofs`. `AccessInv`: a save writes the document it read with one part changed
  (`OnePart`). `LeadsInv`: a move to the last stage brings its store, an edit the version it was
  made from. `OpeningsInv`: every task of the template is there. `RuntimeInv`: the slot a worker
  is about to queue is locked, and a slot that is due is queued or still to do
  (`ScheduleHonest`). `PosInv`, `ImportInv` (an accepted row is in Postgres), `BankInv` (pages read
  so far are the first ones of the result, which has all that was shown), `BackfillInv` (the
  place of a job, its totals and the month that is fetched fit). `SplitAddsUp` rests on no other
  state: a document leaves over at most one won for each line that has something to round, and
  the lines with the largest remainders are among these. Sums are over finite sets; their laws
  are proved by induction over the parts of a set, stated with the set of those that satisfy the
  claim instead of an operator. `LossTyped` is all `LossIsWhatWasLeft` needs: it is a statement
  about sums, taken by product, by day and by store (`SumParts`, `SumExchange`). `ReleasesInv`:
  the deploys that a manifest names have run the commit it wants of them, up to the one that is
  waited for, and the services still to do are the rest of the order; deploys that Render begins
  by itself change neither.

The assumptions on constants say what the code gives: bounds are numbers, sentinels are none of
the values they stand beside (`NoPosAssumption`), an aggregate that exists at the start owns its
keys and no two share one (`KeyAssumption`, `SeededAssumption`), the old database is finite
(`SourceAssumption`), and so are the stores and the products of the reports (`LossAssumption`)
and the requests under way (`CallerAssumption`). A failure to log in is recorded in more
attempts than lock an account (`LimitAssumption`: 128 and 5 in the code). That is needed: with
as many attempts as failures, three requests, and a lock after two, TLC finds a guess that
goes uncounted.

Every safety property that a passing run checks is a theorem. Only model-checked is all
liveness (`InFlightSettles`, `CompleteGroupLocks`, `DeliverySpec`, `WaitingIsSettled`,
`ClosingsCatchUp`), since the prover has no rules for `ENABLED`.

## Findings

* `cancelled_shipped`: cancelling an order and assigning its delivery can both
  commit; the cancelled order is then delivered and billed.
* `duplicate_document`: the catch block of `issueTaxInvoice` marks an invoice failed
  whose document is live when the commit after the issue fails or conflicts; the manual
  retry then issues it again under a new key.
* `business_month`: the monthly close of a Seoul month compares UTC dates. A receipt of
  the first nine hours of a month is left out of its close, although the draft by hand was
  corrected for the same mistake.
* `last_master`: two masters that deactivate or demote each other both count the other as
  active and both commit; no master is left.
* `expired_key`: `reserveIdempotency` deletes whatever row a key has when its `SELECT ... FOR UPDATE`
  returned none. A form was applied and its key has expired. Two resends arrive: the first
  locks the old row, replaces it, applies the form and commits; the second, which waited for that
  row, is given none, deletes the new, completed one and applies the form again
  (`spec.md` promises the first result).
* `unordered_release`: `render.yaml` has Render deploy each service at each push (`autoDeployTrigger:
  commit`), while `docs/deployment-v2.md` says that all are `off` and that the worker and the web
  application follow the API. So they may run a commit the API does not run yet, before the
  release job has begun. It also follows that the deploy a release records as the one before is often
  one of its own commit, which Render had begun at the push; to roll back to it changes nothing.

Three things of the same kinds have no run of their own: a driver
who is deactivated, or given another role, while a delivery is assigned to him
(`OrderFulfilment`), and a modified invoice that locks the settlement of its original
although other parts of the original group are not final (`InvoiceIssue`), both reachable in the
models; and, outside them, pages that share the capability by which the menu shows them, so that
leaving one of them out has no effect while another is chosen (`access-pages.ts:24`,
`AppShell.tsx:61`).

## Not modelled

* Formatting, parsing, authorisation tables and serialisation of the HTTP routes; the stream of
  events to the browser; analytics queries; the pages of the web application beyond the order
  form and the password dialog: they keep no state that two actors share.
* The configuration, which is read once; notices and settings, single rows nothing depends on.
* Hashes, signatures and codes: passwords and contents are compared, not computed.
* The rate limit kept in memory, which only refuses requests.
* Accounts, openings and static pages of the old server, which the V2 modules replace.
* A crash between the two commits of an invoice webhook (storing it and queueing its event): in
  `InvoiceIssue` such a webhook never comes, and reconciliation does its work.

## Further work

What an account sees after pages were added and other parts of the policy saved (the paths a
document knows belong to all of it); a clock shared by `Outbox` and `WorkerRuntime`, so that leases and time limits can be compared.
