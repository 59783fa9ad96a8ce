# Verification of the Student Smart Payment Aggregator

TLA+ models of this repository's payment core, database sessions, QR microservice,
start-up, health report, log files, web page and reports, the TLC runs that check them on small instances, and TLAPS proofs of their
properties for every instance. Line numbers are those of this commit.

## 1. The system

A FastAPI application (`app/`, over the framework in `core/`), a Node
microservice that draws QR codes (`server.js` and its helpers), an Oracle
schema (`sql/`) and one HTML page (`frontend/`). Requests run concurrently: the
route handlers are plain functions, so Starlette runs each on a thread of its
pool; Node interleaves its handlers at every `await`.

| component | state it keeps | operations that change it | interacts with |
|---|---|---|---|
| payment service (`payment_service.py`) | none of its own | `initiate_payment`, `reconcile_webhook` | tables, mock bank, QR client |
| payment and invoice repositories | `PAYMENT_TRANSACTIONS`, `FEE_INVOICES` | `create`, `get_for_update_in_session`, `update_status_in_session`, `apply_payment_in_session` | database sessions |
| database manager | engine, pool of connections, initialised flag | `initialise` with retries, `session` (commit or rollback), `dispose` | Oracle |
| mock bank, UPI | none | `sign_payload`, `verify_signature`, `generate_utr`, `build_upi_uri` | payment service |
| REST routes (`api/main.py`) | none | call the services, map errors to answers | clients |
| QR client | none | `generate_qr` over HTTP | QR microservice |
| QR microservice | a `TtlCache` | `POST /api/qr/generate`, the sweep timer | its own clock |
| bootstrap and context | three singletons, three locks | `get_services`, `ApplicationContext.bootstrap`, `reset` | all of the above |
| environment, folders, health | process environment, directories, a report | `load`, `create_all`, `run_all` | bootstrap |
| receipts, reports | files | `generate_receipt`; queries only | tables |
| logging | handlers on one log file | `get_logger`, every record | all Python modules |
| audit service | audit tables | best-effort inserts; not wired | tables |
| frontend page | the current transaction and profile | the buttons' handlers | REST routes |

What is hard here: two webhooks for one invoice lock *different* transaction
rows and read the invoice without a lock; `initiate_payment` decides on an
invoice it read in another session; the bank may deliver a webhook twice; a
connection can break after Oracle has committed; the process may die between
any two statements; QR requests overlap across an `await`; the first requests
race to build the services and a build may fail half way; the page reads its
current transaction again after every `await` and takes answers in any order;
the dashboard's figures come from statements that see different commits; 40
request threads share 15 connections and wait for each other's rows while they
hold them; the health report is made once, while the world changes; 23 loggers
rotate one file. `PROJECT.json`
(`hazards`) lists each at its line with the properties that cover it.

What makes each component correct:

- payment core: status and balance change together; no success without a paid
  invoice; no credit without a success; answers are true and stay true; every
  request is answered;
- QR microservice: the code fits the request; nothing is served past its life;
  the cache does not keep what has expired;
- start-up: one set of services, on one live engine, shared by all; no lock
  kept by a failed build;
- sessions: waiting for a connection or a row ends; whatever fails, the
  connection goes back and the row locks end; a session that commits still holds
  what it has locked, outages notwithstanding;
- health report: complete whatever raises, each result of the time of its report;
- logging: a record is in a file that can be found;
- page: an invoice is paid for its owner; the card is the current
  transaction's; no debt is hidden; what is settled is what was signed;
- reports and receipts: the figures of one summary fit together though they
  are read one by one; a receipt is of a success and does not change.

## 2. Modules

| module | what it is |
|---|---|
| `PaymentGateway` | the payment core: threads, statements, locks, commits, answers; its properties |
| `SettlementLedger` | the abstract promise of the two tables |
| `PaymentGatewayInv` | the inductive invariant |
| `PaymentCauses` | the runs without the cause of a finding, and what holds in them |
| `MCPaymentGateway` | seeds, symmetry and the view for TLC |
| `PaymentGatewayProofs` | its theorems |
| `QrService`, `QrServiceProofs` | the microservice and its cache; theorems |
| `Startup`, `StartupProofs` | the lazy singletons; theorems |
| `Sessions`, `SessionsProofs` | the pool, the sessions, row locks and outages; theorems |
| `Health`, `HealthProofs` | environment, folders, the pre-flight checks and `/api/health`; theorems |
| `LogFiles`, `LogFilesProofs` | rotating handlers on one log file; theorems |
| `Frontend` | the page's handlers, the requests between page and server, the ledger as the server |
| `MCFrontend`, `FrontendProofs` | students and invoices for TLC; theorems |
| `Reports` | the dashboard's queries and the receipts, over the ledger |
| `MCReports`, `ReportsProofs` | invoices for TLC; theorems |

`PaymentGateway` implements `SettlementLedger`; `Frontend` and `Reports` are
composed with `SettlementLedger` in its place, so that what they claim rests on
what the payment core is proved to keep, the findings included.

Definitions that begin with another definition's name and follow a comment
`Variant:` are mutated forms of that definition; no action uses them.

### PaymentGateway

`invoice` and `txns` are the *committed* rows. A thread `w` has a program
counter `pc[w]`; what its open session has written and the row and index locks
it holds follow from `pc[w]`, `msg[w]` and `seen[w]` (operators
`HoldsTxnLock`, `HoldsUtr`, `HoldsInvoiceLock`, `NewPaid`). One step is one
database statement or one remote call:

| code | steps |
|---|---|
| `initiate_payment` | `RefuseInitiate`, `AcceptInitiate` (student and invoice read, amount computed), `CallQrService`, `InsertTxn` |
| `reconcile_webhook` | `RefuseWebhook`, `AcceptWebhook`, `LockTxn` (`SELECT ... FOR UPDATE`, not found, duplicate), `UpdateTxn` (flush, unique bank reference), `ReadInvoice` (unlocked), `UpdateInvoice` (flush, row lock, column width), `Commit` |
| exception in a statement | `StatementFails`: rollback and HTTP 500 |
| process dies | `Crash` |

`UPI_ID` behaves as `NET_BANKING` here (no QR call). Oracle is READ COMMITTED: a
statement sees committed rows, and a row lock is held to the end of the
transaction. `InsertTxn` and `Commit` may succeed in the database and fail for
the client. A signature is what it binds: `SignPayload(m)` is the triple of
transaction, bank reference and status, and a body carries that triple or
something else. The student read, the invoice read and the computation before
the remote call are one step (`AcceptInitiate`): the student is never changed,
and the amount depends on the invoice read only.

`PaymentCauses` does not change the program: `TurnsSpec` and `OneOpenSpec` are
the behaviours of `PaymentGateway` in which two webhooks never credit one invoice
at the same time, and in which an invoice never has a second open payment. The
first is what a `with_for_update` at `invoice_repository.py:70` would bring
about, the second what the idempotent creation of README.md:136 would.

`SettlementLedger` knows payments, references and balances, no threads. A
settled payment closes its invoice, and the balance holds *at least one and at
most all* of the settled payments: the code promises no more, see the findings.
The refinement (`Ledger` in `PaymentGateway`) reads the ledger off the two
committed tables.

### QrService

`cache` maps a key to an entry or `None`; `pending[c]` is a request whose
handler is at `await generateQr`; `now` is `Date.now()`. A handler runs
undisturbed up to the await (`Refuse`, `ServeCached`, `Miss`) and after it
(`Render`, `RenderFails`). `Render` reads the clock twice as the code does, for
`expiresAt` and in `cache.set`; `Pause` bounds the time between the two.
`Sweep` is the timer, `Restart` the end of the process.

### Startup

`services`, `context` and `config` are the class attributes `_instance` of
`Bootstrap`, `ApplicationContext` and `ConfigurationManager`; `holder` tells who
holds their locks. Steps end where another thread may look. A build goes
`Call`, `LockServices`, `Bootstrap`, `LockContext`, `GetConfig`, `LoadConfig`,
`CreateFolders`, `Connect` or `ConnectFails`, `PublishContext`, `Wire`, and may
raise (`BuildRaises`) at each stage that can; what it published until then
stays. `Reset`, `DisposeEngine`, `ClearContext`, `ClearConfig` are
`Bootstrap.reset` and the resets it calls.

### Sessions

A thread opens a session (`Open`), takes a pooled connection at its first
statement (`Checkout`, `CheckoutFails`, `CheckoutTimesOut`), may wait for rows
(`AskForRow`, `LockRow`), and leaves `session()` by `Commit`, or by an exception
(`BodyRaises`) and `Rollback`, and in either case through `Close`. `idle` is the
queue of SQLAlchemy's `QueuePool`, `Connections` its limit of `pool_size +
max_overflow` records, `alive` the records whose connection works, `taken[t]` (history) the rows
the session of `t` has been granted. `GoDown` ends all connections and the row
locks with them. That pre-ping replaces a dead connection of the queue is assumed
of SQLAlchemy, in `Checkout`; that an outage is noticed by a thread that waits for
a row is assumed of the network (the code sets no call timeout, so a connection
that is dropped silently could be waited for longer than `SessionsEnd` says). Oracle's own detection of
deadlocks (ORA-00060) is left out, so what is shown does not rest on it. What a
session may wait for is a row of `Transactions`, an entry of the unique index of
bank references (`References`) or a row of `Invoices`, asked for in that order,
which `MayLock` takes from the statements of `reconcile_webhook`. Every repository method that opens a session does so
outside any other, so a thread never holds two connections.

### Health

A process has `environ`, `fields` (the configuration snapshot), `published` (the
context's report) and `services`. The first request goes `Request`, `LoadConfig`,
`CreateFolders`, `Connect`, eight times `Check`, `Publish`, `Wire`; it may fail
at each stage and leaves what it has done to the next request. `Result(c)` is
the verdict of check `c`, that of `run_all` where the check itself raises.
`Change` is everything outside: `.env`, folders, disk, database, tables. `seen`
(history) collects what the pass of each check would have been while `run_all`
runs: `Facts`, put in terms of the world by `Sound`. Of the folders these say that
they take new files, which is what is tested; the message says "readable and
writable", and a folder that cannot be read passes (section 5). That one thread
builds at a time is shown in `Startup`.

### LogFiles

`named` gives the names `app.log`, `app.log.1`, ... to files, `stream[h]` is the
file the handler of logger `h` holds open. `Emit` and `EmitAfterRollover` are the
two ways of `RotatingFileHandler.emit`, on a system where an open file can be
renamed; each is one step, as the handler's lock makes it for one logger.

### Frontend

The script's globals are `selected`, `listed`, `student`, `pending`, `invoice`,
`open`, `txn` (`currentTxn`) and `card`. A handler is cut at its
awaits: `calls[c]` is the request a handler waits for, what it carries and the
answer once there is one. `Serve*` are the routes, each one step of the ledger
(the payment core's own races are in `PaymentGateway`), `Lose` an answer that
never comes (or a request that never arrives), `Show*`, `SignUtr` and
`PostWebhook` the code after an await, `CatchError` the rejected promise. `Cut` is the answer that `api()` makes of a 2xx body that is
cut or no JSON (index.html:176): `Empty`, whose fields are undefined, and with which
the handlers go on: a current transaction and a card without an id, a list that is
undefined (`ShowNoProfile`), a signature or bank reference that is undefined, which
the server refuses (`Refuse`, `RefuseSign`, `RefusePayment`). The page is the only
client of its server here, as in the offline walk-through of the repository's README. Payments stand for their transaction ids; a
bank reference, drawn at random for each click, is named after the payment it
settles. `payer` is the student a payment was
recorded for, which the server does not compare with the invoice's owner. Two
variables record the run only: `faults` counts lost and cut answers, `overlapped`
tells whether handlers were started while others waited.

### Reports

The tables change by ledger steps, each one commit, with `completed_at` taken
some time before it. `Summarise`, `Ask` and `EndSummary` are
`dashboard_summary`: five statements and `date.today()` in the order of
`Queries`, each seeing what is committed when it starts; a figure is the *set*
of the rows it counts or sums. `GenerateReceipt` reads and checks the
transaction, `Render` reads the invoice and writes the file, in place
(`receipt_service.py:242`), `RenderFails` leaves it `Damaged`, `Abandon` is an
exception before the write. No route leads here: the report service is not in
`AppServices`, and the receipt service is built but never called. Zone and day are parameters because `completed_at` is UTC
and `date.today()` is local.

## 3. Runs

| run | instance | question |
|---|---|---|
| `payment_ledger` | 3 threads, 2 transactions, 1 partly paid invoice, one bank reference both may use | do threads implement the ledger, are credits backed, are answers true and stay so, is `IInv` an invariant? |
| `payment_answered` | 2 threads, 2 transactions, one bank reference both may use, invoices partly paid, paid, cancelled, free of charge, fairness | are balances in their column, successes paid, nothing paid in part, is every accepted request answered? |
| `payment_lost_update`, `payment_double_credit` | 2 threads, 2 transactions, 1 invoice | findings, below |
| `qr_cache` | 2 callers, one payload with and without a logo, lifetimes below, at and above the cache's, a clock of 0..4 | does each answer fit, is nothing served late or kept too long, does the sweep get everything? |
| `startup` | 2 request threads and one that may also reset, 3 engines, 2 attempts | all of start-up, safety and liveness |
| `sessions` | 3 threads, 2 connections of which 1 is kept, 2 transactions, 1 bank reference, 1 invoice, outages at any time, fairness | do all waits and sessions end, is nothing left at rest, does whoever commits still hold its rows? |
| `health` | 1 mandatory and 1 business key, 2 folders, 1 table, 2 changes at any time | is the report complete, of which time is it, what can a reader of it rely on? |
| `log_lost` | 3 loggers, 1 backup, a file of 2 records | finding |
| `page` | 2 students, one with two invoices and one with one, 2 payments, 2 handlers at work, 1 lost or cut answer | do payments go to the owner, does the card follow the transaction, is every debt listed, is what is settled what was signed, is a patient user up to date? |
| `page_refresh` | the same | finding |
| `reports` | 2 payments, an open and a paid invoice, days of 2 units, a clock of 0..3, a zone of half a day | do the figures of a summary fit, are receipts of successes and unchanged? |

Bounds. Two threads suffice for each race of the payment core: every conflict is
between two sessions over one row or index entry; the third of `payment_ledger`
lets a duplicate arrive while two others conflict. Two transactions on one
invoice are the least that can lose an update. Amounts are whole units: the
code only adds and compares them. `MaxAmount` is the width of the column, small
enough that an overflow happens (`UpdateInvoice` then fails, as Oracle's
ORA-01438 does). `TxnIds`, `Engines` and `MaxTime` bound what the program
draws without end; when they are used up the model offers no further fresh one,
which cuts runs short and removes no behaviour before. One payload is enough
for the cache: keys are independent, and the theorems hold for any set of
payloads and styles. `CHECK_DEADLOCK` is on everywhere.

For the page, two handlers are the least that overlap, and two payments the
least that a badge can confuse. For the reports, one payment may be opened,
settled and read between any two queries, the second before or after it.

In `sessions`, three threads on two connections are the least where one waits
for the pool while another waits for a row; that a waiter may itself hold up a
waiter (a webhook with its transaction row, waiting for the invoice) needs a
third connection, was run once with four threads, and is covered by theorem
`NoDeadlock` for any number. In `health`, two changes are enough for one before
and one after the same check, and the theorems hold for any number and for any
keys and folders. `log_lost` has the smallest rotation; with the code's five
backups the same takes seven loggers.

The symmetry in the safety runs permutes threads, transaction ids and
references, which the model does not distinguish; that of `page` permutes
payments, handlers and the two invoices of one student, that of `reports` payments and references. `payment_answered` uses
a VIEW that drops the last answer, which no guard and no liveness property
reads. No liveness run uses symmetry.

Beside the runs there are four configurations of what the findings leave
intact, which theorems state for every instance (section 4): `PaymentTurns.cfg`
(`TurnsInv`, `BalanceIsSumOfSuccesses`) and `PaymentOneOpen.cfg` (`OneOpenInv`,
`NoDoubleCredit`) of `MCPaymentGateway`, with the instance of the two findings
and one thread more, `LogRotation.cfg` (two handlers, `LogInv`,
`OnlyTheOldestIsDropped`) and `LogOneHandler.cfg` (one handler,
`EveryRecordReachesTheLog`) of `LogFiles`. TLC finds no error in them.

Fairness. `payment_answered`: a thread that can run its next statement does
(WF), and a lock that is freed again and again is granted at last (SF on the
three statements that may wait), because Oracle queues the waiters of a row or
index lock. `startup`: WF per thread only; `threading.Lock` promises no order,
so no call is shown to return while others fail and retry for ever, only once
there are services. `qr_cache`: WF of the sweep, which `setInterval` runs for
as long as the process lives. `sessions`: WF per thread, whose waits for the pool end
by `pool_timeout`, and SF on the grant of a row lock, for the reason above. No
failure and no request is fair.

## 4. Proofs

For every value of the constants under the named assumptions (`Rotating` is
stated in the theorems of `LogFilesProofs`; seeds that the
schema accepts, `None` different from all values, a positive number of
attempts, positive lifetimes, limits and record lengths). TLAPS 1.4.5 with Z3, Zenon and LS4.

`PaymentGatewayProofs`. `IInv` is `Shape` (types; a row to insert has an id of
its own; a session works on a message) with `LocksAreExclusive` (a locked
transaction is PENDING and in one session only; a taken bank reference is
neither committed nor in another session), `MoneyIsWhole` (what threads carry
between statements, an amount to ask for or a balance they read, is a whole
number of opening debts) and `AnswersAreTrue`. The carried values are why the
properties alone are not inductive: between `ReadInvoice` and `Commit` another
thread may commit, and `EveryCreditIsBacked` survives only because the stale
sum is still one that successes back. From `Invariance` follow
`TypeCorrectness`, `SuccessIsPaid`, `NeverPaidInPart`, `CreditsAreBacked`,
`AnswersTrue`, the action property `AnswersLast`, and `Refinement`: every step
is a ledger step or leaves the ledger alone.

The two findings of the payment core each have one cause, and the same module
proves it. `TurnsInv` adds to `IInv` that a balance read is the one to be
replaced (`ReadBalanceIsCurrent`) and that every success is in the balance.
Neither is inductive without the other, nor without `CreditsTakeTurns`: the
commit of another thread (`OtherSuccesses`) changes the balance of an invoice
that nobody else has read. From `TurnsInvariance` follows `TurnsLoseNothing`, the
property that `payment_lost_update` violates. `OneOpenInv` says that open,
drafted and successful payments of an invoice are one in all (`Contenders`): the
drafts have to be counted, since `initiate_payment` decides on an invoice before
it inserts, and an invoice with a success refuses new drafts because a success
is paid (`SuccessImpliesPaid`, from `IInv`). From it follow
`OneOpenCreditsOnce`, which `payment_double_credit` violates, and
`OneOpenLosesNothing`.

`QrServiceProofs`. `IInv` says of the entries what the answers need:
`EntriesFit` and `CachedBriefly`; `RightCode`, `InTime` and `Brief` follow.

`StartupProofs`. `IInv` says which lock a program point holds
(`LocksMatchPc`), what a thread found under its locks (`FoundStays`) and that a
published context is live but for the moment of its reset (`ContextIsLive`).
`Whole`, `BuiltOnce`, `OnePool` follow, and `BuildersDoNotWait`: whoever holds an
inner lock is at a program point that holds the startup lock as well, so the
holder of the startup lock finds the inner ones free. `Shared` adds that all services that
are still usable belong to the published context; `NeverNone` assumes that
nobody resets.

`SessionsProofs`. `IInv` says that connections are exclusive and match the
program point, that the queue is within `pool_size` and what is neither queued
nor in use is closed (`PoolIsKept`), that row locks belong to living connections
(`LocksAreOfTheLiving`) and that a waiter asks in the order transaction, bank
reference, invoice (`LocksAreOrdered`). `NoDeadlock` follows: a thread that waits
for the pool has no lock, and whoever holds up a waiter waits, if at all, for a
row of a later kind (`Later`), so that a chain of waiters ends after three.
`LocksAreKept` says that as long as a connection lives its thread has
every row it was granted, and that without a connection there is none; exclusive
records carry it through outages, because a dead record that somebody uses cannot
be checked out, and so brought to life, by another. `QuietAtRest` and the action
property `LocksReachTheCommit` follow.

`HealthProofs`. `IInv` ties the report to the process that made it: what ran has
a result (`NothingIsSkipped`), the context keeps the report it was made with
(`ReportIsOfContext`), and the two checks of the process itself are still true
(`ChecksOfTheProcess`), because neither the environment nor the snapshot changes
once it is loaded. From that `ReadyWhenServed`. `ReportsAreOfTheirTime` needs that while
`run_all` goes on every fact of the world is recorded (`Recorded`), and
`PassMeansSound`, which goes through the checks one by one: a check passes exactly
when what its pass establishes holds.

`FrontendProofs`. `IInv` adds to the properties that the list is one student's
(`ListIsOwn`) and that every request and answer under way is true, or was when
it was sent (`CallsAreTrue`): an answer may be shown long after, so what it says
must be of a kind that lasts. `OwnersPay`, `CardFollows`, `DebtsShow` and
`SettlesSigned` follow. `NothingIsUndefined`, a part of it, says that an undefined
field has no source but a fault of the network; `RequestsAreComplete` states that
until an answer is lost or cut no request leaves without its transaction, bank
reference or signature. After one the card may show an id the server does not know,
which `CardIsOfTransaction` allows then and only then. `PatientSees` needs more, `FreshWhilePatient`: while no answer
was lost or cut and no handlers overlapped, every request or answer under way is not
only true but still current (`CallIsFresh`), and whatever the page shows that is
not current has the request on its way that will correct it (`Settling`,
`Reloading`). The lemmas `ServeFresh`, `ShowsTheSame`, `ResumeFresh` and
`StartFresh` go through the kinds of steps; `PatienceIsOld` says that a step
cannot make a user patient again. `OwnersPay` holds though the server compares nothing,
because the page clears its list and its transaction together.

`LogFilesProofs`. `LogInv` is inductive as it stands, for any number of handlers:
`NamesAfterRotation` needs `NoGaps`, without which a rotation would leave a name
where it is, and `RotationKeepsNames` needs that the new file had no name.
`DropsTheOldest` follows, so what `log_lost` loses is not lost by a rotation
alone. `OneHandlerLosesNothing` adds that a single handler has app.log open
(`HoldsAppLog`), which the rotation of a second would end.

`ReportsProofs`. `IInv` says what the figures found so far owe to each other at
each position of the dashboard (`FiguresInOrder`) and that what was found in a
final state is in it still (`FiguresAreFinal`). `DebtsKept` rests on the order
of the statements: outstanding invoices are read before the successes, so an
invoice paid by the first query's time has its success in the fourth.
`ReceiptsLast` (the file stays, and says what it said while it can be read) rests on final rows and on the invoice being PAID by the commit
that made the success.

Every invariant and every action property that a passing run checks is stated by
a theorem. Only model-checked: the liveness properties `EveryRequestIsAnswered`,
`StaleEntriesGo`, `StartupLockIsReleased`, `CallsReturnOnceWired` and
`SessionsEnd`, and that no instance deadlocks (fairness and ENABLED are out of the provers'
reach), and the violations. No definition is recursive.

## 5. Findings

- `payment_lost_update`: `invoice_repository.py:70` reads the invoice without
  a lock, so of two webhooks for two transactions of one invoice the later
  commit overwrites the earlier credit.
- `payment_double_credit`: `reconcile_webhook` does not look at the invoice
  again, so two open transactions of one invoice credit it twice.
- `page_refresh`: `simulatePaymentSuccess` sets the badge of whatever
  transaction the card shows when the webhook's answer arrives.
- `log_lost`: each logger's handler rotates the shared `app.log` by the file it
  holds open itself (`logging_manager.py:170`). When the file is full, every
  logger rotates it once more: the backups are overwritten by files of a record
  or two, and a handler goes on writing to a file that has been deleted. (On
  Windows an open file cannot be renamed; there the handler fails to rotate and
  drops the record, and the finding differs only in how records are lost.)

Seen and not run: `idempotency_key` is never set, so a repeated initiate opens a
second transaction, against README.md:136 (`payment_double_credit` begins that
way); the cache key of the QR microservice has whether there is a logo and not
which (`server.js:149`), against "repeated identical QR requests"
(`cache.js:7`; the run `qr_cache` has one logo and `CodeIsForRequest` asks only
whether there is one, so neither shows this); `_check_folder_permissions` says "readable and writable"
(`health_check_manager.py:441`, 455) and tests only writing, so a folder that cannot
be read passes; `/api/health` appends the mock bank's check and leaves
`pass_count` as it was; the pre-flight that README.md:808 puts "on startup" runs
with the first request; a blank value loaded from `.env` is not replaced when
`.env` is corrected (`environment_manager.py:104`), so the process has to be
started again; `initiate_payment` calls the QR microservice before it inserts
the row (README.md:328 draws the INSERT first); `collected_today` compares a
local date with a UTC time, so around midnight payments count for another day
than the one on the clock; a 2xx answer that cannot be parsed becomes `{}`
(`index.html:176`), so the page may show a card whose transaction is `undefined`;
PARTIALLY_PAID (README.md:538) and the branch for it (`invoice_repository.py:74`)
are never reached, as `initiate_payment` asks for the whole outstanding amount; a
receipt that cannot be written to its end destroys the one it replaces; a transaction that settles between the dashboard's
queries for successes and for pending transactions is in no figure.

What nevertheless holds and is proved: a success leaves its invoice PAID and
covered, and no balance shows money that no successful transaction brought. And
each of the first two findings and `log_lost` has one cause: credits that take
turns lose none, an invoice with one open payment is credited once, and one
handler loses no record (section 4).

## 6. Not modelled

Reads that decide nothing (`get_transaction`, the microservice's `/health`,
the lists of the reports), formatting (URIs, PDFs, JSON), log levels and
layout, CORS, the random part of
references, requests refused by validation before a service runs, the
reconciliation and audit reports (nothing writes their tables), CANCELLED
invoices outside `payment_answered`, a page that is reloaded while requests are
under way, and the components of `PROJECT.json` with status `not_modelled`. The
audit service is not wired into `Bootstrap` and nothing calls it. Overlapping
rotations of two handlers are left out of `LogFiles`; they would only lose more. In `Startup` an engine dropped by a build
that raised after `Connect` stays open, as in the code.

## 7. Plan

Done, in the order of importance: payment core and its ledger, QR cache,
start-up, page, reports and receipts, database sessions, health report, log
files, each with proofs, and the causes of the findings. Next:

1. Proofs: that the row locks of `PaymentGateway` are those of `Sessions`, as a
   refinement, so that the absence of cycles carries over step by step.
2. `Gateway`: composition of `PaymentGateway` with `QrService` over the HTTP
   call, with its time-out and a code that arrives too late: what the client
   is told against what the cache holds. `qr_service_client.py`,
   `upi_service.py`, `qrGenerator.js`.
