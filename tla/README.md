# Verification of the NGO Intelligence Suite

TLA+ specifications of the parts of the suite whose correctness depends on the
order in which things happen, the TLC configurations that model-check them on
small instances, and proofs, checked by the TLA+ proof system, of what the most
important of them promise on instances of every size. The suite is a set of
Express services over one PostgreSQL database (row level security separates the
tenants), Redis streams between them, and a Vue front end that also works
offline.

Almost every hard question about this code is of one kind. A request handler is
one transaction at READ COMMITTED (`withTenant` in
`backend/packages/tenant-context`). What it reads in one statement may have
changed by the next; what it writes is seen by nobody until COMMIT; what keeps
two handlers apart is a row lock, an advisory lock, a unique index or a
condition in the WHERE of an UPDATE, and where none of them is there, nothing
does. Tests run one request after another and see none of this. The other hard
questions are at the edges of the database: what a transaction does to a disk, a
mail provider or a registry is not rolled back with it; the relay publishes to
Redis what has been committed; and the browser works without the server, asks
several things at once, and gets its answers in any order.

## Inventory

Sources are below `src/`; a service is `backend/services/<name>/src`, a package
`backend/packages/<name>/src`.

| Component (sources) | State | Operations that change it | Interacts with | Hard to get right | Modelled in |
|---|---|---|---|---|---|
| Audit trail (package audit) | `audit_events`: one hash chain per tenant | `writeAuditEvent`; `verifyTenantChain` reads | inside the transaction of every handler that changes data | numbering and linking under concurrency and rollback; a lock held to the end of every transaction | AuditChain |
| Transactions (package tenant-context) | locks, uncommitted rows | BEGIN, COMMIT, ROLLBACK | all services | an error path must give everything back | every module of a handler |
| Grants (grant-service, `finance.ts`) | `grants`, `grant_budgets`, `grant_disbursements` | create, revise budget, record, submit, approve | audit trail, outbox | a ceiling checked without a lock; an approval by id; one current budget | GrantFinance |
| Expenses (grant-service, `coa-expenses.ts`) | `expenses`, `journal_entries`, `journal_lines` | create, submit, approve | audit trail | an approval posts to the ledger, once | Expenses |
| Outbox relay (outbox-relay) | `outbox`, the stream | `drainBatch`, `publish` | every producer; Redis | crash between publish and COMMIT, lost replies, replicas, a smallint counter | OutboxRelay, AtLeastOnce |
| Webhook dispatcher (webhook-dispatcher, tenant-service) | `webhook_deliveries`, subscriptions, the consumer group | read the stream, deliver, retry, suspend | the stream, HTTP receivers | ticks that overlap, unacknowledged messages, a quota during a retry | Webhooks |
| Offline queue (`frontend/src/offline`) | IndexedDB: queue, forms, device, cursor; memory: key | capture, `runSync`, wipe, reload | field-data-service | overlapping syncs, lost answers, reload, wipe while syncing, another user | FieldSync, FormManifest |
| Field data (field-data-service) | forms, submissions, devices, paper batches | batch upload, wipe, publish, manifest, commit a paper batch | offline queue | resent submissions; a cursor that is a timestamp; a batch committed twice | FieldSync, FormManifest, PaperBatch |
| Payroll (hr-payroll-service, `payroll-routes.ts`) | `payroll_runs`, `payroll_records` | create, calculate, submit, approve | contracts, erasure, audit trail | calculation racing review; two calculations | PayrollRun |
| Payroll arithmetic (package payroll-engine) | none | `computePayePeriod` | payroll | rounding, brackets, signs | Payslip |
| Contracts, rates (hr-payroll-service, `hr-routes.ts`) | `employees`, `contracts`, `fx_rates` | hire, contract, refresh | payroll | one active contract; rates of one refresh | Workforce |
| Leave (`leave-routes.ts`) | requests, balances, accrual runs | request, approve, reject, accrue | | accrual done twice; a sum beside its rows | Leave |
| Onboarding (`onboarding-routes.ts`) | checklists, tasks | start, complete a task | employees | the last two tasks at once | Onboarding |
| Report queue (reporting-service, `queue-routes.ts`) | `report_jobs`, artefacts on disk | queue, claim and run | file system | quota without a lock; fairness between tenants; files before rows | ReportQueue |
| Payslip export (reporting-service, `routes.ts`) | jobs, artefacts | export, download | payroll | a calculation between two reads | PayslipExport |
| Beneficiaries (beneficiary-service, packages beneficiary-dedup, crypto, vulnerability-score, k-anonymity) | register, key of the tenant, flags, scores | register, review, assess, enrol, publish counts | field-data-service | numbers drawn by counting; a key drawn twice; counts that follow from totals | Registry, KAnonymity, Vulnerability |
| Learning (lms-service) | courses, enrolments, attempts, certificates | create, enrol, progress, attempt | onboarding | completion overwritten by id | Learning |
| Notifications (notification-service) | deliveries, suppressions | send with fallback | mail, SMS | sent before it is recorded | Notifications |
| AI insights (ai-insights-service) | settings, token use, texts | set, generate, approve | model | budget read before the call, charged after | AiInsights |
| Tenants (tenant-service) | tenants, quotas, access and erasure requests | create, package, maker-checker, execute | employees | half a creation; execution twice | Tenancy, Erasure |
| Files, IATI (file-service, integration-service) | rows, files, registry | upload, delete, publish | file system, registry | row and file part | Files |
| Authentication (auth-service) | states in memory | start, callback, login | identity provider | one session for a state | SignIn |
| Gateway (api-gateway) | a window per tenant | count | all services | a burst across two windows | Gateway |
| Browser session (stores, `router.ts`, `lib/nav.ts`) | token, configuration, page; `localStorage` | sign in and out, bootstrap, navigate | all services | late answers of an earlier session | Session |
| Browser views (`views/*.vue`, `components/data`) | rows, selection, busy, error | click, load, filter, sort, page, tick | services | answers in any order; rows that change under a page | Views, DataTable |
| Application shell (`layouts`, palette, dialog, `lib/focus.ts`) | overlays, groups, focus | keys, clicks, navigation | views | several handlers of one key | Shell |
| Migrations, seed (package db) | `schema_migrations`, seeded rows | migrate, seed | deployment | cut off and started again | Seeding |
| Reports and analytics | none | read only | | | no |
| Shared packages (rbac, service-kit, errors) | none | tables, the HTTP frame | all services | | no |
| Scripts, document tools | none | | | | no |

What makes each of the modelled components correct is stated as properties of
its module, below; `PROJECT.json` lists the hazards, each with the line where it
bites and the properties that watch it.

## Plan

The order was by what would hurt most if it went wrong, and so that a module
that is used by another came first: AuditChain, GrantFinance, OutboxRelay with
AtLeastOnce, FieldSync, PayrollRun, Webhooks on what AtLeastOnce promises; then
the rest of the field work and of the back office; the browser; the arithmetic.
All of these are there. What is left:

1. The repair of the hazards that the properties count as exceptions, as
   variants of the modules: that the grant ceiling, the finality of a payroll
   run and the conclusion of a checklist hold once their row is locked first.
2. Lists that are not told apart yet: creation of forms and assignments,
   households, templates of notifications, preferences.

## The modules

Conventions. A *session* (writer, clerk, tick, tab) is one open request or
process. `pc`, `phase`, `stage` or `job` names the statement it has completed
last, so that every point where the code awaits is a state in which others may
act. A read is its own action; what a transaction has written stays in the
session's variables until its commit action, since nobody else can see it. An
UPDATE by id just before COMMIT is part of the commit action where nobody can
tell. A blocking statement (a row lock, `pg_advisory_xact_lock`, an INSERT that
meets an uncommitted row of a unique index) is a guard. Any statement may fail:
`Rollback` (or `Abort`, `GiveUp`) is enabled in every state of an open
transaction, which also stands for checks that throw and for lost connections.

Variables described as "not in the code", and a few more like `listed`, `late` or
`crossed`, are history: they record that a race has happened, so that a property
can say exactly when the code may deviate. Such an exception is part of the
property: everything outside of it is claimed, and what is inside of it is a
finding of `PROJECT.json`.

Operators introduced with "Mutant:" are variants of the definition after them, as
a plausible bug would have it. Nothing in the specifications uses them. For
every property of every passing run one of them replaces its original
(`PROJECT.json`, `mutants`), and TLC must find the property violated: the
evidence that the property depends on the code. Some parts of a composed
property have a variant of their own beside that one; replaced by hand they are
found in the same way.

### AuditChain

`events[t]` is the committed part of `audit_events` of a tenant; `lock[t]` the
advisory lock; `rowLock` the business row that a handler updates first. A writer
runs `Begin`, `ChangeRow`, `TakeAuditLock`, `ReadTip`, `Insert`, `Commit`, which
are the statements of `withTenant` and `writeAuditEvent` in their order. SHA-256
is the tuple of its inputs (no collisions). `Stored` is the function from a
content as a handler passes it to the content as the columns give it back: the
hash is computed over the former, the verifier recomputes it from the latter.

`ChainVerifies` is what `verifyTenantChain` checks, row by row; `GapFree`;
`NoWaitCycle` (two kinds of locks and no deadlock); `RequestsFinish`.

### GrantFinance

`budgets`/`current` are the budget versions and their `is_current` flags,
`disbursements` the rows, `outbox` the events about each disbursement in commit
order. The handlers that write are there with every statement: creation with
its first budget, `BeginRecord`..`CommitRecord`, `BeginSubmit`.., `BeginApprove`..,
`BeginRevise`... The partial unique index on the current budget and the recheck
of an UPDATE that has waited are modelled in `UnsetCurrent` and `InsertBudget`,
because "one current budget" rests on them. The audit event before each COMMIT
is left to AuditChain: it takes one more lock, after the others, and cannot
change what is said here.

`OneCurrentBudget`; `BoundedOverrun`, what remains true of the ceiling without a
lock; `EventsMatchRow`; `StatusNeverRegresses`; and `ApprovedOnce`, which fails.

### OutboxRelay and AtLeastOnce

`rows`, `published`, `attempts` are the committed outbox; a relay has its
`batch` (locked rows), `todo` and uncommitted `marks`; `copies` counts what is on
the stream. Redis may refuse (`XAddFails`), with or without having taken the
entry; a replica may stop anywhere (`Crash`), and its transaction rolls back
while the stream keeps what it has. `publish_attempts` is a smallint, incremented
in both branches; `Overflow` is the batch that meets its end. Rows are named by
`created_at`, and may be committed in any order. `AtLeastOnce` says what the
outbox promises, in three actions; `ImplementsAtLeastOnce` is the refinement
under `recorded <- rows`, `sent <- Sent`, `settled <- published`. It is about
safety: that settling happens at all is `EventuallyPublished`, checked directly
because of its exception, a row that has failed as often as the smallint counts.

### Webhooks

The consumer of what AtLeastOnce promises: `Published(x)` puts the copies of an
event on the stream. `unread` and `acked` are the consumer group, `delivery` the
rows of `webhook_deliveries`, `hour` those the quota counts. A tick is started by
a timer that does not wait for the last one, so ticks overlap; each reads the
stream (or, without Redis, polls the outbox), goes through the subscriptions of
an entry, and retries what is due; `call` is the deliver it is in. Restarts,
lost connections, tests by an administrator and changes of a subscription's
status take from one `budget`. Signature and the check of the target address are
one outcome of the request.

`QuotaOverrunBounded`: by one delivery for each further tick and test.
`SuccessesBounded`: a subscriber is told again only by ticks that were already
delivering. `DeliveredOrAccounted` (liveness): an active subscription is told of
an event or given up after the last attempt; the exceptions are named and are all
there are (switched off, dropped over the quota, stranded by a fault).

### FieldSync

The browser (`queue`, `readable`, `device`, and per running `runSync` the phase
and what it holds in memory) and the server (`stored`, `status` of devices per
tenant) in one module, because the questions are between them. Two syncs may run
at once: `connectivity.ts` starts one when the browser is online again, whether
or not the officer has started one. Every await is a step. `Disturbance`
bounds what goes wrong: failing requests, reloads, wipes, changes of user.

A device id that is in use nowhere is drawn again for a new browser identity,
and its rows are forgotten: ids are random in the code, and with two ids, two
syncs can each have one, which is as many as are ever alive at once. The
SELECTs of a batch are taken at one moment, before its INSERTs; the conflict
with another batch, found by the unique index on `(tenant_id, client_uuid)`,
rolls back the whole transaction. The race of two first captures for the key of
the session is left out.

`SyncedIsStored`, `WipedStaysWiped`, `UploadedUnlessBlocked` (liveness, with the
two conditions that block it named); one row per `client_uuid` is in its type.

### PayrollRun

`run` and `records` are committed rows, `pay` and `erased` the employees, who
change between any two statements. A calculation reads the status
(`ReadStatus`), updates by id (`MarkComputing`, which locks the row until the
end), lists, deletes, inserts and commits. Pay is the number of the contract: the
properties need only tell newer from older and sums from other sums. The
creation of a run is one step; its check of exchange rates, in a transaction
before, is left out. What the catch block of `calculate` writes is rolled back by
the exception it throws on, so it is part of `Rollback`, and no committed run is
ever `failed` (in `TypeOK`).

`TotalsMatchRecords`, `ReviewedFiguresStand`, `FiguresNeverGoBack`; and
`ApprovedIsFinal`, which fails.

### Field work and browser (MCFrontOffice)

Nine modules that share no state the code keeps consistent across them. One
module composes them for TLC: `part` names the one that runs, the others stay as
they began; a behaviour is a behaviour of one of them. MCFrontOffice EXTENDS
PaperBatch and Views, whose definitions it names directly, and INSTANCEs the
rest. What the instances assume of their constants it states itself, as named
assumptions, so that TLC evaluates them and the proofs may cite them.

- **PaperBatch** (field-data-service, `paper/batches`): `OpenBatch`, `BeginAdd`
  .. `CommitAdd`, `BeginCommit`, `ListRows`, `SubmitRow`, `CommitBatch`. Nothing
  locks the batch. `SubmissionsBounded`: a form becomes as many submissions as
  commits had it on their lists when the first committed. `NoRowLeftBehind`: a
  committed batch has turned every row into a submission, except those another
  request committed after the list was taken.
- **FormManifest** (publish, `sync/manifest`, `pullAssignedForms`, `sync_meta`):
  `published_at` is the start of the publishing transaction, the cursor the clock
  after the manifest was read. `NothingMissed`: what the browser has not got, its
  next manifest names, but for a publication that overlapped a manifest and a
  wipe between the steps of another tab.
- **Registry** (registration with the key of the tenant, number, duplicate
  search; review): `InsertKey`, `DrawNumber`, `InsertRecord`, `ScoreCandidates`,
  `CommitRegistration`, `Resolve`, and `NewYear`, which changes the numbers.
  `DuplicatesFlagged`: two concurrent registrations that do not see each other
  draw one number, so one of them fails. This keeps duplicates from passing until
  New Year's Eve: a commit of a number that is not the next one (`skewed`) puts
  the count ahead of what is taken, and those who register meanwhile draw
  different numbers. It ends when none is under way: the exception was first
  stated for the registrations across New Year only, which is too narrow, as
  the attempt to prove it and four numbers of a year instead of three showed.
  `LostKeysBounded`: at most one record for each clerk who met the first
  registration of the tenant is unreadable.
- **KAnonymity** (`suppressAggregate`): every table of two rows and three columns
  with counts to 4, threshold 3. `NotDerivable`: no small count follows from what
  is published: with any other small count in its place the same is published.
- **SignIn** (auth-service): `pendingOidc` with the time of creation; callbacks
  overlap, everything after `TakeState` is awaited, tenant and user are closed
  meanwhile. `OneSessionPerState`.
- **Session** (stores of authentication and configuration with their copies in
  localStorage, router guard, late answers, a second tab): `SessionAgrees`: the
  page is one the session may open, the navigation offers nothing the guard
  refuses, and the configuration is of the session's tenant unless an answer to
  an earlier session came late.
- **DataTable** (with Pagination): `TableShows`: the pages together show what
  the filter leaves, each row once; ticked is what was ticked. Rows and sizes
  may be changed by the view at any time.
- **Views**: each of fifteen views is a table of the handlers behind its buttons
  (`Handlers`): the requests it makes in order, what disables it, what it does
  with busy, error and selection. The server is a number per subject, a pane
  shows the number it was read at. `ViewsAgree`: when nothing is under way and no
  error is shown, what is shown is what is selected, and no older than the last
  acknowledged change, with the races that break it named; a click changes the
  server once, but in the two views without `busy`.
- **Shell** (drawer, palette, confirmation, focus, on a narrow screen): all
  listen to the keys of the document, and a navigation focuses its heading in a
  later frame. `ShellAgrees`: the keyboard is in the overlay on top unless the
  user has tabbed out of it or a navigation has moved it; it is nowhere only where the
  code leaves nothing to return it to; the palette marks one of the items it shows.

### Back office (MCBackOffice)

Sixteen modules composed in the same way; MCBackOffice EXTENDS Leave and
INSTANCEs the others.

- **Leave**: balances are two sums beside the rows that explain them.
  `LedgerAgrees`: a day for each approved request, a day for each accrual line,
  whatever overlaps or breaks off.
- **Onboarding**: `ChecklistConcluded`: a checklist is concluded when no task is
  pending and then the employee is active, but for two named races.
- **Learning**: `CertificateStands`: an enrolment with a certificate stays
  completed, except where a progress had read it before.
- **Expenses**: `JournalAgrees`: what the journal debits is what was approved, one
  entry each, by somebody else, and no two entries with one number.
- **Erasure**: `ExecutedOnce`: executed means erased (for employees) and logged
  once for each execution under way when the first committed.
- **AiInsights**: `BudgetBounded`: the month exceeds the budget by one call for
  each request under way; what the model has taken is charged, under way or lost
  with a refused text.
- **ReportQueue**: `QueueBounded`, `PassedOverBounded` (a bounded form of
  fairness between tenants), `ReportsWhole` (artefacts and files).
- **Notifications**: `MessagesBounded`: one message for each request that looked
  before the first delivery was committed, and one for each that broke off.
- **Files**: `FilesThere`: a row that can be downloaded has its file, unless its
  deletion was rolled back.
- **Gateway**: `RateBounded`: in any minute no more than twice the quota, and
  once more for each restart.
- **Payslip**: `PayslipAgrees`: marginal and cumulative computation agree with
  the definition of the bands to half a cent, net and deductions add up to the
  gross. Amounts are cents (the engine uses BigInt: nothing overflows).
- **Workforce**: `WorkforceAgrees`: a person has at most one active contract,
  and who had one terminated for another has that one, through the unique index
  that refuses the second; the rates of the last date are those of one refresh,
  through the locks of the rows it has written.
- **PayslipExport**: `PayslipsWhole`: a completed job has a payslip of everybody
  in each format; lines are missing only from the export of a run that has been
  calculated anew since, and then from the end.
- **Vulnerability**: `RankingFair`: whoever is worse off in every answer is
  ranked no lower.
- **Tenancy**: `TenancyAgrees`: a tenant that was said to be created has its
  quotas; under the role of the services none is; packages with an erased name
  are bounded by the requests under way.
- **Seeding**: `Installed`: migrations take effect once each and in the order of
  their numbers, the blocks of the seed are written whole or not at all, and a seed
  that came to its end has left every row, however often either was cut off.

## The runs

| Run | Module, config | Specification | Distinct states | Shows |
|---|---|---|---|---|
| `audit_chain` | MCAuditChain | FairSpec | 17,672 | three transactions, two tenants, two rows, three events: every chain verifies, nobody waits in a cycle, everybody gets through |
| `audit_spelling` | MCAuditChain, MCAuditChainSpelling.cfg | FairSpec | violated | `ChainVerifies` when a column gives a content back in another spelling |
| `grant_finance` | MCGrantFinance | Spec | 782,371 | two overlapping requests, three disbursements, budgets up to version 3 |
| `grant_double_approval` | MCGrantFinance, MCGrantApproval.cfg | Spec | violated | `ApprovedOnce` |
| `outbox_relay` | OutboxRelay | FairSpec | 311,861 | two replicas, three events, two failures, two crashes: bounded duplicates, publication in the end, the refinement |
| `field_sync` | MCFieldSync | Spec | 2,250,921 | safety: two syncs, two submissions, two devices, two tenants, any two disturbances |
| `field_upload` | MCFieldSync, MCFieldUpload.cfg | FairSpec | 285,120 | liveness, with a batch limit that the queue can exceed |
| `payroll` | MCPayrollRun | Spec | 159,402 | two overlapping requests, two employees with up to two contracts each |
| `payroll_final` | MCPayrollRun, MCPayrollFinal.cfg | Spec | violated | `ApprovedIsFinal` |
| `webhooks` | Webhooks | FairSpec | 434,237 | two ticks, an event published up to twice, two attempts, one disturbance; with Redis and without |
| `front_office` | MCFrontOffice | Spec | 1,885,558 | the nine parts of field work and of the browser |
| `back_office` | MCBackOffice | Spec | 1,043,127 | the sixteen parts of the back office |

### Bounds, and why they are enough

- Two overlapping requests show every race of a pair; three are there where a
  third matters (AuditChain: a holder and two waiters; Onboarding: two tasks and
  a restart; Learning: progress, attempt and another attempt). The proofs remove
  the bound where there is one.
- AuditChain, `MaxEvents` 3: a first event, a middle one and a last.
- GrantFinance, `MaxVersion` 3: two revisions race, and a third follows. One
  grant, because handlers of different ones share no row. Amounts of 2 against
  totals of 2 and 3: one disbursement fits, two never do.
- OutboxRelay: three events in batches of two leave something for the second
  replica; `SmallintMax` 2 stands for 32767 and is reached with two failures;
  `MaxCopies` 5 is what one event can come to (once, and again for each failure
  and crash), so counting stops nowhere below that.
- FieldSync: `BatchLimit` stands for 100: 2 in `field_sync`, where the queue
  always fits, 1 in `field_upload`, where it may not. Two disturbances of any
  kind. `field_upload` has one tenant and no wipes: a wiped submission and one
  rejected under another user are exceptions of the property anyway.
- Webhooks: a quota of two is exceeded by two ticks and a copy; `MaxRows` 3 rows
  of one attempt tell a double retry from a triple one; one disturbance, because
  each exception of `DeliveredOrAccounted` needs one.
- Registry: two applicants who sound alike, three numbers of a year; the limit
  of 200 candidates is 2, so that a part of the register can be compared. The
  theorem has any number of each, and any clerks.
- FormManifest: three ticks of the clock order a publication and two syncs in
  every way. SignIn: a state lives for two minutes of four.
- Session: one tab in full and another that only writes localStorage; two
  tokens, of two tenants. Views: three clicks in three slots, so that a load, a
  change and a change of selection overlap. DataTable: three rows in pages of
  one or two, two of them alike in the sorted column and one without a value. Shell: two pages in
  two groups, queries that leave all, one or none; no bound on time, its states are
  finite.
- Gateway: a minute of three slots and six slots of time cover a window, the
  next one and a minute across both. Payslip: incomes at, below and above each
  bound of three tables of bands, with days at both ends of a month.
- ReportQueue: two tenants, two workers, three claims: one of each tenant and one
  that passes over. Seeding: two runs of migrate.ts over three files of which one comes
  with a new release, two runs of seed.ts.

Symmetry is used in `field_sync`, `grant_finance` and `payroll`, which check no
liveness, over sets that no operator tells apart. Users are not among them where
CHOOSE picks one for an idle session. Deadlock is checked in every run but
`front_office` and `back_office`: the requests of their parts are bounded, and
once they are made and answered the part stops (a migration that has run, a
table for a donor that was published). In the other modules `Quiet` (or `Poll`)
is the step of a system in which nothing is open, so that a state without
successor would be a real deadlock.

### Fairness, and why the code justifies it

- AuditChain: strong fairness of the two statements that wait for a lock, since
  PostgreSQL queues waiters; weak fairness of the statements that do not wait.
  `Begin` is not fair: nobody need send a request.
- OutboxRelay: weak fairness of `Drain(r)`: the loop goes on after every error
  and the poll repeats. Failures and crashes are not fair and are bounded, which
  is "when Redis is back"; producers are not fair.
- FieldSync: weak fairness of `RunSync(c)`: the officer syncs again, and a sync
  that is not failed by a request goes on. Failures, reloads and captures are not
  fair.
- Webhooks: weak fairness of `Tick(w)`: the timer fires every second and a tick
  that is not cut off ends, since its POST is given up after ten seconds. Faults,
  restarts, the passing of an hour and what an administrator does are not fair.
- The other modules promise nothing in time, and assume none.

## What is proved

Eight modules of proofs: one for each of the six components with a run of its
own, and one for the parts of each office. Each component and each part has an
inductive invariant (`IInv`, in AuditChainProofs `CoreInv` and `HashInv`, in the
offices `PaperInv`, `LeaveInv` and so on) that was model-checked before it was
proved; `Init` implies it, every action keeps it, and the safety properties
follow from it. The assumptions are those of the modules: non-empty sets,
distinct null values, bounds that are natural numbers, finite sets where their
number is part of a bound. TLC evaluates each of them in a run.

Every safety invariant and action property of the passing runs is a theorem for
every value of the constants; so is the refinement.

- **AuditChainProofs.** Between taking the advisory lock and ending, a writer is
  alone in its tenant (`LockInv`), so the tip it has read is the tip when its
  row is committed (`DraftInv`), so chains are 1..n (`ChainInv`) and linked
  (`LinkInv`). Theorems `ChainsAreGapFree`, `NoCollision`,
  `CommittedEventsStay`; `NoDeadlock` from the order of the locks (`RowInv`).
  `EveryChainVerifies` needs one assumption more, `Canonical`: the columns give
  back what was passed. Run `audit_spelling` shows that it cannot be dropped,
  and that the code does not establish it.
- **GrantFinanceProofs.** The session that holds a row knows it: row locks
  (`RowLockInv`, `BudgetLockInv`), the shape of a budget (`BudgetInv`) and what
  open requests know (`RevisionInv`, `RequestInv`). Theorems
  `OneCurrentBudgetAlways`, `NoRegress`, `EventsAlwaysMatch`. For
  `BoundedOverrunAlways` the sum over the disbursements must be known to change
  by the one that changes. The sum takes its elements in an order that CHOOSE
  fixes, and that it is the same in every order is shown by a smallest set for
  which it is not (`MinimalSet`, `Unrolled`, `SumIs`): induction over finite sets
  without the theorem that states it. `OverrunInv`: a request that inserts has
  found room among the committed rows, so what exceeds some budget of the grant
  comes from the others that have inserted; rows never shrink and budgets are
  never deleted, so that stays true when it has ended.
- **OutboxRelayProofs.** `Work(r)` says what a relay has in hand. That
  `publish_attempts` stays a smallint needs that no two relays hold one row, so
  types and batches are proved together. Theorems `NothingIsLost`,
  `NoSharedRows`, `NoResend` and `Refinement`: every step of the relay is a step
  of AtLeastOnce or none. `DuplicatesBoundedAlways`: a copy is
  accounted for while the relay that added it may still commit, and for good
  once it has; the other copies (`Waste`) are what faults and crashes made so.
- **FieldSyncProofs.** `Answers(c, i)` says what an answer promises while it is on
  its way: a submission answered with accepted or replay is stored, and stays so.
  Theorems `NothingSyncedIsLost`, `WipeIsFinal`, and `TypeCorrectness` with one
  row per submission.
- **PayrollRunProofs.** From its first UPDATE to its end a calculation holds the
  row of the run (`Holds`), so what it has listed is no older than the records
  (`Fresh`) and what it has deleted is all there was (`Cleared`). Theorems
  `TotalsAlwaysMatch`, `ReviewStands`, `NoStaleFigures`.
- **WebhooksProofs.** What is missing from the quota is bounded by the ticks that
  have passed its check, what was delivered by the ticks that were delivering:
  both are cardinalities of sets of ticks, which an action changes by one tick.
  Theorems `QuotaOverrun`, `SuccessesBoundedAlways`.
- **FrontOfficeProofs**, part by part:
  - Paper batches (`PaperInv`): what was made of a row, and the commits that still
    have it on their lists, are no more than were counted for it (`Counted`), and
    a row with a submission is on no new list. Theorems
    `SubmissionsBoundedAlways`, `NoRowLeftBehindAlways`.
  - Forms (`FormInv`): what is published up to a cursor that is kept, sent or drawn is
    in the store or on its way there, unless it is known to be missed
    (`Accounted`); a publication that no manifest overlaps is later than all of
    these cursors. Theorem `NothingMissedAlways`.
  - Register (`RegInv`): until New Year's Eve the numbers taken are the first ones
    (`Dense`), and at any time whoever holds the next number has been compared
    with all that is registered (`Compared`), so of two transactions that do not
    see each other one does not commit or is noted as skewed. Theorems
    `DuplicatesFlaggedAlways`, `LostKeysBoundedAlways`.
  - Tables for donors: what is hidden depends only on which counts are small, so
    another small count in the place of one hides the same cells, and nothing
    that is published is added up from a count that is hidden. Theorem
    `NotDerivableAlways`, for any number of rows and columns.
  - Sign-in and session (`SignInv`, `SessInv`): a state is open or was taken by
    one callback; the guard decides with the token in use, and a token
    and a configuration change together or the tab is noted. Shell
    (`ShellInv`): the dialog is open on its page only, with the button that gets
    the focus back, and a palette opened over it returns the focus into it. Together
    theorem `SessionsAgreeAlways`.
  - Tables (`TableInv`): the place of a row is how many come before it, the order
    is strict, so places are 1..n, and pages are stretches that cover them.
    Theorem `TableShowsAlways`, for any finite set of rows and any page sizes.
  - Views (`ViewInv`): what is shown is as it should be, or a request is under way
    that will make it so, or a handler has such a request before it (`Covered`,
    `Settled`), unless an error is shown or a race was noted. It rests on the
    tables of the fifteen views: what a handler changes it reads again. Theorem `ViewsAgreeAlways`.
- **BackOfficeProofs**, part by part:
  - Leave (`LeaveInv`): a sum is written when its transaction commits; until then
    the leave request it has updated is pending and nobody else's, and the month
    it accrues has no run and no other transaction, so each commit adds one row
    and one day. Theorem `LedgerAgreesAlways`.
  - Onboarding (`OnboardInv`) and learning (`LearnInv`, `LearnTyped`): a task that
    is being completed is open and nobody else's, and whoever has counted none
    completes the last one; a certificate is issued with the completion, which
    only a progress that had read it as assigned undoes. Theorem
    `CompletionStandsAlways`.
  - Expenses (`BookInv`) and erasure (`EraseInv`): until it commits, an
    approval is the only one of its expense, and the only one with its number
    once that is in the journal; no execution of a request begins after one has
    committed. Theorem `DecisionsBookedAlways`.
  - Report queue (`QueueInv`), insights (`InsightsInv`), gateway (`GateInv`): who
    has compared with the quota and not yet used it is counted with what is
    used; a job is locked by one claim, and a claim that was under way while a
    tenant waited is behind that tenant once it is over. Of the windows that a
    minute overlaps, one may have begun before it, and every other was begun in
    it: by a restart, but for the last. Theorem
    `QuotasBoundedAlways`.
  - Payslip exports (`ExportInv`), notifications (`NoticesInv`), files
    (`FilesInv`): lines are missing only once the run has been calculated anew;
    while a message has no delivery, whoever has sent it is under way or broke
    off, and nobody begins to send it after that; no two requests are about one
    object. Theorem
    `EffectsAccountedAlways`.
  - Contracts and rates (`WorkInv`): an insert that is not committed is the only
    active one of its employee and has terminated what was active, by the unique
    index; all pairs have the rates of the same refreshes, by the row locks.
    Theorem `WorkforceAgreesAlways`.
  - Tenants (`TenancyInv`), migrations and seed (`MigrateInv`, `SeedInv`): a run
    of the migrations is never ahead of what has been applied, and a run of the
    seed has committed every block before the one it is at.
    Theorem `TenantsSetUpAlways`.
  - Payslips: a fold over a list is a recursive function on the parts of its
    domain, and what it comes to after each element (`SumSteps`, `TaxSteps`) is
    shown by climbing a set of numbers (`Climb`), that is by induction without the
    theorem that states it. Band by band the tax is off by half a cent at most,
    the bands of a table (`Table`) leave no gap, and a cumulative table has above
    the lower bound of a band just the tax of what exceeds it. `AnyPayslip` says
    so of any amounts, days, rates and tables. Scores: the points for an answer
    without the choice of a bound (`DependencyIs`, `IncomeIs`, `FoodIs`);
    `WorseNoLower` says of any two households that the worse off has no fewer
    points. Together theorem `FiguresAgreeAlways`.

In all modules the types are theorems for every value of the constants too
(`TypeCorrectness`; in the offices the conjunction of the parts, with the bounds
of their counters).

What remains fixed in the theorems of the offices is what the code fixes: the
handlers of the fifteen views, the pages and what they ask for, the blocks of
the seed. Fixed by the model are two tenants and four jobs in ReportQueue, two
tokens in Session, and in `FiguresAgreeAlways` the inputs and the households of
MCBackOffice; `AnyPayslip` and `WorseNoLower` are about any.

Only model-checked: the liveness properties (`RequestsFinish`,
`EventuallyPublished`, `UploadedUnlessBlocked`, `DeliveredOrAccounted`), since
ENABLED and fairness are beyond the prover. The claims that fail have counterexamples, not
theorems.

## Where the code and what is said of it part

Shown by a run: a tenant's chain that does not verify after a request with an id
in upper case (`audit_spelling`); a disbursement approved twice
(`grant_double_approval`); an approved payroll run that is computed again
(`payroll_final`).

Stated by the exceptions of the properties that pass, among others: a ceiling
exceeded by requests that overlap (`BoundedOverrun`); an outbox row that stops
the batch for good after 32767 failures (`EventuallyPublished`); submissions lost
to a reload, and those after them blocked (`UploadedUnlessBlocked`); webhook
events dropped over the quota or stranded by a restart (`DeliveredOrAccounted`);
forms that no manifest names (`NothingMissed`); a checklist that nobody
concludes (`CompletionStands`); a key that no table keeps (`LostKeysBounded`);
duplicates not flagged among registrations that overlap from New Year's Eve on
(`DuplicatesFlagged`); messages sent twice (`EffectsAccounted`); a configuration of another session
(`SessionsAgree`); a table that shows an empty page (`TableShows`); panes that
show what is no longer selected (`ViewsAgree`).

Found while modelling, without a state to show them: among others the status
`failed` of a payroll run, of an export and of a report whose SQL failed is
always rolled back; a failing check for a wipe counts as no wipe; bands seeded
without their fixed amounts; a retry of a webhook with an empty payload; a status of
31 characters for a column of 20; quotas that the role of the services may not
insert. `PROJECT.json` has each with the lines of both sides.

## What is not modelled, and why

- Row level security and permissions are taken to do their work: a handler sees
  its tenant's rows. Where a statement runs without the setting that the policy
  asks for, Tenancy says what is refused.
- Cryptography and redaction are what they promise, or one outcome of a request.
- The payload of events, forms and reports; formatting, validation schemas and
  logging; reads that change nothing, and so analytics, the exporters and the
  statutory reports.
- Handlers that are one INSERT or one UPDATE by id with nothing beside it:
  departments, households, templates, preferences, the creation of forms and
  assignments, the import of accounts.
- The permission tables, the HTTP frame and the error classes: nothing in them
  changes over time. What the router asks for of a token is in Session.
- In the browser: layout, charts, toasts, tabs and accordions, themes, locales,
  the design system. Modal.vue and Drawer.vue have the form of the dialog in
  Shell.
- The log sink of the relay, which publishes nowhere; the test drivers in
  `scripts` and the typesetting of the design documents, which are not part of
  the running system.

## Running

    tlc -config MCAuditChain.cfg MCAuditChain      # and so on, as in the table
    tlc -config OutboxRelay.cfg OutboxRelay        # needs no MC module
    tlc -config Webhooks.cfg Webhooks
    tlapm AuditChainProofs.tla                     # each module of proofs; those of
                                                   # the offices take some minutes
