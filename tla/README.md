# A verification model of aimgbox

aimgbox sells image jobs to partners: a partner's server submits a job for one of its
users, a worker runs it through external AI providers, credits pay for it, and a webhook
tells the partner the outcome. This directory holds TLA+ models of the parts where
processes, transactions and failures interleave, TLC configurations that check them on
small instances, and proofs that TLAPS checks for every value of the constants.
Paths below are relative to the repository (`src/` here).

## 1. The system

| Component | State | Operations | Hard behaviour | Modules |
|---|---|---|---|---|
| Credit ledger (`services/billing.py`, `db/repos/users.py`, `db/repos/credit_transactions.py`, `api/routes/billing.py`, `admin/routes/users.py`) | `users.free_credits`, `users.paid_credits`; the journal `credit_transactions` | get or create a user, reserve, refund, top up, adjust | transactions at READ COMMITTED that read a row, compute, then update it; repeated refunds and top-ups | CreditLedger, CreditAccounts |
| Reconciliation (`scripts/reconcile.py`) | writes `users` from the journal | `reconcile-balances` | stale reads, writes outside a transaction, "newest" by `created_at` | Reconciliation |
| Job submission (`api/routes/jobs.py`, `services/rate_limit.py`) | keys and windows in Redis, the unique index on the key | create a job | check, then act; retries before the key is written or after it expired | RateWindow, JobSubmission, IdempotentSubmission |
| Job lifecycle and worker (`worker/main.py`, `db/repos/jobs.py`) | `jobs.status`, the Redis list `aimg:jobs:queue`, the asyncio tasks of each worker | submit, enqueue, pop, process, fail, janitor, start-up recovery, stop | crash between pop and status; several deliveries of a job; janitors against handlers | JobLifecycle, JobStateMachine, PaidJobs |
| Provider chain and attempts (`jobs/context.py`, `jobs/handlers/*`, `db/repos/job_attempts.py`, `db/repos/job_types.py`) | the adapters and attempts of a running job, rows of `job_attempts` | call the providers in order | the chain is edited meanwhile; what is recorded, and when | Catalog, JobExecution, JobOutcome |
| Provider adapters (`providers/*`) | none | HTTP calls with polling | fail in two ways the handler tells apart | JobExecution |
| Files (`api/routes/files.py`, `worker/main.py`) | S3 objects, `files` | upload, download, outputs | object first, row second; two uploads of one name | FileStore, JobOutcome |
| Webhook delivery (`services/webhooks.py`, `db/repos/webhook_deliveries.py`) | `webhook_deliveries` | first attempt, retry loop in every worker | attempts of several processes on one row; the retry budget | WebhookDelivery, JobOutcome |
| API keys and integrations (`services/auth.py`, `api/dependencies.py`, `admin/routes/api_keys.py`, `admin/routes/integrations.py`) | `api_keys`, `integrations.status`, the Redis set of revoked keys | generate, revoke, suspend, authenticate | a cache in front of the row; changes while a request is being checked | ApiKeys, AccessControl |
| Admin sessions (`admin/auth.py`, `admin/decorators.py`, `admin/audit.py`) | sessions in Redis with a copy of the role, `audit_log` | log in, log out, check a role, write the log | a session that ends during a request; the log comes after the change | AdminSessions, AccessControl |
| History (`api/routes/users.py`, `common/pagination.py`) | none | keyset pages | rows are inserted between pages, and become visible out of order | History |
| Schema and seed (`alembic/versions`, `scripts/seed.py`) | providers, links, constraints | migrate, seed | the script commits statement by statement and may be run again | Catalog |
| Admin pages, registry, schema sync, API shell | rows written one at a time | forms, lists, exports | see section 6 | |

How they meet. `create_job` looks its key up in Redis, asks the rate window, and inserts the
job and its charge in one transaction of the ledger; then it writes the key and pushes the
job's id. A worker pops ids, makes an asyncio task of each and lets
`AIMG_WORKER_CONCURRENCY` of them into `process_job`, which reads the provider chain an
admin may be editing, builds adapters, reads the input object, and lets the handler call
the adapters one after the other. A job ends with `succeeded`, or through `_fail_job`, which
refunds and sets `failed` in one transaction. The janitor of every worker calls `_fail_job`
for jobs that run too long, and the pass at the start of a worker pushes old pending jobs
again. After most outcomes a delivery row is inserted and its first attempt made; the retry
loop of every worker attempts it again. Every request of a partner passes
`get_current_integration`, whose rows the admin panel changes.

What makes each correct: balances never go below zero and always equal the journal; a job
exists exactly if it has been charged in full; a failed job has its credits back, in the
kinds they were charged in, and once; one key makes one job; a job that was accepted is not
forgotten; it walks `pending → running → succeeded | failed` once; what its row says of
output and attempts is so; the partner hears its final status, and a delivery ends; a key
that was revoked opens nothing; a change reaches the audit log. `PROJECT.json` lists the
components and, under `hazards`, the lines where these can go wrong and the properties
that watch each.

## 2. The modules

A step lies between two awaits another process can see, or two statements another
transaction can see. Variables whose comment says *history* are not in the code: they
remember what a property asks about, and no guard but those of their own updates reads them.

### CreditLedger

`balance` is the pair of columns of `users`; `known` are the users that have a row and
`granted` is what `get_or_create` inserted (it writes no journal row). The journal is kept
as the answers the code asks of it: `posted` (sum of amounts per user and kind),
`charged` and `refunded` (per job), `credited` (rows per external transaction id) and
`latest` (newest row by `created_at`). `tx` is the transaction each session has open.

Each transaction is a begin (which fixes `now()`, and with it `created_at`), its reads of
committed rows, and its first UPDATE of `users`. PostgreSQL holds that row lock until
COMMIT and nothing after the UPDATE can block, so UPDATE to COMMIT is one action. The
window that matters is inside a reservation: `ReadUser` takes the balance, `Charge` runs
the UPDATE with a split of the balance *as read* against the row *as committed by then*.
`LoseRace` is the UPDATE that matches no row, `RefuseReserve` the `ValueError` of
`calculate_credit_split`, `Abort` a lost connection. `BeginRefund` may run for any created
job at any time and again: `_fail_job` looks at the job's charges only, so the ledger's
properties do not lean on who calls it. The early check of the balance in `create_job` is
left out: it only refuses more, by an older row.

### Reconciliation

Extends CreditLedger with the script: `ReadUsers` (`list_all`), `ReadJournal`
(`get_latest_balances` and the comparison), one `Rewrite` per user that differs
(`force_set_credits`, autocommit), `Interrupt`. `script` is what it has read and has still
to write; `rewritten` and `crowded` are history: whom it wrote, and whose transactions
overlapped each other or the script.

### CreditAccounts

The promise of the ledger: open an account, charge, refund, top up, adjust and correct, each
at once on the balance and the journal, and never below zero. It leaves open which kinds a
charge takes and what the script believes. `Reconciliation!OperationsAreAtomic` is the
refinement (`opened <- known`, `corrected <- rewritten`); what sessions have begun, read and
wait for is not seen.

### RateWindow, JobSubmission, IdempotentSubmission, History

`RateWindow` is `check_rate_limit`: `clock` is `time.time()`, `window` the members of the
sorted set, `gate` where a call is between its two pipelines. `Enter` reads the time, `Admit`
or `Refuse` is the first pipeline (drop and count), `Add` the second (`zadd`). Two callers
never read the same time: with equal members Redis would count two calls as one.

`JobSubmission` is `create_job` for one user, step by step: `Recognise` or `Miss` (the key in
Redis), `Admit`/`RateLimited`, `Reject` (anything refused before the transaction), `Begin`,
`Commit` or `Collide` (the unique index), `SaveKey`, `Push`, `Answer`. `jobs` are the
committed rows, `cached` the keys in Redis, `queue` what was pushed, `request` where a
request is. `Die` may come between any two steps, `Expire` is the TTL of a key.

`IdempotentSubmission` is the promise of the header: a key makes one job and every answer
names it. `JobSubmission!OncePerKey` is the refinement.

`History` adds a client that turns pages over the rows that requests insert: `Beyond` is the
WHERE clause, `Page` the ORDER BY with its LIMIT (the rows with less than a page of `Newer`
ones), `Oldest` the row a cursor names. `reader` holds the cursor (`next`) and, as history,
what was `seen`, what was seen `twice` and what was `due`: the rows there were when the first
page was read. A row's `at` is the `now()` of its transaction, so rows become visible in
another order than `created_at`.

### ApiKeys, AdminSessions, AccessControl

`ApiKeys` is `get_current_integration` on the rows `key` and `active` and the Redis set
`revokedKeys`; `call` is where a request is. It shows the set as the code uses it: asked for
the claim `key_id`, which `generate_key` fills with the *integration's* id, and filled with
hashes by `revoke_key` and with row ids by the dependency, so it never has what it is asked for.

`AdminSessions` is the middleware, `require_role` and the order of change, whatever follows
it, and `log_action`: `session` is the Redis entry, `tab` a request, `done` (history) the
changes made, `audit` the log. `Change` and `Extra` are conjoined with a component's step.
A handler that looks for its row ends without an entry if it is not there (`Decline`); one
of those that do not look (`Blind`) goes on to the log having changed nothing
(`ChangeNothing`).

`AccessControl` composes the two: panel requests generate, revoke and suspend while
partners' requests are being checked.

### Catalog, FileStore, JobExecution, JobOutcome

`Catalog` is one job type's rows of `job_type_providers` (`link`), why a provider is passed
over (`broken`: not active, unknown adapter, a key that cannot be decrypted), the edits of
the admin panel and the seed script (`seed`), which commits statement by statement.

`FileStore` is the bucket (`object`), the rows (`file`) and the uploads under way. Paths are
the code's: `{integration}/uploads/{filename}` and `{integration}/{job}/output/…`.

`JobExecution` is one run of `process_job` and of the loop all handlers share: take the job
and the chain, build adapters, set `running`, fetch the input, call adapter after adapter,
then either write the noted attempts and fail, or store, file, attempt and complete.
`exec` is where a task or a janitor is; `tried` are the rows of `job_attempts`; `input`,
`status` and `error` columns of the job; `plan` (history) the adapters a task started it with.
Nothing keeps a second task from a job: `Take` reads `pending`, `StartRunning` writes
`running` unconditionally, as the code does, so any number of tasks that start-up recovery
brings together run one job side by side. Rows of `job_attempts` do not say which task wrote
them; `tried` keeps them apart, as history. The output of all of them is one object key and,
in the model, one content: whose image the object holds in the end is not told apart.

`JobOutcome` composes the three with the pops that start a task (`Deliver`), with faults
(`Perish`: an exception that leaves `process_job`, or the death of its worker; `LoseUpload`,
`LoseSeed`), with edits and runs of the seed script, and with `fire_webhook_if_configured` up
to its INSERT (`Report`, `announced`). How much of each may happen is a budget (`left`).

### WebhookDelivery

`delivery` is a row: status, `attempts`, and whether `next_retry_at` is null, in the future
or due. `Insert` is the task that creates and attempts it; a loop reads a `batch` of due rows
(`ScanDue`) and comes to them one by one (`TakeUp`). An attempt is `GiveUp` or `Post` and then
`Record`, an UPDATE by the row *as read*. `url` and `secret` are the integration's; once set
they stay (section 4). `sent`, `heard` and `unsigned` are history.

### JobLifecycle, JobStateMachine

`status` and `refunds` are what the database holds of a job (`refunds` counts committed
`_fail_job` transactions), `request` how far `create_job` is, `queue` the Redis list (LPUSH
at the head, BRPOP at the tail). A worker is `down`, `starting` (its start-up pass pushes
the rows it has read, `todo`), `up` or `draining`; its tasks are in `task`: `waiting` for
the semaphore, `accepted` (the job was read as pending), `executing`, `notifying`. Its
janitor holds the rows it still has to fail (`stuck`) and the job it has failed and not yet
told of (`telling`). `sent` are the deliveries that have been inserted.

So `Accept` (reads `pending`) and `Run` (writes `running`, unconditionally) are two actions,
and so are the commit of an outcome and `Notify`, which reads the row again. Time is kept as
the two facts the recovery queries ask for: `aged` (created over 60 s ago) and `overdue`
(started over `timeout_seconds + 60` s ago). Nothing in the code interrupts a handler; the
constant `HandlersInTime` says whether handlers end before that deadline, and both values
are checked. Faults are explicit: `LoseRequest`, `LosePop`, `Crash`, `Die`, `JanitorError`.

`JobStateMachine` is the promise: one walk through the states, a refund with every failure
and with nothing else, and no word to the partner but the outcome; and for a job that is
*disputed* (it was pushed again, or its time is up) what is left of that: it may be written
again (`Rewrite`), but is never pending again and is refunded by failing only.
`JobLifecycle!FollowsTheStates` is the refinement (`told <- sent`, `disputed <- Disputed`).
The partner guide promises more events than this machine has: see section 4.

### PaidJobs

Composes JobLifecycle with CreditAccounts. `Settle` ties a step of the lifecycle to one of the
accounts: the step that commits a job is its `Charge` (`create_job` inserts the row and
reserves in one transaction), a step that commits `_fail_job` is its `Refund`, every other one
leaves the credits alone. `Elsewhere` is what else happens to a user: the request that
creates it, top-ups and adjustments. The script's corrections are left out: they touch no
job's charge. CreditLedger itself could take the place of CreditAccounts, but its reads and
waits would only multiply the states: LedgerIsAtomic (section 5) shows that they are not seen.

### MC modules

`MCCreditLedger` (which `MCReconciliation` extends for the ledger with the script),
`MCPaidJobs`, `MCJobLifecycle`, `MCSubmission`, `MCAccess`, `MCOutcome` and `MCWebhooks` give the constants
values and define symmetry sets.

## 3. The runs

| Run | Instance | Shows |
|---|---|---|
| `ledger` | 1 user, 2 jobs, 1 top-up id, 2 sessions, 4 transactions, the script at any time; 909 k states | ReconcileTypeOK, NonNegative, OthersStayExplained, RewritesFollowOverlaps, ChargedInFull, FailedAreRefunded, TopupCountsOnce, ChargedInOrderAlone (action property), OperationsAreAtomic (refinement) |
| `submission` | 2 requests at a time, 1 key, 3 ids, 1 job per 4 ticks, 6 ticks, pages of 1; 2.65 M states | TypeOK, RateBound, AnsweredRetryIsRecognised, RedisNamesCommitted, PagesComplete, OncePerKey (refinement) |
| `access` | 1 partner's request, 2 keys, 1 panel request, 1 session, 2 roles, 1 request per 2 ticks, 4 ticks, 1 lost entry; 4.04 M states | TypeOK, RefusedStayOut, SiblingsStayValid, LoggedOutIsOut, ChangesAreLogged |
| `outcome` | 1 job, 2 tasks, 1 janitor, replicate and mock, 2 uploads of one name by one or two integrations, priorities 0 and 1, 1 fault, 1 edit, and of pops and seed runs two together; 3.38 M states | TypeOK, RowsHaveObjects, FailuresAreComplete, SuccessHasOutput, SeedConverges |
| `webhooks` | 1 delivery, 1 task, 2 retry loops, 3 backoffs, 2 faults; 38 k states | TypeOK, GivenUpAfterBudget, DeliveredWasHeard, PendingIsScheduled, DeliveriesEnd (liveness) |
| `lifecycle` | PaidJobs: 1 job of 2 credits, 1 user with a free one and perhaps a paid one, 2 workers with a task each, handlers without a deadline, 3 starts, 2 faults; 1.43 M states | TypeOK, PendingIsSomewhere, RefundedOnce, ToldTheOutcome, PriceIsKept, OneWalk (action property), FollowsTheStates (refinement) |
| `lifecycle_live` | 1 job, 1 worker, 2 tasks, concurrency 1, handlers without a deadline, 3 starts, 2 faults; 19 k states | RunningEnds, PendingIsTaken, RecoveryTakesUp (liveness) |
| `ledger_free_first` | as `ledger`, without the script, 5 transactions | *violation:* paid credits are charged while free ones are left |
| `double_refund` | 1 job, 2 workers, 1 fault | *violation:* two janitors refund one job |
| `late_handler` | 1 job, 1 worker, no fault | *violation:* a refunded job becomes `succeeded` |
| `lost_delivery` | 1 job, 2 workers, 1 fault | *violation:* a crash loses what was popped while another worker stays up |
| `early_failure` | as `outcome`, with 1 task, a URL for webhooks, and no fault, edit or janitor | *violation:* a job that fails before its handler is called is not reported |

Why the bounds suffice. The proofs of section 5 lift every bound for the safety properties;
the instances are there to find mistakes fast and to reach the cases that matter.

* `ledger`: two sessions are what a race needs, and a third actor is the script. Four
  transactions allow a grant, a charge in both kinds, a refund between a read and an UPDATE,
  a repeated refund or top-up, and two that overlap under the script.
* `submission`: two callers are a request and its retry elsewhere; three ids let a key that
  expired meet the index and pages have a middle; a window of one job is exceeded by two that
  count together; six ticks let the window slide and `created_at` disagree with the order of commits.
* `access`: two keys are one that is revoked and its sibling; one session is used before and
  after it ends; one tab and one caller interleave at every step of both. What happens
  between two tabs does not go through shared state but `audit`, which the proof covers.
* `outcome`: the chain needs a first provider and a fallback, and an edit that reorders or
  breaks one; one fault, because what a second would add is a second step left undone. Two
  pops give two tasks that run the job side by side, one pop a task beside a run of the seed
  script, and none two runs of it, the first of which may die; two uploads of one name meet in
  one object or do not.
* `webhooks`: a task and two loops are three attempts on one row, the case where a slow one
  overwrites two others; two faults lose two of them. Backoffs is the code's.
* `lifecycle`: two workers with a task each give every pair the code can bring together on one
  job: two tasks (that they are of one worker or of two makes no difference to the row), a task
  and a janitor, two janitors. The semaphore keeps nobody waiting then; `lifecycle_live` has
  two tasks for one place. Three
  starts are a worker that crashes, restarts with its start-up pass, and a second one. Two
  faults allow a crash and an exception of a janitor that cleans up after it. A price of two
  credits is one the user can pay only in both kinds, after a top-up or an adjustment.

`MaxClock`, `Slots`, `MaxStarts`, `MaxFaults`, `Budgets`, `MaxLost` and `MaxCredits` are the bounds, and the
guards name them. Runs with safety properties only use symmetry; the liveness runs do not.
Deadlock is not checked: a system whose requests are served, or whose starts, clock or
transactions are used up, may rest.

### What some properties promise, and what they do not

* **RefundedOnce**, **ToldTheOutcome**, **PriceIsKept** and **OneWalk** speak of *undisputed* jobs: start-up recovery has not
  pushed them, and no janitor may judge them while a handler, or a second janitor, is at
  work. The violation runs show that both conditions are needed: `double_refund` is the
  second janitor and `late_handler` the handler. Recovery can give a job a second delivery,
  and two tasks of one job both pass the status check before either writes. What can be said
  of a disputed job is the second half of **FollowsTheStates**: it never becomes pending again,
  and every refund it gets goes with its being set to failed.
* **PendingIsSomewhere** assumes that no fault has struck; **RecoveryTakesUp** says what becomes of
  a job a fault has lost: the next start of a worker finds it, whether its request died
  before LPUSH or a worker died with it. It does not say that there is a next start.
* **FailuresAreComplete** and **SuccessHasOutput** speak of *a* task of the job. After a second
  delivery the code writes the attempts of every task: two successes, or failures next to a
  success, under one job, with the same `attempt_number`; there is no unique index.
* **ChangesAreLogged** does not say that every entry tells of a change: that of a handler that does
  not look need not (section 4).
* **ChargedInOrderAlone** is what remains of "free credits first" (section 4): it holds of a user
  whose transactions came one after the other and never during the script, and so does that
  nobody is refused for a lost race.
* **OperationsAreAtomic** holds although a reservation computes its split from a stale row: the
  guard of the UPDATE and the amounts journalled are enough for that. The `balance_after` that
  it writes is stale, and this promise does not mention it; that is RewritesFollowOverlaps.
* **RewritesFollowOverlaps**: the script is harmless in quiet times, and only then. A
  transaction that began earlier and committed later has the older `created_at`, and a
  reservation writes the `balance_after` of a row read before the UPDATE; the script takes
  either for the truth and makes a right balance wrong. **NonNegative** holds even so.
* **RateBound** is what two pipelines give: the limit, plus the calls that count at the same
  time. It is not the limit.
* **RowsHaveObjects** says that a row leads to an object of its own integration, not that it
  is the row's content: a second upload of one name replaces the first.
* **GivenUpAfterBudget** counts requests made, of which overlapping attempts may forget
  some: a row may be attempted more often than the budget, never less. The column `attempts`
  never counts more than the budget.

### Fairness

`JobLifecycle!FairSpec` assumes what asyncio and time give: a task that can take a step takes
it, a popped id becomes a task, time passes, the API request goes on. It does *not* assume
that a handler returns, that a worker is started or restarted (`docker-compose.yml` has no
restart policy) or that a fault happens. `RunningEnds` needs a worker that stays up and
nothing of the handlers; `PendingIsTaken` also needs handlers that return, because a handler
that hangs keeps its slot of the semaphore even after the janitor has failed its job.

`WebhookDelivery!Fairness` assumes that time passes (`FallDue`), that each loop scans every ten
seconds and comes to the rows it read (`ScanDue`, `TakeUp`), and that an attempt ends: the
request has a timeout of ten seconds (`webhooks.py:59`), which httpx counts for each read and
write, so a partner that answers byte by byte is assumed away. No faults are assumed, and they are
bounded: `DeliveriesEnd` holds for any finite number of lost rounds.

## 4. The findings

Each is a statement of the specification the code does not keep, with the run that shows
it: free credits first (`specs/06-business-logic.md:99`), a refund returns what the job
reserved (`06:107`), a succeeded job is paid for (`06:15`), at-least-once delivery after a
crash (`specs/02-architecture.md:92-94`), a webhook at every outcome
(`specs/07-admin-and-operations.md:219`, `06:76`).

Other differences between specification and code, met while modelling. The models follow the code:

* `specs/02:188` and `06:190-198` recompute balances from `SUM(amount)`, and write them only
  with `--fix`; `reconcile.py` takes the `balance_after` of the newest row by `created_at`, and
  always writes. (The sum alone would be wrong too: the free credits a user starts with have
  no journal row. The mutant `MutExpected` is that sum.)
* `specs/05-api.md:677` and `07:221` allow three webhook attempts; the code makes four, the
  first and one after each of three backoffs. `MAX_ATTEMPTS` is not used.
* `docs/partner-integration-guide.md:705-712` lists the webhook events `job.pending` and
  `job.running`. Neither is ever sent: `fire_webhook_if_configured` is called after an outcome
  only, and names the event by the status it reads then. `specs/07:219` speaks of outcomes only.
* `log_action` follows the repository call whatever that returned in `integrations.py:111-148`
  (update and status), `partners.py:80-84`, `providers.py:115-122`, `job_types.py:75-76` and
  `90-106`: a row that is not there, a form that sets nothing, or a webhook URL that was
  cleared and is kept are logged as changes.
* `specs/06`, section 19, answers a repeated key with the job; between COMMIT and SETEX, and
  after the key's TTL, the unique index turns the repetition into an internal error.
* `specs/02:116,122` revoke keys through the Redis set; the set is asked for an id it never
  holds, and the row in PostgreSQL decides. Blocking a partner changes nothing for its keys.
* `specs/02:59,227` and `06:74` record every attempt; failures that a later success follows are
  not recorded, and the row of the success names the first provider of the chain.
* `seed.py:166` links the mock only without a token; the link an earlier run without a token
  made is not removed by a run with one.
* `IntegrationRepo.update` cannot clear `webhook_url` or `webhook_secret`; `create_job` takes ids of
  files that do not exist (the worker refuses them); an adapter exception that is no
  `ProviderError` ends the chain although providers are left; a delivered row can be set back to
  pending or failed by a slower attempt.

## 5. The proofs

TLAPS checks every theorem below for all values of the constants: any numbers of users,
jobs, sessions, requests, workers, tasks and providers, any limits and costs, and any bound
on time and faults. No proof assumes a bound of section 3. What the constants are assumed
to be is named in the module that declares them: costs and grants are natural numbers
(`CostAssumption`, `GrantAssumption`; the admin forms do not enforce it), the callers of the
rate window are finitely many (`CallersAssumption`; its bound counts them), the integration's
id is neither a hash nor a row id of a key (`IntegrationIdAssumption`), names that stand for
"none" are not ids, and actors of two kinds are different actors.

None of the invariants of the runs is inductive as it stands: each speaks of what is
committed, and the steps write what some process has read before. The strengthenings say
what the processes under way may believe.

* **CreditLedgerProofs.** `Safe` is types and NonNegative, and needs nothing else: the UPDATE of
  a charge is guarded by the row as it is then, so what was read need not be believed.
  LedgerExplainsBalance also needs `UsersInFlight`: open transactions are of users that have a
  row, and a user without one has no journal. ChargedInFull and FailedAreRefunded need
  `JobsInFlight`: a refund is of a job that exists, a charge of one that does not, and no two
  charges are of the same job.
* **ReconciliationProofs.** With the script, NonNegative rests on `RowsSafe`: the newest rows
  never say a negative `balance_after`, and what an open reservation has read can pay for its
  job. `Journal` does not speak of balances, so the script cannot disturb it.
  RewritesFollowOverlaps rests on `Orderly`: a user without overlaps has at most one open
  transaction; its newest rows are older than that one and carry the balance; the
  script is off while it is open, and has read what is still true otherwise. From the same
  invariant, what a reservation without overlaps has read *is* the balance when it commits, so
  the split spends free credits first and the UPDATE finds the row: ChargedInOrderAlone.
  `LedgerIsAtomic` maps each step to one of CreditAccounts or to none; it needs `ScriptKnows`
  (what the script holds are users that have a row), RowsSafe for what it writes, and
  JobsInFlight for a refund being of a job that exists.
* **RateWindowProofs.** `WindowSound`: every call let through in the last span is in the window,
  or its caller is about to add it. So the limit is exceeded only by calls that counted
  before others were added, and there are no more of these than callers.
* **JobSubmissionProofs.** `RequestSound` says for each step of a request what the database and
  Redis hold by then; with `PromisesKept` (an answered key is in Redis until it expires),
  `OneRowPerKey` and `RepliesTrue` it gives the refinement: every step of JobSubmission is a step
  of IdempotentSubmission or leaves its variables alone (`KeysKeepTheirPromise`).
  PagesComplete is about counting: of n rows in order every place from 0 to n - 1 is taken by
  exactly one (`EveryPlaceTaken`: places differ, and as many as rows), so a page has PageSize
  rows or all, and the oldest of a full page leaves exactly the rest. `ReaderSound` says that
  what is due is seen or lies beyond the cursor, and that nothing seen does: rows inserted
  since may come before or after the cursor, but the rows of the start stay where they are.
* **AccessControlProofs.** `CallSound`: a request whose key was revoked before it began finds
  the key revoked at every step, and does not get past the row; one whose integration was not
  active, and has not been since, does not get past its status; the set of revoked keys never
  holds the integration's id. `PanelSound`: a session that ended is gone, a change that
  is not in the log has its request still at work, or is counted among the lost, and a request
  about to write the log has changed what it will name, or is of a handler that does not look.
* **JobOutcomeProofs.** `OutcomeSound` joins, for executions, `ExecSound` (of each task, what it has
  written is what its plan and its place say, and of each job, its status has a task behind it,
  however many tasks it has: no task's rows are written by another); for
  files, `StoreSound` (objects come before rows, and lie where their owner's path is); for
  providers, `SeedSound` (what a run of the seed script has set right stays right until an edit).
* **WebhookDeliveryProofs.** `Sound` says of rows, of the snapshots in the loops' batches, and of
  attempts under way that none counts a request that was not made. An attempt writes what it
  was begun with, so a statement about rows alone would not survive it.
* **JobLifecycleProofs.** `AllSound` says of every job that start-up recovery has not pushed: it is
  with its request, once in the queue, with one task, or nowhere (`OneDelivery`); its task
  agrees with its row, unless a janitor has judged it (`TaskAgrees`); a janitor holds it only
  when it is overdue (`JudgedLate`). RefundedOnce and ToldTheOutcome follow. PendingIsSomewhere
  has an invariant of its own, `Kept`: a step that takes a pending job from one place puts it
  into the next. OneWalk is read off AllSound before each step.

  FollowsTheStates is proved (`StatesAreKept`) of any number of workers and tasks, with or
  without a deadline for handlers: of an undisputed job AllSound says which step of the promise
  each action is, and of a disputed one that it was created is enough.

  PriceIsKept is proved of PaidJobs (`JobsArePaidOnce`): every step of it is one of JobLifecycle or
  leaves that alone, so AllSound holds, and `AllPaid` adds that a job has a row exactly if it was
  charged in full, and that one `_fail_job` has given back what was charged.

`PROJECT.json` lists the theorems with the properties they state. Every property the runs
check is proved, invariants, action properties and the three refinements, except for the
liveness properties RunningEnds, PendingIsTaken, RecoveryTakesUp and DeliveriesEnd: these are only
model-checked, because liveness under fairness, and ENABLED, are beyond the installed provers.
The runs that show violations are counterexamples and need no proof.

## 6. What is left out

* **Credit ledger**: the Idempotency-Key of `topup` in Redis, a cache in front of the unique index
  on `(user_id, external_transaction_id)` that is modelled; `/check` and `/me/balance`, which read.
  One reconciliation script runs at a time.
* **Provider adapters**: the HTTP calls, the polling of a prediction and the shapes of its output;
  the model takes what `execute` can end with.
* **Integrations**: name, limits and default credits are columns nothing modelled reads twice.
* **Admin pages**: lists, filters, exports and the dashboard read; the test-job form calls the API
  as a partner would.
* **Seed**: the demo partner and admin, `create-admin` and the command line.
* **Job registry and schema sync**: a dictionary filled at import, and one upsert per handler,
  sequential and idempotent.
* **API shell**: wiring, envelopes, logging, settings, connections: pure I/O and formatting.
* Content types and sizes of files, request and correlation ids, languages of messages.

What the models assume of the rest: PostgreSQL keeps what it has committed and blocks a
second writer of a row; Redis keeps what it holds, but for the expiry of keys; two calls of
the rate window never read the same time.

## 7. What could follow

1. An abstract specification of a job's task that both JobLifecycle and JobOutcome implement:
   today each has its own.
2. A bound on the requests of a delivery: how far overlapping loops can exceed the budget.
3. The Idempotency-Key of `topup`.
