# Verification of Money Insighter

TLA+ models, TLC runs and TLAPS proofs of the parts of Money Insighter that keep
state: how a bank is linked, how its item is synced into Postgres and the jobs
that do it are queued and run, what of Plaid's answers is stored, how the tables
are served and written, and how the desktop app starts, stops and configures all
of it. Paths in this file are
relative to `src/`; `pb/` abbreviates `plaid-backend-golang/`, `pt/`
`postgres-topper/`, `de/` `desktop/src/`.

## The system

An Electron shell (`desktop/`) starts an embedded Postgres and two Go services.
`plaidsync` (`pb/`) holds the credentials, talks to Plaid, and writes the
tables; the topper (`pt/`) serves those tables, and the user's own, to the
renderer over HTTP.

| component | state | operations | works with |
|---|---|---|---|
| sync engine, `pb/internal/sync` | none of its own; locals of a call | `SyncItem`, `RefreshRecurring` | item lock, batch, Plaid client, item status |
| item lock, `pb/internal/store/lock.go` | advisory lock and row lock of one transaction | `WithItemLock` | engine (callback) |
| sync batch, `pb/internal/store/{sync_batch,accounts,transactions}.go` | `plaid_items`, `plaid_accounts`, `transactions` | `ApplySyncBatch` and its six steps | runs in the lock's transaction |
| item rows, `pb/internal/store/items.go` | `plaid_items` | `UpsertItem`, `SetItemStatus`, `MarkItemRemoved` | engine, API handlers |
| audit, `pb/internal/store/runs.go` | `sync_runs` | `RecordSyncRun`, in and outside the transaction | engine |
| job queue, `pb/internal/store/{jobs,queue}.go` | `sync_jobs` | `CreateJob`, `ClaimJob`, `FinishJob`, `QueuedJob`, `RequeueRunningJobs`, `ListSyncableItems` | runner |
| runner, `pb/internal/jobs` | `Runner.mu`, `notReady`, workers, timers | `Enqueue`, `Run`, `worker`, `process`, `retryNotReady`, `ScheduleAll` | queue, engine, API |
| hosted link, `pb/internal/api/{hosted,link}.go` | sessions in memory, each with a mutex | create, status (poll), completion | the dialog, Plaid client, item rows, runner |
| other handlers, `pb/internal/api` | none | removal, webhooks, jobs, sandbox | runner, item rows, Plaid client |
| process, `pb/cmd/plaidsync` | the two goroutines of `run` | start, serve, drain, exit | everything above |
| Plaid client, `pb/internal/plaid` | none | HTTP calls, decoding, error classification | engine, API |
| recurring streams, `pb/internal/store/recurring.go` | `plaid_recurring_streams`, columns of the item | `ReplaceRecurringStreams`, `RecordRecurringFailure`, `ItemsDueRecurringRefresh` | engine, the runner's worker and sweep |
| configuration, `pb/internal/config`, `pt/internal/config` | none | `Load`: the environment is accepted, or every problem is named | both `main`s; the supervisor writes the environments |
| keyring, money, civil dates, secrets | values | pure functions | everywhere |
| topper cache, `pt/internal/cache` | entries, calls in flight | `Do` | select handler |
| topper catalog, `pt/internal/catalog` | relations and their columns, fixed at start | `Load` | Postgres, every request |
| topper queries, `pt/internal/query` | none | `Parse`, `BuildSelect`, `BuildCount`, `BuildUpsert`, `BuildDelete` | select and write handlers |
| topper service, `pt/cmd/topper`, `pt/internal/{api,auth,store}` | the process, one transaction for each write | wait for the schema, serve, drain, exit | Postgres, beside a migrating `plaidsync` |
| link dialog, `de/renderer/src/components/hosted-link-button.tsx` | React state, a poll interval | start, poll, cancel, retry | hosted link, through IPC |
| supervisor, `de/main/{supervisor,services,postgres,index}.ts` | `AppState`, queue of operations, child processes | start, stop, restart, quit | both services, Postgres, settings |
| settings, `de/main/settings.ts` | `secrets.bin`, `config.json`, copies in memory | setup, update, `markKekBackedUp` | supervisor, IPC |
| IPC, `de/main/{ipc,http}.ts` | none | saves, restarts, proxied requests | all of the desktop |
| renderer pages | query cache, job poller | pages, insight calculations | both services through IPC |

### What is hard about it

* Two syncs of an item, webhooks, a removal and a link all write one row. A
  sync reads the cursor, talks to Plaid for minutes, and writes; it must hold
  the item all that time, and does, by an advisory lock it only tries and a row
  lock others wait for.
* Plaid can fail a page at any point of a pagination, which then restarts from
  the cursor it started with.
* A commit can fail, or succeed without the client knowing.
* Pending transactions and their posted successors arrive in any order, in one
  batch or several; the same row may be delivered twice or changed later.
* `Enqueue` checks and then creates, from several goroutines.
* The process can be stopped or killed between any two statements; the table
  is the only queue state that survives, counters and timers are lost.
* After the lock is released a failed sync still writes the item's status, from
  what it read before.
* The dialog polls every two seconds whether or not the last poll was answered;
  the polls of a session complete it, and a public token works once. The page at
  Plaid may be open twice.
* Two refreshes of an item's recurring streams, one after a sync and one of the
  sweep at start, ask Plaid before they lock the row, and replace a whole list.
* An answer of Plaid may be cut, malformed or late; what is stored must be all of
  it or nothing, and every amount to the cent or the last digit.
* A process must end when it is told to, whatever its goroutines, transactions and
  clients wait for, and close the pool after the last of them.
* Upserts of several rows lock them in the order of the body, so that two of them
  may deadlock; a commit's answer may be lost; reads and writes of two callers
  interleave between statements.
* Columns that hold secrets must not show, neither in a row nor by what a filter,
  an order or a count tells of them.
* What the app accepts as settings, the services check again with other code.
* A cache entry is filled by one caller for all that wait, from a snapshot older
  than the moment it is stored; nothing invalidates it.
* Child processes die at any time, ignore signals, get ready late; operations are
  asked for while others run; the app may be killed and launched beside its own
  orphans; two settings files are written one after the other.

PROJECT.json lists each hazard at its line, with the properties about it.

### What makes each part correct

* **Batch**: the rows stored are those of Plaid's history up to the saved
  cursor, pending links and missing flags are exact, stamps are written once,
  a replay changes no row, but for which of several posted rows that name it a
  pending row is linked to.
* **Item**: a sync under way owns the row; cursor and rows move together;
  the audit rows tile the history; the row satisfies the schema's CHECKs;
  every sync ends; a removal gets through.
* **Queue**: a job is worked by one worker at a time, an item has one queued
  job, every job ends, a syncable item keeps being synced.
* **Recurring streams**: the live ones of an item are one answer Plaid gave, and
  in the end the latest; an item that is due is tried though another fails.
* **Client**: rows are those of the pages up to the cursor, and of no page that
  came garbled.
* **Process**: the pool is closed last, and a signal ends the process.
* **Hosted link**: one final status for a session, a public token sent once unless
  a completion failed, nobody waits for ever.
* **Topper**: denied columns do not show; pages neither repeat nor skip; writes
  merge in the order of their commits, each whole; what is answered is stored; the
  load fails for its configuration only; a signal ends it.
* **Cache**: a bound on staleness, and responses for a key that never go back.
* **Desktop**: one of each service, a phase that is the truth, a database that
  outlives its users, operations that end; secrets once entered are not lost, keys
  stay those of the database, and what is saved the services accept.

## The modules

| module | models | lines |
|---|---|---|
| `SyncBatch` | `ApplySyncBatch` as operators from tables to the tables it may commit | `pb/internal/store` |
| `Ledger` | one item's tables following Plaid's feed by batches; EXTENDS `SyncBatch` | engine and store |
| `AtomicFeed` | abstract: the rows are those of the history up to the cursor, and both move at once | `pb/README.md`, "Cursor and rows are atomic" |
| `ItemSync` | one `plaid_items` row, concurrent `SyncItem` calls, handlers, shutdown, crash; implements `AtomicFeed` | engine, lock, items, API |
| `JobQueue` | `sync_jobs`, `Enqueue`, workers, timers, scheduler, process | runner, queue, jobs |
| `HostedLink` | sessions, polls and completion in `plaidsync`, the dialog, the user at Plaid | API, Plaid client, dialog |
| `PlaidClient` | the decoders, and the calls that return rows, as partial functions | Plaid client |
| `Plaidsync` | start, drain and exit of the process, the runner in it, refreshes of recurring streams; EXTENDS `PlaidClient` | `main`, runner, engine, store |
| `Config` | `Load` of both services: from an environment to the variables it complains of | configuration |
| `Catalog`, `Grammar`, `Statements` | what the API may touch; which queries are accepted; what a statement gives or changes; each EXTENDS the one before | catalog, query |
| `Topper` | the topper's process and the requests of concurrent clients; EXTENDS `Statements` | `main`, API, auth, store |
| `TopperCache` | `Cache.Do` under concurrent requests, time and commits of others | cache, select handler |
| `Supervisor` | the queue of operations, the processes, quitting, kills and launches | desktop main process |
| `Settings` | the two files and the copies in memory, saves cut short, and the environments made of them; EXTENDS `Config` | desktop settings, supervisor |
| `MCLedger`, `MCItemSync`, `MCJobQueue`, `MCPlaidsync`, `MCHostedLink`, `MCTopper`, `MCTopperCache`, `MCSettings` | constants, inputs and symmetry for TLC | |
| `Ledger_proofs`, `ItemSync_proofs`, `JobQueue_proofs`, `HostedLink_proofs`, `Topper_proofs`, `Supervisor_proofs`, `Settings_proofs`, `Plaidsync_proofs` | the proofs about these modules; `Topper_proofs` is about `Topper`, with what it EXTENDS, and about `TopperCache` | |

`Ledger` and `ItemSync` share one commit, seen from two sides: `Ledger` has the
contents of the rows and takes the commit as one step; `ItemSync` has every
step that leads to it and keeps of the contents only which events have been
applied. `JobQueue` cuts `SyncItem` to taking the item, ending and being
canceled, which is what the runner can tell apart. Plaid is the environment of
all three. `HostedLink` ends where the row of an item begins: `stored` is the set of
items whose row exists, the statements on the row are `ItemSync`'s
`ExchangePublicToken`, `UpsertItem`, `EnrichItem` and `FinishUpdateMode`. `Supervisor`
runs the two services, of which it sees processes that are ready or not;
`Settings` gives it the configuration, of which it sees how often it was saved.
`Plaidsync` is the composition of what `ItemSync` and `JobQueue` take apart: there a
sync is one step, and the steps are those of the process and of the refreshes
around it. `Topper` reads live rows; `TopperCache` is what stands between them and a
client. `MCTopper` takes the keys and write tables from `Config`.

### Correspondence

*`SyncBatch`, `Ledger`.* A table is a function from keys to rows. A row keeps
the columns the invariants are about; a transaction's `raw` is the account, the
pending transaction it names and a version. A timestamp is the number of the
batch that stamped it, 0 is NULL. The cursor is how many events of `feed` it
has consumed. `Batch` builds what `paginate` accumulates when pages are cut
after the events in `cuts`: of each page its added, then its modified rows.
Where an `UPDATE ... FROM` may take any of several matching rows, `Superseded`
returns every outcome. `Accepted` holds the early returns and the foreign key.

*`ItemSync`.* `row` is the `plaid_items` row with `sync_runs` (only the runs that
moved the cursor, as `<<cursor_before, cursor_after>>`), `lock` the transaction
that holds the advisory and the row lock, `run[s]` the locals of call `s` of
`SyncItem`: `before`, `orig` are `statusBefore`, `cursorBefore`; `pos`, `got` the
pagination; `staged` what the open transaction would commit, or that a failed
insert aborted it. A removed item and a re-auth
item are skipped; the two update paths of the API are `remover` and `linker`.
A statement on the row by anyone but the holder needs `RowFree`. `before` is an
`active` or `error` status because nothing else is synced.

*`JobQueue`.* `job` is the table, `line` the unfinished jobs by `created_at`.
`worker[w]` is where `process` stands; `state` and `after` are the outcome the
`finish` that comes next writes and what follows it (error codes are left out).
`mu` is `Runner.mu`, which `Enqueue` holds across its two statements. `requeued` is
a history variable. `holder[i]` is the worker whose `SyncItem` has the item's lock; it
outlives a process that crashed until Postgres rolls the transaction back (`RollBack`),
so that the next process may find the item locked. A finished job, which nothing reads,
keeps its outcome only, and may be
forgotten once its worker has left it (`LeaveJob`), so that a few ids stand for a table
that grows. The code's four job
kinds are two here: `manual`, and `automatic` for the three that no branch tells
apart. The debounce interval and the delays are abstracted: a debounce may happen
whenever the item has succeeded before, a timer may fire at any time.

*`PlaidClient`, `Plaidsync`.* A JSON object is a function from its fields, `BAD` a
value that does not parse, an amount a number of millionths. A decoder gives a set:
empty where it fails. `main` is where `run` stands, `runner` where `Runner.Run`,
`job[r]` the locals of a worker or of the sweep (a *refresher*), `holder[i]` the
refresher whose transaction has the item's row; `Replace` and `Commit` are two steps,
and a `COMMIT` may fail, or take effect and be answered by an error. `Feed` is what
Plaid's pages and account lists are, `Lists` what it reports as recurring, `Faults`
the answers that are refused or malformed.

*`Config`.* An environment is a function from the variables set to parsed values, so
that what is left is what `Load` decides: which are missing, out of range, repeated
or in conflict with one another. The result is the set of variables named in the
error. Of an empty key list (`TOPPER_API_KEYS=","`) the code complains only if
an earlier variable has failed, and so does `LoadTopper`.

*`Catalog`, `Grammar`, `Statements`.* A relation has the fields of `Relation`. A query
is a function from its keys to their values, taken apart at the commas; `Parse` gives
what `Params` holds, `Accepted` is its error paths. `Select` gives every sequence of rows
Postgres may answer (rows that the order does not tell apart in any order), `Merged` and
`Inserted` what an upsert leaves.

*`Topper`.* `proc` is where `run` stands, `version` the migration that `plaidsync` has
reached, `req[c]` a request from its receipt to its answer, `tx[c]` what its transaction
has written. A step of an upsert is one row, which waits for a row that another
transaction wrote. `Abort` is a deadlock, a statement timeout, a canceled request
or a lost connection. `merged` is a history variable.

*`HostedLink`.* `link[t]` is what Plaid knows of a link token: how often its page
was opened, how pages have ended (`token`: with a public token; `finished`: without
one, as Plaid reports update mode; `exit`), whether the public token was
exchanged. `Outcome` is `GetLinkSession`, which looks at all pages. `hosted[t]` is the
`hostedSession`, `mu` its mutex; `poll[p]` is a request from the tick that sent it
to the answer. `phase` is the React state and `effect` what was rendered last, whose
interval ticks: an answer may come between the two. `stopped` is the flag of the
effect's closure. `answered` and `broken` are history variables.

*`TopperCache`.* A body is the number of commits it was read after; time is ticks,
of which a query takes at most `QueryTimeout`. `flight` is singleflight's map: the
leader of a key. `Kept` is what an insertion into a full cache leaves, a map
iteration being any order. `replies` and `shown` are history variables.

*`Supervisor`.* A step goes up to the next `await`. `queue` and `op` are the chain of
promises of `enqueue`, `at` where the operation stands, `child` what a `Service`
holds, `procs` the processes that are alive. A process remembers the database it
connected to and the settings it was started with. `orphans` are processes of
launches that were killed. The settings are how often they were changed: `config` in
memory, `saved` in the files, which a launch reads; `asked`, a history variable, is
`config` when a restart was last asked for. `Save` changes memory, then the files, and
asks for a restart; `SaveFails` is the write that throws after `this.config` was
assigned, after which `ipc.ts` asks for none; `MarkKekBackedUp` writes the files from
memory, what a failed save left there included, and asks for none either. A failed
save of the first setup makes the app `Configured`, too. Which of the two files a
failed save has written is `Settings`' matter.

*`Settings`.* A secret is the environment it is for and which of those typed it
is; the four generated keys are one. A save is two steps, `SaveSecrets` and
`SaveConfig`, between which the app may end; `SaveConfigFails` is the write that throws
after `this.config` was assigned. `typed` and `generated` are history variables.
`ValidConfig` is `validateConfig`, `PlaidsyncEnv` and `TopperEnv` are what `doStart` passes.

## What is checked

| run | question | bounds | states |
|---|---|---|---|
| `ledger` | does every cut of the history into batches and pages give the same rows, and what does a replay change? | 2 accounts, a pending transaction and two that name it, 2 versions, 3 events, 3 batches | 779 k |
| `item_sync` | who owns the row, and does it refine `AtomicFeed`? | 2 syncers, 2 attempts, 2 events | 516 k |
| `item_sync_live` | does every sync end, does a removal get through? | 1 syncer, 2 attempts, 2 events | 35 k |
| `job_queue` | ownership and coalescing under faults | 1 item, 2 jobs, 2 workers, 2 callers, manual and automatic, 2 faults, 1 follow-up | 1.63 M |
| `job_queue_live` | does every job end, does an item keep being synced though jobs are debounced, skipped, fail or are lost? | 1 item, 2 jobs, 1 worker, 2 callers, manual and automatic, 1 fault, 1 follow-up | 248 k |
| `plaidsync_service` | are the streams one answer, does the process end in order? | 2 items, one of which is triggered, 1 worker and the sweep, 2 pages, 2 lists, 1 start | 62 k |
| `startup_failure` | does a failed start-up step end the process? | the same, without triggers | violated |
| `hosted_link` | does a session end once, and does the dialog? | 1 token, 2 pages, 2 polls, 1 fault or restart | 382 k |
| `topper_service` | do secrets stay, pages hold, writes merge, does the process end? | 2 clients, 17 requests, one each, 2 migrations, 2 rows | 63 k |
| `topper_cache` | how old can a response be, and can it go back? | 3 requests, 3 keys, 2 entries, 4 ticks, TTL 2, 1 commit | 1.36 M |
| `supervisor` | one of each, in order, with a true phase, and does it end? | 2 requests, 2 launches | 592 k |
| `settings` | what does a save cut short lose, and do the services take what is saved? | 2 environments, 3 secrets each, 9 tunings | 25 k |

The bounds are where the behaviour changes. Two events are one batch after
another, or one batch in two pages, and a retry between them; three events
give added, modified, removed, and pending, posted, changed. Two syncers are
one that holds the item and one that finds it locked or comes next; a third is
a second of either. Two attempts are one restart and the last try; the proofs
are for any number. Two faults are one during the recovery from the other. Two
job ids are a running and a queued job of one item; items share only the mutex
and the workers. The two liveness runs of the item and of the queue are without symmetry. That of the
queue has two job ids, one that a lost claim leaves `running` until a restart and one
that goes on; its one follow-up is the first and the last; its manual jobs are
debounced, and answer the webhooks that find them queued. With one worker a job is still
skipped for a locked item, as a restart may come before Postgres has rolled back what
the crashed process held; two live workers that contend for an item are in the safety
run, and for the second of them a lock that the first holds is no different from that
of a dead session: both are released in the end, and the job is skipped. The liveness
run of the item uses one syncer: with two, the fair scheduling of one does not depend on the
other's steps except through the lock, which the safety runs cover. Three transactions
are a pending one and two that name it, in which a replay can choose between two
rows to link. Two polls are one that has the session's mutex and one that waits for it;
two pages are two tabs that end differently; sessions share nothing but the
dialog, which has one at a time. Three requests are a leader, one that waits for
it and one that missed before; three keys for two entries make an eviction
choose; four ticks are the life of an entry and that of its successor. Two
requests to the supervisor are one that runs and one that waits, in front of or
behind a quit; two launches are one beside the orphans of the other. Three
secrets for an environment are one of an old file, one whose save is cut short
and one after that; the tunings are the defaults, four that only the app accepts and
four that it refuses. Two items are one that jobs come for and one that only the
sweep visits; two lists are the one a slow refresh brings back after the other; a
restart finds what one start left, which `Init` has among its states (items synced
and their streams known, or not). Two clients are enough to block and to deadlock;
their 17 requests cover every method, a page through ties, a filter, an order and a
count by a denied column, a toggle, an `or`, and writes that overlap in opposite
orders, or that name a key twice in one body (the later row then runs over the
earlier one of its own transaction).

Deadlock is checked except in `supervisor`, `plaidsync_service`, `startup_failure` and
`topper_service`, where the process has ended at the end, for good when its starts or
its clients' requests are used up. In
`topper_cache` requests and fills go on after the last tick.

### Properties

Safety of the tables (`Ledger`): `LedgerFollowsFeed`, `PendingLinksExact`,
`MissingMatchesListing`, `ReplayOnlyRelinks`, `StampsWrittenOnce`. Of the item
(`ItemSync`): `SyncOwnsItem`, `RunsTileHistory`, `CredentialCheck`,
`ImplementsAtomicFeed`, with `TypeOK`. Of the queue (`JobQueue`): `WorkersOwnJobs`,
`OneQueuedJobPerItem`. Of the process (`Plaidsync`): `StreamsAreOneAnswer`,
`RowsAsServed`, `PoolClosedLast`. Of linking (`HostedLink`): `OneFinalStatus`,
`SentAgainOnlyAfterFailure`. Of the topper (`Topper`): `AnswersHideDenied`,
`PagesAreStable`, `RowsMergeInCommitOrder`, `LoadFailsOnlyForConfig`,
`AnswersShowWhatIsStored`. Of the cache (`TopperCache`): `StalenessBounded`,
`ReadsNeverGoBack`. Of the desktop (`Supervisor`, `Settings`): `OneOfEach`,
`IdlePhaseIsTrue`, `DatabaseStopsLast`, `EnteredSecretsKnown`, `KeysFitDatabase`,
`ServicesLoad`. Liveness: `EverySyncEnds`, `RemovalCompletes`, `EveryJobEnds`,
`ItemsKeepSyncing`, `StreamsCatchUp`, `EveryDueItemTried`, `SignalEnds`, `WaitingEnds`,
`SignalledProcessEnds`, `EveryOperationEnds`. Each is stated in words at its
definition, and PROJECT.json names for each a mutation of the code that violates it.

`OneQueuedJobPerItem` excepts jobs that a restart put back: the server already
serves while `RequeueRunningJobs` runs, so a new job may stand beside an old one.
The second of them finds nothing new, or finishes `locked`.

`StreamsCatchUp` does not say that the latest list is stored at once: commits are in
another order than the answers, and the sweep may put an older list back. It says
that refreshes after later syncs mend this for good.

`AnswersHideDenied` compares an answer with what it would be under other contents of
the denied columns (non-interference), rather than looking for the column's name.

`ServicesLoad` names its exceptions: `validateConfig` lets an interval of 0 or of too
many digits, a country or product named twice, and a product that begins with an
underscore through, which `plaidsync` refuses at its next start.

`StalenessBounded` has the duration of a query besides the TTL: `Expires` counts
from the end of the query, the age of the body from its snapshot.

`ReplayOnlyRelinks` is about every replay at once: of the history up to the cursor,
from any point of it, cut into any pages. It allows one change, of the posted row
a pending one is linked to, and that one happens: as an invariant of the same run
`ReplaysAreNoOps`, which allows none, is violated.

`ItemsKeepSyncing` asks for a sync that was a success and found the item ready. Its
exceptions are an item whose status keeps it from syncing, and a process whose
`RequeueRunningJobs` failed.

`IdlePhaseIsTrue` leaves two things open. In phase `ready` a service may have died,
which `Service` notices and the supervisor does not. And what runs may have older
settings than the app holds, if a save has failed since a restart was last asked for:
all processes then have one version, of that restart or of a failed save after it. It
need not be the one the app shows.

### Fairness

`ItemSync!Fairness`: every step of a sync is taken eventually (the Plaid client
and the context bound each call, the backoff is a timer, statements fail or
end). The removal's `UPDATE` waits for a row lock that syncs take and release;
Postgres queues row-lock waiters, so a waiter that is enabled again and again is
let in: strong fairness. Nothing is assumed of Plaid, of handlers, or of how
often syncs start.

`JobQueue!Fairness`: workers, calls of `Enqueue` and the start-up steps run, Postgres
rolls back the transaction of a client that is gone, and finished jobs leave the model
(weak fairness); the scheduler's ticker comes again, and
a worker that could begin a sync, succeed in one or take `Runner.mu` infinitely often
does so (strong fairness): the debounce interval passes, so that a manual job that
comes later is not debounced for ever; Plaid does not fail every attempt; and a
`sync.Mutex` hands itself to who has waited longest. That Plaid does not fail is an assumption on Plaid and is used by `ItemsKeepSyncing` only;
`EveryJobEnds` excepts a job that a fault left `running`, which waits for the next
start, and a process whose `RequeueRunningJobs` failed.

`HostedLink!FairSpec`: the interval ticks, React renders, a request goes on and is
answered, the session's expiration passes; a poll that finds the mutex free
again and again gets it (Go's `sync.Mutex` hands itself to a waiter of more than a
millisecond). Nothing is assumed of the user or of Plaid.

`Plaidsync!Fairness`: the steps of `run` and of the runner, and each worker's and the
sweep's refresh go on (weak fairness); nothing is assumed of signals, of Plaid's
success, or of when jobs come, so `StreamsCatchUp` asks in its premise that a worker
commits a refresh again and again. `SignalEnds` needs no drain to succeed: the
shutdown timeout is the other way out.

`Topper!Fairness`: start-up, requests and the exit go on; `TOPPER_STARTUP_WAIT` and the
shutdown timeout pass; a transaction that waits is aborted in the end (Postgres's
deadlock detector and the timeout of the request).

`Supervisor!Fairness`: the main process runs; a service that was told to exit does
(SIGKILL after 15 seconds); nothing makes it get ready, since the deadline does not
need it to. For Postgres, whose start, `prepare` and stop have no deadline
(`desktop/src/main/postgres.ts:59-94`), it is an assumption on embedded-postgres and the
server: a starting server comes up or exits, `prepare` returns, and a server told to
stop exits. `EveryOperationEnds` rests on it.

### What the documentation says and the code does not do

One run shows a documented statement violated:

* `startup_failure`: when the listener cannot be opened, `serve` returns and `run` waits
  for a runner that only a signal ends; when `RequeueRunningJobs` fails, nobody reads
  `Run`'s error before the server ends, and the process serves without workers. "It
  exits non-zero with a message on stderr when any startup step fails"
  (`pb/cmd/plaidsync/main.go:7`).

Further behaviours are in the models, at the actions named, without a run of
their own:

* `SyncBatch`, `LinkPendingTransactions`: if two posted transactions name one pending one, a
  batch that is applied again may point `superseded_by` of the pending row from one of
  them to the other, since the links are set for unchanged rows, too
  (`pb/internal/store/transactions.go:95-123`). "Replays are no-ops ... an identical
  row is left untouched (`first_seen_at` and `updated_at` unchanged)"
  (`pb/README.md:420`). `ReplayOnlyRelinks` holds, `ReplaysAreNoOps` does not.
* `Supervisor`, `SaveFails`: a save whose write fails has changed the settings in memory
  (`de/main/settings.ts:191`) and asks for no restart (`de/main/ipc.ts:33-36`), so that the
  services run with settings the app no longer holds. "Every change restarts the local
  services" (`de/renderer/src/pages/profile.tsx:30`; also `de/shared/api.ts:52`).
* `ItemSync`, `SetStatusAfterFailure`: the status read under the lock is written after
  the lock is released, so that a webhook's `login_required` in between is lost
  (`pb/internal/sync/engine.go:490`; `pb/README.md:110` has the status left alone).
* `ItemSync`, `CommitFails`: a commit that fails after the run row was staged leaves no
  run row (`pb/internal/sync/engine.go:281`; `pb/README.md:111`).
* `HostedLink`, `CompletionFails`: when a step after the exchange fails, the next poll
  sends the public token again, which Plaid refuses, although the item may be stored
  (`pb/internal/api/hosted.go:208`; `:25` has every later poll return the item).
* `Plaidsync`, `StreamsCatchUp`: an older list of streams may be put back by the sweep.
* `Topper`, `Count`: the rows and the total of a listing come from two snapshots, and
  may disagree.
* `Config`, `CheckWebhookURL`: with an invalid `PLAID_ENV` a webhook URL is judged as in
  the sandbox.
* `ItemSync`, `UpsertItem` after `MarkItemRemoved`: a link that was under way when the
  item was removed makes it active again ("it is never synced again",
  `pb/internal/store/types.go:47`). A deliberate re-link reviving the row is
  intended and tested; this race is not deliberate.
* `JobQueue`, `FindQueuedJob`: a webhook answered with a queued manual job is
  debounced with it (`pb/README.md:123` has webhook jobs never debounced).
* `JobQueue`, `LookUpFails`: a shutdown between claiming a job and looking up its item
  ends the job `failed` instead of leaving it for the next start
  (`pb/internal/jobs/runner.go:152`).
* `HostedLink`, `Restart` at `storing`: a restart between the exchange and the upsert
  loses the access token of an item that exists at Plaid
  (`pb/internal/api/hosted.go:29`).
* `HostedLink`, `Exited`: a session re-linked in one tab and left in another is
  answered `exited` (`pb/internal/plaid/plaid.go:185`: "a success anywhere wins").
* `TopperCache`, `LoadHit`: a body read before a commit is answered after it for up to
  the TTL and a query (`pt/README.md:267`: "a finished sync shows up at once").
* `Supervisor`, `BeginStart` after a quit's stop: a restart asked for meanwhile is
  queued behind it and may begin before the app exits.
* `Settings`, between `SaveSecrets` and `SaveConfig`: the environment in config.json and
  the secret the services are given may be of two environments, until the next
  save.

## What is proved

TLAPS proves the theorems below for every value of the constants, under the
modules' named assumptions, which TLC evaluates in every run. They keep NULL apart
from the values and bounds in the naturals, and ask for one attempt, for a TTL, for one
secret at least. The defaults `Settings` builds an environment from are no marks and
within the limits `Config` has (`MarksAssumption`, `TuningAssumption`). `Plaidsync` relies
on what Plaid promises of its ids (`PlaidsyncAssumption`): an id names one thing, of one
item, and a stream keeps its account, without which `upsertRecurringSQL` would leave a
live row as it is when its new account is one `plaidsync` does not know.

`Topper` asks of its constants what the repository says of them.

| assumption | says | because |
|---|---|---|
| `SchemaAssumption` | after the sentinel's migration the tables read are there, with distinct columns and a key that is not denied | `PlaidTables`, `PlaidDenylist` and the sentinel (`pt/internal/store/wait.go:22`), of the newest migration the topper reads |
| `CreatedAssumption` | the topper's tables have a primary key, a default for each column, and rows of their columns told apart by it; no name is also one of `plaidsync`'s | `pt/migrations/00002_insights.sql`, `00003_categories.sql` |
| `ViewsAssumption` | names differ; what a view orders, filters and breaks ties by it shows; it shows no denied name, and reads what is there | `pt/internal/views/views.go` |
| `PublicAssumption` | other contents of the denied columns change nothing else, so no SELECT of a view reads them; a key or a tiebreak tells rows apart | the same, and Postgres' primary keys |
| `RequestsAssumption`, `NullAssumption` | a body is a list of rows of values; NULL is none of the numbers that stand for the values | `decodeRows` |

A list of views or a denylist that broke one of them would make `Load` fail, or leave
a listing without a total order: then the theorem is not about it, and the
constants of `MCTopper` would have to break it too.

| module | theorem | statement |
|---|---|---|
| `Ledger_proofs` | `LedgerIsFeed` | `Spec => []LedgerFollowsFeed` |
| | `LinksAreExact` | `Spec => []PendingLinksExact` |
| | `MissingIsListing` | `Spec => []MissingMatchesListing` |
| | `StampsKept` | `Spec => StampsWrittenOnce` |
| | `ReplayRelinksOnly` | `Spec => []ReplayOnlyRelinks` |
| | `ReplayIsIdle` | `Spec => []ReplaysAreNoOps`, if no two transactions have the same predecessor |
| `ItemSync_proofs` | `TypeCorrect` | `Spec => []TypeOK` |
| | `Ownership` | `Spec => []SyncOwnsItem` |
| | `CredentialTied` | `Spec => []CredentialCheck` |
| | `RunsTile` | `Spec => []RunsTileHistory` |
| | `Refinement` | `Spec => ImplementsAtomicFeed` |
| `JobQueue_proofs` | `JobsAreOwned` | `Spec => []WorkersOwnJobs` |
| | `OneJobIsQueued` | `Spec => []OneQueuedJobPerItem` |
| `HostedLink_proofs` | `StatusIsFinal` | `Spec => []OneFinalStatus` |
| | `TokensSentOnce` | `Spec => SentAgainOnlyAfterFailure` |
| `Topper_proofs` | `CommittedRowsMerge` | `Spec => []RowsMergeInCommitOrder` |
| | `AnsweredUpsertsAreStored` | `Spec => AnswersShowWhatIsStored` |
| | `DeniedColumnsStayHidden` | `Spec => []AnswersHideDenied` |
| | `PagesDoNotVary` | `Spec => []PagesAreStable` |
| | `LoadFailureIsConfiguration` | `Spec => []LoadFailsOnlyForConfig` |
| | `StalenessIsBounded` | `CacheSpec => []StalenessBounded` |
| | `ReadsAreOrdered` | `CacheSpec => ReadsNeverGoBack` |
| `Supervisor_proofs` | `EachRunsOnce` | `Spec => []OneOfEach` |
| | `PostgresIsLast` | `Spec => []DatabaseStopsLast` |
| | `PhaseIsTrue` | `Spec => []IdlePhaseIsTrue` |
| `Settings_proofs` | `SecretsAreKept` | `Spec => []EnteredSecretsKnown` |
| | `DatabaseStaysReadable` | `Spec => []KeysFitDatabase` |
| | `ServicesStart` | `Spec => []ServicesLoad` |
| `Plaidsync_proofs` | `PoolIsClosedLast` | `Spec => []PoolClosedLast` |
| | `StreamsAreExact` | `Spec => []StreamsAreOneAnswer` |
| | `RowsAreExact` | `Spec => []RowsAsServed` |

Each module defines an inductive invariant (`IInv`; `TopperInv` and `CacheInv` in
`Topper_proofs`), shows that `Init` gives it and
that every action keeps it, one lemma per action or group of actions, and draws the
theorems from it.

*`Ledger`.* The pages reorder the events they drain (added, modified, removed), but
never two upserts of one transaction, since only its first can be an addition
(`AccumulatesOrders`, `BatchIs`). The
statements of a batch then make of each row what `Follows` says of it (`UpsertedRows`,
`LinkedBothWays`, `BatchApplied`): the batch's last upsert, its removal, the links both
ways. `Follows` carries the invariant, that the rows are those of the events up to the
cursor, over the commit (`LedgerFollows`, `LinksFollow`, `AccountsApplied`). That needs
what Plaid's history looks like (`FeedRules`), above all that a transaction which named
the pending one it replaces still names it (`PendingStaysNamed`, `NamingGrows`), for a link
is never undone. That a finite set of
events can be put in the order of the pages is an induction on its size, done by least
counterexample (`NatMin`, `Sorting`), as no theorem with an operator for a parameter can
be used. A replay of any part of the history, in any pages, applies events that the rows
have seen (`BatchReplayed`): the last upsert a transaction has in that part is its last of
all, so its `raw` is what is stored, and a pending row is linked to a row that names it,
as it was (`Replayed`). So a replay may only choose another such row (`ReplayRelinksOnly`), and none
if one posted transaction at most names a pending one (`OneNames`, `ReplayIsIdle`). The
hypothesis is needed: with a third transaction, as in `ledger`, TLC finds a replay that
chooses again.

*`ItemSync`.* `IInv` is the four invariants and `HistoryApplied`, that the rows are those
of the events up to the cursor and the cursor is within the history. None is inductive
alone: a commit extends the tiling and the applied rows correctly only because the
sync that commits owns the item (`SyncOwnsItem`), which needs the row to satisfy
`HistoryApplied` when it is taken, and the credential to be there (`CredentialCheck`)
when the status is syncable. The argument is in three parts. *Types*: every step of
a sync gives `run[s]` a value of its type (`SyncBecomes`) and the rest theirs
(`SyncTyped`). *Ownership*: a sync's own step keeps what it owns
(`SyncKeepsOwnership`) and nobody else touches a row that is held
(`OwnershipPreserved`). *Row*: a step either commits for a sync that holds the item,
or leaves cursor, rows and audit rows as they are (`RowStep`); a commit appends one
interval to the tiling (`TilesExtend`, `CommitExtends`).

*`JobQueue`.* That a running job has one worker needs to know when jobs can go back:
`RequeueRunningJobs` runs while no worker is at a job (`WorkersRest`), and a claim takes a
queued job only (`BusyWithJob`). That an item has one queued job needs to know what the
caller inside `Runner.mu` has found: no such job, and none can appear before it inserts
its own, except a requeued one (`MutexHeld`).

*`HostedLink`.* Who works at a session has its mutex and has seen that it is not done
(`Locked`); a session that is done has the one status answered (`Once`); an exchanged
token whose completion has not failed is of a session that is done or at work
(`Spent`); a session that a restart forgot does not come back, since its token is not
handed out again (`Fresh`).

*`Topper`, start.* `Load` is followed table by table and view by view (`LoadTableIs`,
`LoadViewIs`): after the sentinel only a write table that no migration creates can miss
(`CatalogLoads`). The catalog that is served was loaded after it (`StartInv`), so
each relation of it is `Sound`: rows can be told apart and compared by columns it shows
(`ReadTableSound`, `DescribedSound`, `FilteredSound`).

*`Topper`, writes.* `ServeInv` has, for a transaction that upserts, that what it wrote for a
key is the values it was given, last one first, laid over the committed row or over the
defaults (`Laying`): each row of the body keeps that (`LayingNext`), and so does a
commit of another transaction, for the two have no key in common (`Apart`,
`LayingStays`), which the row locks give. At a commit both sides of
`RowsMergeInCommitOrder` take the same step (`CommitIs`). `Writes` relates the same
transaction to the answer it builds, so `AnswersShowWhatIsStored` follows once only a
commit is seen to answer 200 (`ServedByCommit`).

*`Topper`, reads.* A query that `Parse` accepts names columns the relation shows
(`ParseAsks`), and the terms it is ordered by end in the tiebreak (`TermsOrder`). Under
terms that tell rows apart `Precedes` orders them totally (`OrdersTotally`), a total
order sorts a finite set in one way (`OneSorted`) and in some way (`SomeSorted`), and so a
page is one (`OnePage`). Tables that differ in denied columns only have a bijection
between their rows that keeps what is shown; conditions, order, slices, totals and
projections respect it (`MatchAlike`, `SortsAlike`, `TellAlike`): what was answered could
have been answered under any other secrets, too. Induction is replaced by least
elements (`Smallest`).

*`TopperCache`.* Staleness is a sum: what a stored entry still promises (`Stored`), and
what a fill in flight has left of its deadline (`Dated`). Order: whatever
can still be answered for a key, the stored entry and what its one flight
(`OneFlight`) has read, is at least as new as what has been (`Newest`, `Fills`).

*`Supervisor`.* A `Service`'s `child` is the only process of its service (`Held`), so that
a spawn that finds none, and a stop that saw it exit, know there is none. Orphans use
databases that no later process can use (`Apart`), and the lock file keeps a second
server out (`OneServer`); so a database has one `plaidsync` (`OneSyncer`). `tearDown` has
passed only services that do not run (`Below`). The phase is the truth (`Truth`)
because a start begins when nothing runs (`Quiet`), spawns what it runs with the
settings it has read (`Counted`), which are those of the last restart asked for, or of a failed save since,
unless a restart waits to begin (`Recent`), and a tear-down finds the server by its child (`ServerKnown`).

*`Settings`.* `secrets.bin` is written first, so it must fit the `config.json` there is,
the one in memory and the one still to be written (`Recalled`); the files come in
their order (`InOrder`); the keys are those the cluster was created with (`Sealed`), and
the keyring made of the environment holds just that key (`RingIsKek`). That the services
start on every environment the app can give them is a computation of both `Load`s
(`PlaidsyncAccepts`, `TopperAccepts`) on what `Accepted` says is saved: each setting is
its default or passed the check of the form.

*`Plaidsync`.* There is no runner before `run` has begun and after it has returned, and no
goroutine of it is at work before it begins and after it returns (`Joined`); a row is
locked only by a refresher whose transaction is about to commit (`Locked`), and so by
none when all rest. The live rows of an item are one answer of Plaid's (`StreamsInv`):
a transaction makes them exactly the list it brings (`ReplacedIsList`), with amounts to
the nearest cent (`CentsAreNearest`); what it will leave is settled while it holds the
item's row (`Written`), and no other item's transaction touches the same streams
(`Apart`); what was right stays right because the accounts known and the lists given
only grow (`Grows`). The rows of transactions are those of the pages up to the cursors
(`RowsInv`): a garbled page decodes to nothing (`FaultsDecodeToNothing`), any other to the
rows of what it tells, in order (`PageGives`), and a batch of the next page, or of the
last one again, leaves each row as told last and removed if ever removed
(`AppliedServes`), since a transaction is one item's (`OwnTransaction`).

Only model-checked: liveness, which is out of the prover's reach, as is `ENABLED`.
Every invariant and every action property that a passing run checks is a theorem.

## What is not modelled, and why

* Webhook signatures and their cache of keys, HTTP plumbing, health and listing
  endpoints, CORS, gzip: library calls, almost without state. Of the Plaid client, the
  calls that return nothing but success or failure, and the tables of error codes.
* `StartJob` and `UpdateCredential`, which nothing in the service calls; the rotation of
  keys by hand; the self-test commands; the exit code.
* Encryption, money, civil dates, the redaction of secrets: values without state over
  the standard library. The models have what is decided by them (a credential that
  does not open, the nearest cent, a date that is refused).
* Balance snapshots (`00003`): a trigger that appends history rows.
* Of the topper: SQL text and the shapes of literals, constraints that span columns or
  tables, the pool's limit, the size of a body; failures of a request that end in
  different status codes but do the same are one; times that a default or a trigger
  sets (`updated_at`).
* The renderer's pages and figures, computed in one pass from what was fetched.
* Entity tags and a disabled cache (TTL 0); ports, logs and the window of the
  desktop app; the 60 seconds after which its proxy gives a poll up while
  `plaidsync` goes on with it.
* A `secrets.bin` that cannot be decrypted and is deleted (setup then generates a new
  database password beside a cluster that keeps the old one).
* Several `plaidsync` processes on one database: the code assumes one
  (`RequeueRunningJobs`), and so do the models; `OneOfEach` shows that the app keeps to it.
* Durations below a second, and schema details no property is about: names,
  categories, indexes.

## Plan

Done, in this order: `SyncBatch`, `Ledger`, `AtomicFeed`, `ItemSync`, `JobQueue`,
`ItemSync_proofs`, `TopperCache`, `Supervisor`, `Settings`, `HostedLink`; then `PlaidClient`
and `Plaidsync`, `Config`, `Catalog`, `Grammar`, `Statements` and `Topper`, and the proofs
about `JobQueue`, `TopperCache`, `HostedLink`, `Supervisor`, `Settings`, `Plaidsync` and,
with the lemmas about `SyncBatch` they need, `Ledger`; last those about `Topper`.

What could come next:

1. An abstract queue (each trigger is followed by a sync that starts after it, or by
   a recorded refusal) as the specification `JobQueue` implements; an abstract cache (a
   register read with bounded delay) for `TopperCache`.
2. `Topper` read through `TopperCache`: that a cached page hides what a live one does, and
   is one that was true at most a TTL and a query ago.
3. Webhook verification with its key cache and Plaid's rotation of keys.
