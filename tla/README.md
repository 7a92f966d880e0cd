# Formal verification of the devops management platform

This directory holds TLA+ models of the backend of the platform (`src/backend/app`) and of
the parts of its frontend (`src/frontend/src`) that tabs, devices and callbacks share, the TLC runs that check them on small instances, and TLAPS proofs that hold for every value of
the constants. The source is the reference: every definition that models code names its
lines in `PROJECT.json` ("map"), comments in the modules name the functions.

## 1. The system

The platform watches and operates Kubernetes clusters. A FastAPI process (several workers,
several replicas) serves the pages, Celery workers execute checks, jobs and collections,
Celery beat starts a dispatcher every minute, PostgreSQL holds the state, Redis is the
Celery broker and holds locks, semaphores and caches. A React application runs in the tabs of the users' browsers, on several
devices. What makes it hard is that the
same rows and keys are written by request handlers, by tasks and by dispatchers, without
database locks, with a broker that loses messages and workers that are killed; and that the tabs of a browser share
its storage without locks, and hear of each other's writes by events that come late.

| Component | State | Operations | Hard behaviour | What makes it correct |
|---|---|---|---|---|
| **Check matrix runs** (`services/check_matrix_service.py`, `celery_app.py`) | `check_matrix_runs` (the run), `check_matrix_results` (the cell), `check_matrix_result_logs` (the history) | start a batch, publish, pick, wait, execute, judge, cancel, sweep | API, worker, cancel and sweeper write the same row from stale reads; best-effort revoke; lost publishes and workers | a cancel is final and keeps the cell, a verdict is logged once, every run ends, one active run per cell |
| **Tenant run slots** (`services/tenant_concurrency.py`) | Redis ZSET of task ids with expiry | acquire, wait by Celery retry, give up, release, snapshot | leaks by killed tasks, expiry, fail-open, limit edited meanwhile | the limit holds, a running task keeps its slot, leaks do not starve |
| **Cron dispatch of the matrix** (`dispatch_due`, `_claim`, `put_schedule`) | `last_run_at` and the cron of a row | evaluate, claim, publish, edit | overlapping dispatchers, stale `check_at`, edits between read and claim | a fire is claimed at most once, run again only by a repeated publish, none is skipped, a new cron starts at its next time |
| **Stale-while-revalidate cache** (`services/swr_cache.py`, `k8s_list_cache.py`) | per process: entries, lookups in flight, a local epoch; in Redis: an epoch with expiry | get, look up, bump, expire, evict | a lookup across a bump, epochs read and published outside the lock, a lost or expired epoch | no entry older than a bump is served if its lookup ended in time, one lookup per key, every get returns |
| **Snapshot jobs** (`services/snapshot_jobs.py`) | lock, meta, result and partial result of a key in Redis | poll, start, beat, take over, finish, put, invalidate | an owner that is slow or dies, non-atomic check and write, three threads per build | a live owner is not taken for dead, an orphan is taken over, what is finished stays finished |
| **Personal screen settings** (`lib/localPrefsSync.ts`, `lib/personalStorage.ts`, `backend/.../local_prefs.py`) | localStorage: the settings, their owner, archives, a base per account; a row per user | sync at start and login, push every 15 s, edit, switch accounts, merge a delta | overlapping syncs and pushes, requests that outlive their page or arrive late, two devices, two accounts on one | while changes of profiles succeed, unsent changes survive and accounts stay apart; devices converge |
| **Browser session** (`stores/authStore.ts`, `hooks/useSessionExpiryWatch.ts`, `services/api.ts`, `backend/.../auth.py`) | token and user in localStorage, in the sessionStorage and the memory of a tab | login, logout, refresh under a Web Lock, expire, refuse, change the password | storage events late, refusals of old tokens, two keys written one after the other | tabs agree, an old tab ends no session of others, an invalid session ends |
| **Browser history of modals** (`components/common/modalHistory.ts`, `useModalHistory.ts`) | records in the browser history, a book of them in the tab, a queue | open, close, take a record back, popstate | traversals are asynchronous, modals close in any order or refuse to | an open modal keeps its place in the book, closed ones leave no record, a record taken back closes nobody |
| Batch job dispatch (`run_batch_job_dispatcher`, `services/batch_job_service.py`) | `batch_jobs.last_run_at`, `batch_job_runs` | scan, publish, execute | publishes before it commits, no compare-and-set | a fire queues one job |
| Per-cluster request limit (`services/k8s_concurrency.py`) | slots per apiserver in Redis | enter, wait, time out, leave | processes that die, Redis that fails | the limit holds, slots come back |
| Kubernetes client pool (`services/k8s_client_pool.py`) | one client per kubeconfig | get, evict, close | eviction while a client is used | a client is not closed in use |
| Trend collection lock (`services/trends/collect_lock.py`) | a Redis key with a token | acquire, extend, release | expiry under its holder | one collector |
| Resource efficiency (`services/k8s_efficiency/`) | runs, steps, namespace lock, rollback data | apply, roll back, automate | failure in the middle of an apply, two runs of one namespace | what was applied can be rolled back |
| Namespace migration (`services/ns_migration/`) | a run and its steps | plan, apply, resume | crash between two steps | steps are done once |
| Alert pipeline (`services/observability/`) | alerts, fingerprints, cooldowns | ingest, deduplicate, route, analyse | duplicates and reordering from Alertmanager | one analysis per alert |
| Active runs and playbook jobs (`services/active_runs.py`, `playbook_run_jobs.py`) | registries of what runs | register, heartbeat, cancel | processes that die | what is listed runs |
| Login limiter, pod heartbeat, boot state | counters and keys with expiry in Redis | count, beat, read | several replicas | limits hold across replicas |
| Autosaved documents (`hooks/useArchDoc.ts`) | a document, its draft, a timer | edit, save, load | a save that is answered after the next edit | no edit is lost |
| Screens of the frontend, routers, schemas, reports | - | rendering, CRUD, text | little shared state | - |

How they interact: a request calls `start_batch`, which writes rows and publishes one
Celery task per cell (`publish_runs`); the task asks the tenant slots for admission
(`acquire_run_slot`), then calls `execute_run`, which writes the row step by step and the
cell at the end; a cancel writes the row and revokes the task; beat starts `dispatch_due`,
which claims due rows, publishes their tasks, and sweeps stale runs. Pages that list Kubernetes
objects read through the cache; every write of the pooled client bumps it in all processes. In a tab, a
login (`setSession`) puts the profile of the account in place (`activateProfile`) and starts a sync of its
settings (`syncLocalPrefs`); a logout (`clear`) pushes them a last time; a 401 of any request goes to
`markSessionExpired`. Both halves meet in the owner of the settings, which `LocalPrefs` and `AuthSession` each have.

The hazards the code is exposed to are listed with their lines in `PROJECT.json`.

## 2. Modules

| Module | Models |
|---|---|
| `CheckMatrixRun` | the life of the runs: rows, worker sessions, requests, cancels, the sweeper |
| `CellHistory` | the abstract specification of the cell and its history; `CheckMatrixRun` implements it |
| `TenantRunSlots` | the semaphore of one tenant |
| `CronDispatch` | dispatchers, operator and tasks of one row with a cron |
| `FireLedger` | the abstract specification of the fires of a cron; `CronDispatch` implements it |
| `SWRCache` | the cache of one cluster's lists in several processes |
| `SnapshotJobs` | one shared snapshot: the requests that poll it and the builds they start |
| `LocalPrefs` | settings, bases and archives of devices; syncs and pushes of tabs; the rows of the server |
| `AuthSession` | the session of one browser with several tabs |
| `ModalHistory` | the history of one tab and the records of modals in it |
| `MCCheckMatrixRun`, `MCTenantRunSlots`, `MCCronDispatch`, `MCSWRCache`, `MCLocalPrefs`, `MCAuthSession`, `MCModalHistory` | the small instances for TLC |
| `CheckMatrixRunProofs`, `TenantRunSlotsProofs`, `CronDispatchProofs`, `SWRCacheProofs`, `SnapshotJobsProofs`, `LocalPrefsProofs`, `AuthSessionProofs`, `ModalHistoryProofs` | the theorems |

### CheckMatrixRun

`state`, `verdict` and `overdue` are the row: `run_state`, whether `status` holds a
judgement, and whether its age is past the cut-off of the sweeper. `pc`, `seen`, `next`,
`upserts`, `streamed`, `steps`, `tries` are the task: where it is, what its SQLAlchemy
session has in the identity map ("expired" after a commit or rollback), and what its open
transaction will write. `rq`, `fresh`, `plan`, `broken`, `marking` are the API requests in
`start_batch`/`publish_runs`, `cn`, `cnQueued`, `cnRunning` those in `cancel_runs`.
`result` and `resultLog` are the cell and its history.

PostgreSQL runs under READ COMMITTED and the code takes no row locks. So a read and the
write that relies on it are separate steps, and an ORM flush is two: the SELECT of the
`before_flush` guard `_keep_cancelled_runs` and the UPDATE (`Start`/`StartCommit`,
`Judge`/`FinishCommit`, `MarkRead`/`MarkWrite`). The ORM writes a column only if it differs
from what the session loaded (`Written`), and a commit expires what it has loaded: both
matter for what a cancel meets. An upsert executed before the flush is committed with it.
The sources of a cell differ in when the cell is written and which steps are reported;
`addon` and `batch_job` are both "short", `manual` cells are never executed.
Celery acknowledges early (the default), so a lost task is not run again (`TaskLost`).
`cancelAt` is history: where the writers of the row were when the cancel was committed.

### TenantRunSlots

Time is counted in retries of 15 s; a ZSET score is the ticks left until it. `Live` is what
the purge at the head of the Lua script leaves. `Acquire` is one script call, atomic in
Redis, with the calls after it that may fail. `Die` is every way a task can end without
its `finally`. `MayRun` is Celery's hard time limit. `later` is history: who was granted a
slot since a task's first attempt.

### CronDispatch

A cron expression is the set of its fire times; time is a counter that each reading of the
clock advances, as timestamps have microseconds. `seen` is the row in the dispatcher's
session: the commit inside `_claim` for an earlier row expires it, so `Reload` may replace
it, unfiltered, until it is evaluated. `row.kind` separates the three kinds of rows: editing the cron of a cell or
cluster moves `last_run_at` to now (`resets`), editing a definition does not; the task of a cell looks at its schedule
again before it runs (`rechecks`), those of a cluster and of a definition do not.
`Publish` is one send of `apply_async`. The broker connection has a `socket_timeout` and a publish retry policy
(`celery_app.py:33-35`), so a send that has landed may look lost and be repeated: `sent` counts the messages of a claim,
`queue` holds those in the broker, and nothing removes a duplicate. `epoch`, `saved`, `claims` and `executed` are history.
`FireLedger` says what all of this is for: a fire (its time and the epoch of its cron) is claimed when its time has come, after the
earlier ones of its epoch and once, in a batch; and a batch runs at most once for each time that it may be sent. In the mapping
(`Ledger`) what is pending of a batch are its messages in the broker and those a dispatcher may still send; an answer
that arrives, dying, losing the message and finding a cell switched off drop them.

### SWRCache

The cluster is a version number that `Write` raises; the epoch a bump publishes is
represented by the version it follows, since only the equality of epochs is used. `Start` and
`ReadRemote` are the two unlocked reads of `_epoch`; `Hit`, `ServeStale`, `Join` and `Own` are the
ways through the locked part of `get`; `Fetch`, `Finish` and `Fail` are `_run`, in the thread
of the reader or of the executor (a pair of process and key). `Fetch` is the first page, whose version the others share; from
reading the epoch to `Finish` a lookup may take any number of ticks: it waits for the executor and for
slots of the cluster, and `_load_paged` reads up to ten pages, each with its own timeout (`routers/k8s_resources.py:664-676`).
`took` in an entry is history: how long its lookup was. `LoadLimit` bounds no lookup; it says which are in time. `BumpLocal` is locked, `BumpRemote` is the call
to Redis after it. Any call to Redis may fail, which the store turns into "no epoch". `floor`
is what a get was promised when it started: the writes its own process has bumped and, if Redis
answers it, those whose bump has reached Redis. Ages (and `took`) count ticks and saturate. The cache is
shared by several clusters only in its limit on entries, so one cluster is modelled.

### SnapshotJobs

A job is a request of one process and, if it wins the lock, its build; its name is the token.
`lock` and `ttl` are the Redis lock, `meta` the record with the age of its `heartbeat_at`. `pc` is
the thread of the request (`Poll`: read meta, release the lock of an orphan, SET NX, announce),
then of the builder (`Progress`, `End`); `beat` is the heartbeat thread (`Heartbeat`), and `writer`
which of the two is in `write_meta`, under the lock of the progress. Every Redis command is a
step, so each check is separate from the write that it guards: `release_lock` and
`renew_lock` are GET then DEL or SET, `write_meta` looks at the lock before it writes,
`put` and the announcement of a build overwrite `meta` whatever it has become. A process that
keeps up beats within `Pace`; one of `Slow` may hang anywhere, once; any may die.
`stuck_timeout` is long against the rest, so a build may pass it at any moment. A snapshot
that is ready may be asked for again at any time (`force`), so "ready", "error" and "none" are one status.

### LocalPrefs

`live`, `owner`, `archive` and `base` are the four kinds of keys in the localStorage of a device, `who` the account
signed in there, `server` the rows `local_prefs`. `page` is the life of a document: `main.tsx` awaits a sync
("booting") before it loads the application ("starting"), whose store puts the account's profile in place and may
have to reload ("leaving"). `sync` and `push` are the runs of the two asynchronous functions, cut at each
`await`: the GET is answered (`SyncRead`), merged and perhaps followed by a PATCH (`SyncMerge`), applied (`SyncPatch`),
and its answer becomes the base (`SyncSave`). A sync reads the base before its first await and uses it after; a push
adds to the base as it is when the answer comes. `SyncRead` may also answer an empty row: the server does so, with status 200,
when its database fails (`local_prefs.py:70-76`). `Activate` is `activateProfile` with the three places at which a full storage
makes it throw: before anything is changed (86, 91), when only some settings of the new account are back (97), and when
they all are but still belong to the old one (101); `failed` is history. What `await` does not cut is one step. A request outlives its page
or its time limit in `wire` and may arrive late, out of order, or never. Values are named by their edit, so
that a value says which account made it where: `AccountsStayApart` and `BaseWasOnServer` are about nothing else. `known` is history.

### AuthSession

`shared` is the pair of keys in localStorage, `own` the one in the sessionStorage of a tab, `mem` the copy in
`useAuthStore`, `events` the storage events on their way. A task of a tab is one step up to its first write to
localStorage; each further write (`rest`) is a step of its own, so another tab can read a token whose
user is not there yet. `TakesOver`, `FollowToken` and `FollowUser` are the decisions of `markSessionExpired` and
of the storage handler; `calls` is a request whose 401 may come at any time after its token has become
invalid, also when the tab has a new one. `refreshSession` is cut at the Web Lock, at the POST and at its answer. A token is a
number, its user and the generation of the password at login, which `get_current_user` compares.

### ModalHistory

`stack` and `cur` are the browser's history, `going` the traversals asked for and not yet carried out; `entries`,
`deferred`, `queue`, `selfPops` and `lastIdx` are the variables of `modalHistory.ts`. `Run` is one operation of the queue,
`Traverse` a popstate with all that it closes, `Check` the timer that gives a modal that refused to close a new record.
`RunRelease` keeps the three ways of taking a record back: together with those put off below it (`Reach`), put off
because another modal is open above, or left where another record has taken its place. A modal stands for one opening.
`Close` closes a modal with those that are inside it, `Navigate` and a popstate that leaves the screen all of them; React runs
the effects' clean-ups of one commit in an order the modals do not choose, so `Releases` has every order. A used entry of
`deferred` stays in its sequence as `NoEntry`, which no search finds. `hasty` is history: somebody did something in the
milliseconds of a traversal.

## 3. Runs

| Run | Instance | Shows |
|---|---|---|
| `run_deep` | one manual and one cron run of a deep check on one cell, a request, a cancel, one retry, one step | types; a cancel sticks; an early cancel never executes; only judged runs write cells; verdicts are logged; the abstract history |
| `run_mixed` | two manual runs in a batch over a cell of core_bundle and one of a playbook, fairness | the abstract history for the sources that commit differently; every run ends |
| `slots` | three tasks, limits 0, 1 and 2, Hold = MaxWait = 2, TaskLimit = 1 | the limit, the holders, the starvation bound |
| `cron` | two dispatchers, the three kinds of rows, crons {2,4} and {3}, clock to 5, window 2, two sends per claim | claims, repeated sends, executions, edits; the ledger of fires |
| `swr_shared` | two writing processes, two readers of one, one key, two writes, Redis that may fail, lookups of any length | no get serves what a bump promised away, from a lookup of its own or an entry whose lookup ended in time; a lost bump heals in time; one lookup per key |
| `swr_answers` | two keys, room for one entry, no writes, fairness | the dictionary is bounded; every get returns |
| `snap_owner` | two jobs, one may hang, expiry 3, pace 1 | a live owner looks alive; no heartbeat after the end |
| `snap_recovers` | two jobs that do not hang, fairness | orphans are taken over; a live build's record is restored |
| `prefs_merge` | two devices with a tab each, two accounts, one setting, two edits, two logins, one failure (of a request, a read or a change of profiles), fairness | a base is what the server had; where no change of profiles has failed unsent changes survive and accounts stay apart; all converge |
| `session_tabs` | two tabs, two accounts, two tokens, three events on their way, fairness | tabs follow the storage; a token is the user's; an old tab ends nobody; invalid sessions end |
| `modal_three` | three modals, two paths, back and forward, six records, three navigations | open modals are in the book; closed ones leave nothing to go back through; the module's own traversals close nobody |

One run reproduces a disagreement between the code and its own comments: `modal_skips`. A tab that comes back to the record of
a closed modal should move on in the direction of the user (`modalHistory.ts:17-18`), but `lastIdx` is not kept up when a
screen pushes a record of its own, so the tab may go forward, to the page the user comes from (line 99).

TLC finds more sentences of the repository violated. They have a definition in the last section of their module and can
be reproduced by naming it in the cfg of the instance given:

| Property | Instance | Says | Does |
|---|---|---|---|
| `CheckMatrixRun!CancelledKeepsCell` | `run_deep` | a cancelled run does not overwrite the cell | the upsert is committed although the guard reverts the run |
| `CheckMatrixRun!CancelledEntersNoStep` | `run_deep` | a cancelled run stops before the next step | the check compares an attribute its own commit expired |
| `CronDispatch!FireRunsOnce` | `cron` | a cell is not queued twice (`_claim`; `CHECK_MATRIX_GUIDE.md:113-114`) | a send that landed and whose answer is lost is repeated by the publish retry policy (`celery_app.py:33-35`): two messages, two runs |
| `SWRCache!BumpsInvalidateAll` | `swr_shared` | a bump invalidates what is cached, in every process (`swr_cache.py:7-9`) | a lookup reads "no epoch", a write is bumped, the epoch expires, and then the lookup ends: its entry, older than the bump, matches "no epoch" again |
| `SnapshotJobs!LateErrorsAreIgnored` | `snap_owner` | an error after a takeover does not replace the state of the new owner | the error path only tests a flag that the next heartbeat would set |
| `LocalPrefs!OnlyOwnChangesArePushed` | two devices of one user, two keys, no failures | while the page is up a device sends only keys it has changed itself (`localPrefsSync.ts:10`, `CHANGELOG.md:520-522`) | the answer to a PATCH of a sync is the whole row and becomes the base (163), but what it brings from other devices is not put in place: the next push sends the old value back (and after a GET answered with an empty row, the removal of keys that the merge has taken away here) |
| `LocalPrefs!AccountsStayApart` | `prefs_merge` with both tabs on one device | the settings of one account do not reach another's row (`localPrefsSync.ts:53`) | a tab whose sync waits for the server merges into the profile another tab has switched to |
| `LocalPrefs!FailedSwitchKeeps` | `prefs_merge` | if the change of profiles fails nothing is deleted and the settings stay as they are (`personalStorage.ts:77-78`, 105) | only line 91 is before the removal of 92: a storage that is full at 97 or 101 leaves none, some or all of the other account's settings under the old owner, whose own stay in an archive that nothing puts back, and that the next change of profiles overwrites |
| `AuthSession!LiveSessionsStay` | `session_tabs` without fairness | the session of other tabs outlives that of an old one (`CHANGELOG.md:503`) | a late 401 of a token that has been replaced meets the tab's new token, and ends the shared session (`authStore.ts:180-211`, `api.ts:156`) |
| `AuthSession!RefreshKeepsAccount` | the same with three tokens | a refresh continues the session of the same account (`authStore.ts:94-95`) | a refresh that is answered after the tab has logged out, and in as another, puts the old account back (`useSessionExpiryWatch.ts:59`) |
| `ModalHistory!ScreensSurvive` | two modals, one path, one navigation | taking records back removes no screen (`modalHistory.ts:10-16`, 161-162) | only the current record is looked at (163): a modal, a link on the same path, a second modal over it, and both closed at once, the lower first: go(-3) passes the screen of the link |
| `ModalHistory!OnlyClosedAreTakenBack` | three modals, one navigation; or six modals, four records, none | the record of an open modal is not taken back (`modalHistory.ts:9-10`) | an entry of `deferred` survives the record it stands for (158, 167-173), and a later modal may have pushed its own at that place |
| `ModalHistory!BackKeepsTheScreen` | three modals, two paths, three navigations | "back" closes the modal before it leaves the screen (`modalHistory.ts:3`) | the same: the modal whose record was taken back stays open, the next back leaves its screen |

More of the same kind have no property: a cancel that commits between the guard's
SELECT and the UPDATE of a flush is overwritten (`check_matrix_service.py` 2157), a cancel overwrites
a success committed after it read the row (2209), two overlapping requests queue one cell
twice (2042), a get joins a lookup that began before the write it should see (`swr_cache.py` 88),
two builds may overwrite each other's lock for as long as their GETs and SETs alternate
(`snapshot_jobs.py` 233), a navigation in the milliseconds
a traversal takes may make the module go back too far (`modalHistory.ts` 146-176), a nested record of a closed modal is not skipped while the tab waits for a traversal of its own
(`modalHistory.ts` 94-97), and the push of a hidden tab may overtake an older one (`localPrefsSync.ts` 182).
The passing runs contain these behaviours, and their properties hold in spite of them.

Bounds. `MaxTries`, `MaxSteps` and the number of runs bound `CheckMatrixRun`: each run has
one worker session, so two runs are enough for every pair of writers of a cell, and the row
of one run is written by at most a request, a task, a cancel and the sweeper, all present.
One retry and one step reach every branch that a second one would. In `TenantRunSlots` three
tasks exceed the largest limit by one; Hold > TaskLimit and MaxWait >= Hold keep the order of
the real constants (3600 s, at most 1860 s, 240 * 15 s). In `CronDispatch` two dispatchers
overlap in every way, the fires of the two crons lie between each other, and five ticks let both
fire, an edit fall in between, and a slow dispatcher act late; the second of two sends stands for any repetition (the code has up
to three). In `SWRCache` an epoch that lives two ticks against entries that are served for one keeps the order of the real
constants (180 s and 30 s): in time is a lookup that ends in the tick in which it began (in the code one of less than 150 s),
longer ones, with their age saturated, are all late; two writes
let two bumps overtake each other, and one reader less could not join. In `SnapshotJobs` two jobs give
an owner and the one that takes over, or two that do so at once; 2 * Pace < Timeout keeps the order of the real
constants (a beat every 15 s and its calls, 90 s). In `LocalPrefs` two devices are what a merge is about, a second account what
a switch is about; two edits let a change meet one of the other device or follow one that is still under way, two logins
let both devices be of one account or one device change hands, one failure leaves a request on the wire, an empty row, or a change of profiles half done. One setting
suffices since keys are merged one by one. A login waits for the end of the tab's last sync; one push slot
leaves out the push of a hidden tab beside another one. In `AuthSession` two tokens are an old and a new one, and three events let a
tab be behind by a whole login; the last request of a tab stands for all that may be refused. In `ModalHistory` three modals are
what it takes to put two records off below a third, and to close several at once in an order that matters; six records and three
navigations let the history be built up, gone back and cut again. Two modals would be too small: with two, the last two
sentences of the table above hold, although they are false. What `modal_three` checks
is proved for every number of modals and navigations (section 4). Deadlock is not checked where
the system may stop: when the finite set of runs has ended, at the bound of the clock, and of the history.

Fairness. `run_mixed`: a live worker goes on (its process is scheduled,
and Celery's hard limit kills one that hangs), the minutely sweeper runs, time passes.
`swr_answers`: threads that can go on are scheduled, and a lookup ends, as it makes at most ten
requests, and the client injects a timeout into every one. `snap_recovers`: threads are scheduled, time passes, a page polls while it
shows a computation, and the heartbeat gets the lock that the builder takes at most once a second
(strong fairness of `Heartbeat`); a builder need not end, and anyone may die.
`prefs_merge`: browsers and the server go on with what has begun, and a page is opened again some time (`Reload`), which is
what "converges" is about: no device hears of another's changes before. `session_tabs`: tabs finish their tasks, browsers deliver
events and run timers, a screen polls and its requests are answered; refreshes need not end. `modal_three` states safety only.
Otherwise nothing is assumed of users, of the broker or of the publishing request.

Every property of a passing run is broken by a mutant of the code that it is about (the
operators commented "Mutant of"): a dropped guard, a lost re-read, an off-by-one.

## 4. Proofs

All proofs are of `Spec` without fairness and use only the named assumptions on the constants.

* `CheckMatrixRunProofs`. `IInv` strengthens the properties with what each session may
  hold: what a worker has seen of its row and what it will write, that the rows a request will
  publish are queued or cancelled and have no task yet, and that a pending upsert belongs
  to a run that is not in the history. `Inductive` shows it is preserved, one lemma per group
  of actions. From it: `TypeCorrect`, `CancelSticksAlways`, `EarlyCancelNeverExecutes`,
  `OnlyJudgedRunsWrite`, `VerdictsAreLogged`, and the refinement `ImplementsHistory`.
* `TenantRunSlotsProofs`. A holder's score outlasts the rest of its time limit
  (TaskLimit < Hold), so purges never take it, so the script's count bounds the holders.
  `LeaksNeverStarve` assumes MaxWait >= Hold and uses that a slot older than the wait has expired.
* `CronDispatchProofs`. `_claim` compares `last_run_at` and nothing else. What makes that
  enough is that no timestamp is written twice (`FreshInv`): an equal anchor then means an
  unchanged chain of claims (`ChainInv`), whose claims are intervals one after the other
  (`DisjointInv`). `AnchorInv` and `CoverInv` hold where edits move the anchor, and give
  `NoFireSkipped` and `FiresOnlyAfterEdit`. `RunInv` says that a message of a claim is in one place: still to be
  sent by the dispatcher that has won the claim, in the broker, or carried out; with `DisjointInv`, `RepeatsAreResends`: a fire has a second run
  only by another message of the same claim, and no message runs twice. `FilledInv` says that a claim has a fire and reaches
  no further than the clock; then different claims are different batches (`RunsDiffer`), and each step is one of `FireLedger` or none of its
  business (`LedgerStep`): `ImplementsLedger`.
* `SWRCacheProofs`, for any number of processes, readers, keys and writes. `FlightInv` ties `stage` to `inflight` and gives `SingleFlight`;
  `CacheIsBounded` is inductive with the types. `RecentInv` bounds the age of what is older than the cluster, by the age of its
  entry and the time its lookup took, and gives `RecoversByTtl`. `BumpedWritesAreSeen` needs four more: a value read under the local epoch of now contains the writes that
  moved it (`LocalInv`), no process knows the epoch that a pending write will publish (`NewInv`), a value that misses a published
  write has another epoch than Redis, and, if its lookup ended in time, is gone before that one can expire (`RemoteInv`), so that what matches
  the epoch a get has read is new enough for it (`FloorInv`). For late lookups it is false (section 3).
* `SnapshotJobsProofs`. `ClosedInv` says what threads may be left once `_stop_heartbeat` has
  returned, `EarlyInv` that a token is in no record before it is announced, and `AgeInv` that the
  age of a record is at most its builder's clock plus `Pace`. With 2 * Pace < Timeout they give
  `LiveOwnersLookAlive` and `DoneStays`.
* `LocalPrefsProofs`, for any number of accounts, devices, settings, overlapping pushes and failures. `KnownInv` says that
  what a sync has got, what a push has in its answered delta, and every base are values the server has had (an empty row is one that
  it began with, `EmptyKnown`); `BasesAreKnown` follows.
  `PlaceInv` says that, where no change of profiles has failed, a sync under way is one for the owner of the settings there, and who
  works is their owner; with it a merge replaces only what the server has had. `ArchiveInv` says that the owner of the settings has no others in an archive, so that
  archiving them overwrites nothing: together `ChangesSurvive`. `MineInv`, for as long as nothing has failed, gives whose values each
  profile, archive and delta holds, and with `PlaceInv` `AccountsApart`.
  The latter two assume `OneTabPerDevice`: with two tabs accounts do mix (section 3). They say nothing of a device (`AccountsApart`: of any)
  once `activateProfile` has thrown there: then settings mix and changes are lost.
* `AuthSessionProofs`, for any number of tabs, accounts and tokens. `OldTabEndsNobody` needs that what the server has refused stays
  refused: a password is never older than a token that is around (`KnownInv`), so a refusal that is answered late is still true of
  the token it was about (`RefusedInv`). Two invariants about tabs and storage need five parts that hold together only: what a task
  may still have to do (`TasksInv`), that one tab at a time is between its two writes and will write the user of the token that is
  there (`SharedInv`), sessions of a single tab (`ScopedInv`), tabs whose session ends while they refresh it (`LostInv`), and that
  a tab which shows another token or user than the storage has an event on its way that will tell it (`FollowInv`). The steps of a tab are
  first shown to be of five kinds (a first write, a second, a reload, a step of the tab alone, a delivery), so that each part is proved
  for five steps. From it `TabsShareOneSession` and `UsersMatchTokens`.
* `ModalHistoryProofs`, for any number of modals, paths, records and navigations. `ListedInv`: an open modal that is not in the book has
  a push in the queue, or a timer that will ask for one; hence `EveryOpenModalIsListed`. `QuietInv` is about the time before the first
  navigation: only the module traverses, one traversal at a time, and all records above the screen are marks (`Shape`); no modal is pushed
  twice (`Once`); and every record up to where the tab is, or will be after the traversal, is that of a modal in the book, will be released by the queue,
  or was put off, the topmost one of the first two kinds (`Owners`). `ReachBelow` shows that the search of `release` through `deferred`
  stops exactly at the first record that nobody has put off, so that the traversal ends on one with an owner:
  `NoStaleRecordOnTop` and `OwnTraversalsCloseNobody`. Their condition that nobody has navigated is what the
  code supports: after a navigation what the stronger sentences of section 3 say is false.

Proved although no run states it, or for more instances than the runs have: `ClaimsMoveForward`, the types of `LocalPrefs`, `AuthSession` and `ModalHistory`, and
`EarlyCancelNeverExecutes`, `OnlyJudgedRunsWrite`, `VerdictsAreLogged` for all sources (also addon, "short").

Only model-checked: `EveryRunSettles`, `EveryGetReturns`, `OrphanIsTakenOver`, `RecordIsRestored`, `Converges`, `InvalidSessionsEnd`
(liveness is beyond the prover). Every safety property of the passing runs is proved. `CacheAssumption` does not bound lookups: it defines which are
in time (`Stale + LoadLimit < RemoteTtl`: their entries are gone before an epoch published meanwhile expires, reads as "none" and could
equal an old one), and what is promised of entries is promised of theirs.

## 5. Not modelled

See the components of `PROJECT.json`. In the modelled ones: manual cells, retention and
seeding, the recomputation of the cluster status after a verdict, the tenant's waiting list,
redelivery by the broker's visibility timeout, loss of Redis data, clock skew between hosts; of the cache that
reads with `resource_version="0"` (`_WATCH_CACHE_KINDS` in `routers/k8s_resources.py`) may come from a watch cache that lags
behind the writes; of
the snapshot jobs the results, the views, the memory mode and the fallback to it; of the settings the keys that are never
synchronised, the limits of size, the pruning of archives, a storage that is full when a sync stores values or its base; of the session the texts shown, its largest age and
`clearSessionSecrets`; of modals a traversal that takes longer than `POP_TIMEOUT_MS`.

Most of the 150,000 lines of the frontend are screens: rendering, forms and calls of the API whose state is that of one component.
A model of them would restate the code, so most of the code stays unmapped. What remains to be
modelled there is what callbacks and tabs share: the autosaved documents.

## 6. Plan

Done: check matrix runs, tenant slots, cron dispatch, cache, snapshot jobs; settings, session and modals of the browser.

1. Proofs: an abstract specification of the cache (a register whose reads are as new as the bumps a reader has heard of) and of
   the tenant's slots, and that the modules implement them.
2. Batch job dispatch and execution beside `CronDispatch`; the autosaved documents.
3. The memory mode and the fallback of the snapshot jobs.
4. Composition of `CheckMatrixRun` with `TenantRunSlots` (slots leaked by a cancel), of `AuthSession` with `LocalPrefs`.
5. The per-cluster request limit and the trend collection lock, variants of `TenantRunSlots`.
6. Efficiency apply and rollback; the alert pipeline; namespace migration.
