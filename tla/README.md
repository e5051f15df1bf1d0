# Verification of the AI worker bridge

TLA+ models of `src/ai_bridge` (an asyncio server that turns calls to
OpenAI-compatible workers into durable tasks) and of `src/ai_watchdog` (a
command line tool that waits for such a task), TLC runs over small instances,
and TLAPS proofs for every size. `PROJECT.json` maps each definition to the
lines it models and lists the runs, hazards, findings and theorems.

## 1. The system

| Component | State | Operations | Talks to |
| :-- | :-- | :-- | :-- |
| task state machine, `task_state.py` | - | `transition`, `next_attempt`, the transition table | used by store and manager |
| durable store, `store.py` | sqlite table `tasks`, one row per task | `upsert`, `create_or_get`, `get`, `count_by_states`, `mark_recovering` | called by the manager, every call one commit |
| task manager, `manager.py` | `_background` (one coroutine per live task), gate `_sync_limit`, `_lock` | `start`, `stop`, `call`, `check`, `cancel`, `_run_task` | store, worker registry, metrics |
| worker registry, `workers.py` | per worker: semaphore, active counter, circuit, health cache | `call`, `assert_available`, `record_*`, health probes | workers, over HTTP |
| server, `server.py` | current config, manager, registry | HTTP and MCP requests, `_reload_config`, lifespan | manager, registry, auth |
| permissions and paths of a worker, `permissions.py`, `config.py` | the paths configured | `load_config`, `resolve_working_directory`, `path_is_allowed` | manager, the filesystem |
| auth, metrics, audit | - / counters | pure checks and text | server, manager |
| watchdog, `watchdog.py` | deadline, count of errors in a row | `wait_for_task`, `check_task`, `sleep_until_next_poll` | bridge, over HTTP |

What is hard here, and what therefore has to hold:

* **Crash and restart.** The table is all that survives. A task may be lost in
  no state, and a worker may be asked twice for one task only where the
  recovery policy says so.
* **Several writers of one row.** `cancel`, the coroutine, its cancellation
  handler and recovery all rewrite rows they read earlier, across suspensions
  of any length. A terminal row must stay as it is, every change must follow
  the table, and each end must be counted once.
* **Lost answers.** Clients retry with an idempotency key; all answers for a
  key must name one task.
* **Limits.** Queues, the gate, semaphores and counters meet cancellations at
  every suspension point. No permit may be lost, duplicated or left idle.
* **Failing writes.** sqlite may refuse any commit. The row stays as it was
  while the coroutine, the handle and the answer to the client go on.
* **Another database.** An operator changes `state.sqlite_path`; a restart or
  a reload puts another table in service, perhaps one with interrupted tasks.
* **Stale health.** Listings queue behind probes that take their time; what
  they serve must be fresh for them and about the right worker.
* **Paths.** Wildcards, prefixes, dots, double slashes and links meet each
  other in a comparison that decides where a worker may write.
* **Circuit breaker.** Overlapping calls return in any order and record both
  successes and failures.
* **The watchdog's clock.** Deadline, sleep, request timeout and the budget of
  errors meet at their boundaries while the task moves on.

## 2. Modules

| Module | Models |
| :-- | :-- |
| `TaskState` | states, groups and transition table |
| `TaskManager` | store, manager and process lifetime; requests, coroutines, crashes, restarts |
| `DurableTask` | abstract: what the bridge promises about a task |
| `TaskManagerProofs` | theorems about `TaskManager`: handles, rows, replays, attempts, answers, counters, keys, limits, orphans, the contract |
| `AsyncSemaphore` | external: `asyncio.Semaphore` of Python 3.12+ (the image is `python:3.12-slim`) |
| `WorkerRegistry` | gates, semaphores, active counters and circuits under overlapping calls |
| `Reload` | reloads of the configuration under running calls, with the same or another database: managers with their gates and registries side by side |
| `AsyncSemaphoreProofs` | lemmas about what each operation does to a semaphore |
| `WorkerRegistryProofs` | theorems about `WorkerRegistry`: circuits, permits, counters, wake-ups |
| `ReloadProofs` | theorems about `Reload` |
| `Databases` | exchanges of the database by restarts and reloads, around `TaskManager` |
| `DatabasesProofs` | theorems about `Databases` |
| `Health` | the cache of health probes, its lock, overlapping listings |
| `HealthProofs` | theorems about `Health` |
| `Permissions` | the paths of a worker and the directory of a prompt |
| `PermissionsProofs` | theorems about `Permissions` and its matching |
| `Watchdog` | the polling loop against a task that moves |
| `WatchdogProofs` | theorems about `Watchdog` |
| `MCTaskManager`, `MCDatabases`, `MCWorkerRegistry`, `MCReload`, `MCHealth`, `MCPermissions` | symmetry sets and values for TLC |

`TaskState` is extended by `TaskManager`, `DurableTask` and `Watchdog`.
`TaskManager` instantiates `DurableTask` under a refinement mapping. `Reload`
instantiates `WorkerRegistry` once, with triples of a manager, a registry and a
worker id as its workers: two registries share nothing but the gate of a manager
that has both, one after the other, so all of them together are one. `Databases` extends `TaskManager` and keeps the tables that are not
in service; it instantiates `TaskManager` once more with all tables together as
the store, so that the contract can be asked of the whole. `Health` uses the
same semaphore as `WorkerRegistry`, an `asyncio.Lock` being one with a single
permit as long as nobody is cancelled. The two halves, tasks and calls,
meet at one point: `TaskManager` lets a worker call be posted, be
answered or fail at any time, and `WorkerRegistry` says what happens to calls
between their start and their end and that they do end (`CallsEnd`).

### Atomicity

The bridge is a single event loop, and neither the sqlite calls nor an
uncontended `asyncio.Lock` suspends; no holder of `manager._lock` suspends
while holding it, so that lock is never contended. One action is therefore the code between two awaits that really
suspend. The suspension points of a task's coroutine are its creation, the
recovery delay, the wait for the worker (semaphore and connection) and the
POST: the values of `bg` are `created`, `sleeping`, `calling`, `posted`. Within a step a
crash can fall between two commits. Where that leaves a state of its own it is
an action of its own: `MarkRecovering` commits one row at a time, and
`CrashBetweenWrites` is the crash between the two writes of a row without a
directory. `held` is the coroutine's local copy of its row.

Where `StoreFails` is TRUE, any write may raise `sqlite3.Error` instead. What
follows is in the code that catches it: `DispatchNotSaved` (the row is not
written as Running, the handler fails the task or cannot), `CancelNotSaved`
(the coroutine was cancelled already, the row was not), `Lose` (the coroutine ends
and its end cannot be saved). `lost` remembers the tasks of this process that
met such an error; a restart forgets them and recovers their rows.

A reload to another database (`_reload_config`) is refused while a coroutine
is live; without one, `stop()` has nothing to wait for and the whole reload
runs without a suspension. It is therefore one action, `ReloadState`, after
which the process is `starting` again and marks and schedules what it finds.
`ReloadState` of `Reload` is the same step seen by the calls: a synchronous call
is no coroutine of a task, so it does not stand in the way of such a reload.
When the new manager cannot start, the old one stays in service
(`ReloadStateFails`): it was stopped, but `call` does not look at `_started`,
so it serves on, and nothing tells the difference.

### State and code

| `TaskManager` | Code |
| :-- | :-- |
| `store` | table `tasks`; `dispatch` and `result` hold the number of the attempt instead of a uuid or an answer |
| `phase`, `boots` | the lifespan of the server: down, in `start()`, serving, in `stop()` |
| `bg`, `cancelled` | `_background`; handles whose `cancel()` was called and not yet delivered |
| `finished` | `inc_task_completed` of this process |
| `posts`, `answers` | what workers received and clients were told (observers) |
| `Submit`, `SubmitAgain`, `SubmitRaises` | `call(mode="async")`: new row, row found, UNIQUE violated |
| `Begin`, `Dispatch`, `DispatchFails` | `_run_task` up to `workers.call` |
| `Post`, `Complete`, `CallFails`, `CancelDelivered` | the call, its answer, the exception handlers |
| `Boot`, `MarkRecovering`, `FinishStart`, `StopBegin`, `StopEnd`, `Crash` | process lifetime |
| `lost` | tasks whose coroutine met an sqlite error in this process (observer) |
| `path`, `db`, `shelf` of `Databases` | `state.sqlite_path` in the file, the database in service, the tables of the others |

A row of `Legacy` was written before the columns added in `store.py:49-55`
existed: it has no directory, attempt count or dispatch id, but it may have a
key, which is an older column, and be replayed for it. Such a row is the only one that is resolved after a restart, the only one for which that can
fail, and the reason for `DispatchFails` and `CrashBetweenWrites`.

In `WorkerRegistry` a call is `idle`, at the `gate`, `queued` at a semaphore
or `posted`; `Under` says which manager's gate leads to a worker, and in the runs
of `WorkerRegistry` there is one. `Reload` adds `manager`, the manager in
service, and `workers`, the registry of each manager, and gives a call that
waits at a gate the registry that its manager has when the wait is over, as
`call` does. In `Health` a lister is `idle`, `waiting` for
the lock, `holding` it or `probing`; `asked` is the `now` of
`_health_snapshot`, read before the wait. `up`, `open` and `seen` record only
what is true of workers while they are probed, since nothing else can be told
from outside. A path of `Permissions` is its pieces and its leading slashes; a
call is one step, since nothing in it suspends. What `Path.resolve` finds is
external: `Dirs`, the places that exist, and `Real`, where the links lead from
the pieces of a path. `Resolve` only asks whether that place exists, so the
proofs hold for any links at all; `MCPermissions` works `Real` out from three links. In `Watchdog` time is counted in
ticks; a request takes up to `RequestTimeout` ticks in two parts, before and
after the bridge reads the row.

### Slips

Operators marked "Slip:" are plausible mistakes in the definition that follows
(a dropped guard, a swapped order, a missing reset). Each property of a passing
run is violated when its slip replaces that definition (`mutants` in
`PROJECT.json`), so each property depends on the code it is about.

## 3. Runs

| Run | Bounds | Question |
| :-- | :-- | :-- |
| `TaskManager_idempotent` | 3 ids, 1 of them legacy, a key and the key "", 2 process lives, delay, sqlite errors | safety under the default policy, and the refinement of `DurableTask` |
| `TaskManager_settles` | 3 ids, with a key or without, default policy, 3 lives, queue of 2, 1 active task, fairness | every task settles or is deferred; repeated dispatches are on record; the queue |
| `Databases_reload` | 2 databases, 2 ids, 1 of them legacy, manual policy, 3 lives, sqlite errors | the contract over both databases; nothing is stranded; the one in service is recovered |
| `WorkerRegistry_calls` | 2 asynchronous and 2 synchronous calls, workers of capacity 1 and 2, fairness | permits, counters, circuit; every call gets its turn; deadlock |
| `Reload_calls` | the same calls, two reloads of either kind, one worker of capacity 1 in three configurations, the second lacks it; fairness | permits of replaced gates and registries return, calls end, each enters the registry its manager has |
| `Health_cache` | 2 listers, 2 workers, cache of 1 tick, 4 ticks, fairness | what is served is fresh and true, probes are shared, listings end; deadlock |
| `Permissions_calls` | about 90 lists of paths of up to 4 pieces, about 170 directories of up to 5, a filesystem with links to links and to themselves | comparison agrees with a definition that has no algorithm; canonical mode leads nowhere else |
| `Watchdog_poll` | 7 ticks, interval 2, request 2, 1 error, fairness | the verdict is right, in time, and comes |

Why the bounds are enough to meet the cases of interest. With a queue of one
or two and three ids, a full queue, a refused submission and a repeated key occur
together. Two lives contain every interruption followed by a recovery; three
lives, in `TaskManager_settles`, a task that is interrupted, recovered and
interrupted again, at any step of its recovery too, and there the rows without a
key are deferred and stay in the queue while those with one are replayed; in
`Databases`, both databases interrupted and each met again. The policy "always"
is left to the proofs: under it every row is treated as one with a key is here.
`MaxBoots` also bounds crashes and stops: a process that could not be started
again is not killed, so that every interruption is followed by its recovery.
Four calls to a worker of capacity 1 leave a queue in which one waiter was
granted the permit and others wait behind it; the worker of capacity 2 has
overlapping calls that record their ends in any order. Two reloads make calls
of three registries, under up to three managers, overlap, and take the worker
away from a call at the gate or bring it back before the call looks. In `Health` four ticks let an entry become
stale while a second lister waits, and again after it was served; two workers
are stale together or one by one. A pattern with two asterisks around and
between other pieces is the smallest for which matching has to try again;
patterns and directories of `Permissions` hold it. In the watchdog 7 is not
a multiple of the interval, so that the last sleep is cut, and an odd number of
requests fits.

Symmetry (`TaskManager_idempotent`): task ids are fresh uuids and workers
differ in name only, so ids may be exchanged as long as legacy rows keep
theirs, which is what `MCSymmetry` allows. Liveness runs use no symmetry.
`CHECK_DEADLOCK FALSE` stands where the system really may stop: a bridge whose
last permitted life has finished all its tasks and whose ids are used up, and a
watchdog that has exited. The other modules never stop, and their
runs check for deadlock.

### Fairness

* `TaskManager`: the event loop runs each callback that is ready
  (`CoroutineStep`), startup proceeds, and the process is started again
  (`restart: unless-stopped`, `docker-compose.yml:6`). A call comes to an end:
  it gets its permit (`WorkerRegistry`, `CallsEnd`) and the POST is answered or
  meets httpx's timeout. No fairness for requests, crashes or stops.
* `WorkerRegistry`, `Reload`: a coroutine whose future is done runs, a POST ends. Nothing
  about cooldowns, new calls, cancellations or reloads.
* `Health`: a lister whose lock or probes have come runs, and httpx ends a probe
  (`health_timeout_seconds`). Nothing about the clock, workers or new listings.
* `Watchdog`: the process runs and a request ends. Nothing about the task.

### Findings

Each is a run that expects a violation of what the repository says.

| Run | What the code does | What it says |
| :-- | :-- | :-- |
| `TaskManager_stop` | a graceful stop writes Running tasks as Cancelled; only a crash is recovered from | `Running` -> `Recovering` (on restart), `ai_bridge/README.md:414` |
| `TaskManager_lost_failure` | a Pending row that cannot be resolved stays Pending without a coroutine | "must persist all worker failures", `manager.py:200` |
| `TaskManager_worker_active` | the limit is compared at submission only and can be passed | "worker active task limit reached", `manager.py:238` |
| `WorkerRegistry_malformed` | malformed answers never open a circuit | "Consecutive worker failures", `ai_bridge/README.md:115` |

More disagreements are modelled but have no run, since a run would only restate
one or two lines of code:

* The second submission with the key `""` raises (`SubmitRaises`): the code
  takes it for no key, the UNIQUE column for a key. The docstring of
  `create_or_get` promises "the existing idempotent task" (`store.py:108`).
* The watchdog exits with 0 for failed, cancelled and timed out tasks
  (`ExitCode`); its README's table says 1 (`ai_watchdog/README.md:70-73`).
* A connection that closes in the middle of a body ends the watchdog at once
  (`truncated` in `Deliver`): `http.client.IncompleteRead` is not among the
  errors it handles. "Consecutive 5xx/network errors allowed before giving up"
  (`ai_watchdog/README.md:32`) says otherwise.
* `assert_available` is asked before the wait for the semaphore and not after
  (`workers.py:187`, `Enter` and `Dequeue`): calls that queued earlier are posted to a worker whose
  circuit has opened, against "Cooldown before the bridge retries a worker
  with an open circuit" (`ai_bridge/README.md:116`).
* Every reload builds a registry with fresh semaphores while calls of the old
  one are out (`server.py:239`, `ReloadConfig`): a worker that takes one task at a time gets
  two, against "Per-worker async concurrency cap" (`ai_bridge/README.md:136`).
  `PermitsSurviveReload` shows that each registry by itself keeps its cap.
* `worker_list` shows no circuit state (`workers.py:70-90`); its documentation
  promises one (`ai_bridge/README.md:270`). `Health` models what is shown: an
  open circuit reads as "down".

Effects of a reload that no sentence of the repository speaks of:

* With the same database the gate keeps the size that `sync_active_tasks` had
  when the manager was made (`manager.py:38`), and a call that waited at it takes
  the timeout and the directory of the old configuration to the new registry
  (`manager.py:84-97`).
* With another database, a call that waits at the gate is left to the manager
  that was replaced: `has_active_tasks` does not count it, and the old manager
  gets no `update_workers` (`server.py:242-250`), so after its wait it enters the
  registry that was replaced together with that manager (`manager.py:93-94`),
  with the workers of the old configuration. `EntersCurrent` names this as the
  one way into a registry that is not in service, and `CallsEnd` says that such a
  call gets its turn all the same. The gates of the two managers together admit
  more than `sync_active_tasks` calls meanwhile.

## 4. Proofs

`TaskManagerProofs` proves, for all constants that satisfy
the assumptions of `TaskManager` (any number of tasks, workers, keys, lives, any
limits and policy, with or without legacy rows and sqlite errors):

| Theorem | Property |
| :-- | :-- |
| `TypeCorrect` | `TypeOK` |
| `HandlesCorrect` | `HandlesMatchRows` |
| `WorkedAtMostOnce` | `AtMostOnce` |
| `PendingIsUndispatched` | `UndispatchedIfPending` |
| `TerminalRowsAreFinal` | `TerminalIsFinal` |
| `TransitionsFollowTable` | `FollowsStateMachine` |
| `PostsOnlyForRunning` | `PostsOnlyRunning` |
| `NoTaskOrphaned` | `NoOrphan` |
| `ManagerKeepsContract` | `ImplementsContract` |
| `AttemptsAreOnRecord` | `AttemptsCoverPosts` |
| `DispatchesAreOnRecord` | `DispatchOnRecord` |
| `TasksCountedOnce` | `FinishedOnce` |
| `KeysNameOneTask` | `OneTaskPerKey` |
| `BacklogStaysBounded` | `BacklogBounded`, if no row is legacy and sqlite never fails |

The argument goes down to single tasks in three steps.

1. `TypeInv`: types, and no handle while the process is down.
2. `HandlesMatchRows`. This is what the rest hangs on: a coroutine that nobody
   cancelled finds its row in the state in which it left it. It rules out the
   stale write back after the recovery delay: only `cancel` writes the row of a
   sleeping coroutine, and it cancels the handle in the same step. A write that
   sqlite refuses keeps it too, since it leaves the row and ends the coroutine.
3. `Effects`: what any step may do to one task. Its row is kept, scheduled by
   a start, created, recovered, dispatched, posted or ended, and each of these
   says what becomes of state, attempts, dispatch, result, handle and counters.
   The case split over all actions of `Next` happens once, in this lemma.

From `Effects`, with one short case split each:

* `RowSteps`, of which `TerminalIsFinal` and `FollowsStateMachine` are parts,
  and `PostsOnlyRunning`.
* `OnceOf`, one task at a time. `AtMostOnce` is not inductive, because nothing
  in it says which tasks are still to be dispatched. `UndispatchedIfPending`
  does: a Pending row, and a task with a coroutine before its POST, was never
  dispatched or may be replayed. A crash preserves it, since a row that was
  dispatched is Running before the POST leaves and Recovering after the
  restart, never Pending.
* `RecordInv`: a coroutine that is about to post has counted one attempt more
  than it has posted. This is what the two properties about attempts leave
  out, and why a crash between the count and the POST is harmless.
* `KeyInv`: rows keep their keys and are never deleted, so what a key was
  answered with stays the only row of that key.

`NoTaskOrphaned` needs that the rows of this version have a directory
(`DirectoryAlwaysKnown`); rows of an older version are left out of `NoOrphan`,
which is the finding of `TaskManager_lost_failure`. It argues about whole
sets of rows (a start schedules all that it finds) and therefore goes through
the actions itself (`CareStep`).
`BacklogStaysBounded` counts. `BacklogBounded` is not inductive: a crash takes
all coroutines away and `start` launches one for every row it finds, without
asking `_enforce_async_limits`. `BacklogInv` therefore counts the coroutines
together with the rows that would get one from a start (`InProgress`): at most
`GlobalActive` of both. Neither a crash nor a start adds to that set, a start
because what it schedules is counted already (`NoNewWork`); only a submission
does, and it asks first. The two hypotheses are needed, and not for the
proof alone: a Running row whose coroutine sqlite killed is in no count until
the next start schedules it again, and a table of an older version may hold any
number of rows. The run checks the same case.

For `ManagerKeepsContract` every action maps to `Accept`, `Ask`, `Finish` or a
stutter; `Ask` needs `OnceOf` and `Finish` as Completed that a posted task was
asked.

`DatabasesProofs` proves, for any number of databases and exchanges:

| Theorem | Property |
| :-- | :-- |
| `NoTaskOrphanedHere` | `NoOrphan`, under `DbSpec` |
| `ReloadsStrandNothing` | `NothingStranded` |
| `ExchangesKeepContract` | `KeepsContract` |

`DbInv` has three parts. `ServiceInv` is the invariant of the manager for the
database in service; its steps are the lemmas of `TaskManagerProofs`, used as
they are. `ShelfInv` says what the manager needs to find when a table comes
back, and it is little: directories, and that a Pending row was not posted or
may be replayed. Nothing about handles is among it, because an exchange happens
without coroutines, which is what the 409 of `_reload_config` is for. `HomeInv`
says that a task has its row in one database only; with it a step of the
manager becomes a step of the contract over all databases (`ManagerStepLifts`),
and an exchange becomes a stutter.

`WorkerRegistryProofs` proves, for any number of calls and workers, any
capacities, limits and threshold:

| Theorem | Property |
| :-- | :-- |
| `CircuitOpensOnStreak` | `StreakOpens` |
| `NoPermitLost` | `PermitsConserved` |
| `ActiveIsExact` | `ActiveExact` |
| `NoWakeupLost` | `NoLostWakeup` |
| `TypeCorrect` | `TypeOK` |

The circuit: for a worker whose answers are well formed, the counter that
overlapping calls write is the streak (`CountsStreak`).

The permits: `PermitInv` says that every gate and every semaphore are `Sound` for
the calls that wait there and the calls that hold a permit, both told from
where the calls are. `Sound` has two parts. `Counted`: the waiting calls are
those of the deque, each once and in one of its halves; free, granted and held
permits add up to the capacity. `Awake`: a permit is free next to a waiter
only while another waiter has been granted one and has not run. The second part
is what a cancelled waiter that drops its permit silently would break; it is
also the reason why `_wake_up_next` is called until it fails at the end of
`acquire`. `AsyncSemaphoreProofs` shows for each operation which sets the
semaphore is sound for afterwards; that waking `k` waiters takes `k` permits is
a bijection between positions and calls, no induction. Each action of a call
then moves the call from one set to the next.

`ReloadProofs` proves, for any number of reloads, configurations and calls:

| Theorem | Property |
| :-- | :-- |
| `PermitsOutliveReloads` | `PermitsSurviveReload` |
| `CallsEnterCurrent` | `EntersCurrent` |

It takes the lemmas of `WorkerRegistryProofs` for the managers and registries
side by side, as `Reload` takes the module. What is new: `ReloadConfig`, which
turns calls at the gate of the manager in service to another registry and
touches no set that a semaphore is sound for; `ReloadState`, which touches no
call at all; the call that finds its worker gone, which holds a permit of the
gate for a moment; `ManagerInv`, that no manager has a registry older
than itself; and `GateInv`: a call at a gate is bound for the registry that the
manager of this gate has.

`WatchdogProofs` proves all five invariants of `Watchdog` (`TypeCorrect`,
`ResultsAreFinal`, `BudgetIsExact`, `ExitIsInTime`, `TimeoutsAreTrue`) for every
deadline, interval, request timeout and budget. `Safe` is inductive: what
it adds to the properties is where the clock is in relation to the request
under way (`Timing`), and that the watchdog's counter is one behind the failures
while an answer is read (`Counting`). `NoFalseTimeout` needs one thing more,
`Unnoticed`: how far the clock can be from the moment the task was over, by the
number of failures since.

`HealthProofs` proves, for any number of listers and workers and any cache
time:

| Theorem | Property |
| :-- | :-- |
| `TypeCorrect` | `TypeOK`, mutual exclusion of the lock included |
| `ListingsAreFresh` | `ServedFresh` |
| `EntriesAreTrue` | `Truthful` |
| `ProbesAreShared` | `ProbesShared` |

The lock is `Sound` like any semaphore, so a lister that has it, or was granted
it, is the only one (`OnlyOne`). What the properties leave out is what holds
while probes are out: the workers that are not probed need no probe
(`FreshInv`), an entry carries the time its worker's last probe ended
(`EntryInv`), and what was seen of a worker bears out each result that is back
and, for a probe that is out, that the circuit was closed when it was sent
(`SeenInv`).

`PermissionsProofs` proves, for any list of paths, any prompt, paths of any
length and any links:

| Theorem | Property |
| :-- | :-- |
| `CallsGrantedExactly` | `GrantedExactly` |
| `CallsStayInside` | `StaysInside` |

The heart of it is `MatchesLaidOver`: the recursion of `_match_parts` accepts a
pattern and a path exactly if the pattern can be laid over the beginning of the
path. `LaidOver` names the ends of all pieces at once; `LaidOverStep` splits off
the first, so `LaidOver` obeys the equation that `MatchParts` is defined by.
That equation has a solution, then, and it has only one: of two that differ,
take a pattern of least length on which they do. Such arguments take the least
element of a set of numbers (`LeastNumber`, from the well-foundedness of `<`)
where one would use induction. For an entry without an asterisk the ends are
the positions themselves, and `LaidOver` is a prefix (`LaidOverPrefix`), which
is what `path_is_allowed` compares there. `PermissionsInv` adds what holds
between calls: the worker has the paths that its file grants, none of them
relative. The assumptions are that what exists lies in directories that exist
and that no link leads away from it (`DirsAssumption`), and that paths are
paths (`PathAssumption`).

Only model-checked: liveness (`Settles`, `CallsEnd`,
`ListsEnd`, `Exits`), which TLAPS cannot prove under fairness, and that the
violations of the four findings are reached.

## 5. Not modelled

* Data that no property looks at: prompts, headers, payloads, timestamps,
  error texts, logging, audit lines, the URLs of a probe.
* Time inside a call: httpx bounds each read, not the call, and a timeout is
  recognised by a word in the message. `CallFails` allows either outcome.
* Scopes: a key is compared and its scopes are looked up in one table, without
  state or order; the unit tests enumerate it. Metrics and audit: counters and
  lines that nothing reads back, but for `finished`.
* Recovery policy and limits are constants; an operator who changes the policy
  between two lives or by a reload is outside the model.
* The wall clock of `Health` only advances. If it were set back, every entry
  would count as fresh until it has caught up.
* The filesystem of `Permissions` stays as it is during one validation.
* An exchange of the database forgets nothing that was answered, but a key is
  unique in one database only: a client's retry after an exchange starts a new
  task there. `KeepsContract` counts the two as two tasks.
* `stop()` during a reload: handles whose coroutine has ended but whose done
  callback has not run make it suspend for one turn of the loop. `Databases` and
  `Reload` take the reload as one step; a request that comes in this one turn is
  still served by the old manager, and a task it submits is left to that one.
* `/status` reads the manager and the registry before it waits for the probes;
  an answer that spans a reload shows the old ones.

## 6. Plan

1. Done: `TaskState`, `TaskManager` with `DurableTask` and sqlite errors,
   `Databases`, `WorkerRegistry`, `Reload`, `Health`, `Permissions`, `Watchdog`,
   their runs; theorems about each of these modules, for every safety
   property that a run checks.
2. An abstract specification of worker calls (at most so many at a time, each
   ends) implemented by `WorkerRegistry`.
3. Recovery policy and limits as variables that a reload changes.

## 7. Running

    tlc -workers 2 -config TaskManager_idempotent.cfg MCTaskManager.tla
    tlapm TaskManagerProofs.tla
    tlapm DatabasesProofs.tla
    tlapm AsyncSemaphoreProofs.tla
    tlapm WorkerRegistryProofs.tla
    tlapm ReloadProofs.tla
    tlapm HealthProofs.tla
    tlapm WatchdogProofs.tla
    tlapm PermissionsProofs.tla

The module of each run is in `PROJECT.json`; the longest takes about two minutes.
