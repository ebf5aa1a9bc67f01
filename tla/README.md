# A TLA+ model of the API testing platform

This directory models five parts of the platform: scan execution (the API that
accepts scans and tasks, the Redis queue, the PostgreSQL tables, the workers and
the rate limiter), the pool of workers the API runs in its own process, accounts
and tokens, the way from an OpenAPI document to tasks and mutated requests, and
the pipeline that compares the responses of a scan and reports what it finds. TLC
checks the modules on small instances; TLAPS proves the safety properties of the passing
runs, all but one, and the safety part of the one refinement, for every instance.
`PROJECT.json` lists every run, mutant and theorem, and says for every definition which
lines of `src/` it models.

## The system

| part | state | operations | interacts with |
| --- | --- | --- | --- |
| scan API (`executor/api/routes.py`) | none of its own | `create_scan`, `submit_tasks`, `get_scan_progress`, metrics | writes PostgreSQL, then pushes to Redis |
| scan store (`executor/persistence`) | `scans`, `tasks`, `scan_responses` | transactions of the API and the workers | |
| queue (`executor/queue`) | list `tasks:default`, sorted set `:delayed`, list `:dlq` | `publish_batch`, `schedule_delayed`, `consume`, `send_to_dlq` | called by the API and the workers |
| worker (`executor/workers`, `worker_main.py`) | semaphore, set of coroutines, HTTP client, heartbeat | fetch loop, `_process_payload`, `_save_response`, `_handle_retry`, `stop` | queue, store, target of the scan |
| authentication (`executor/api/auth*.py`) | `users`, `revoked_tokens` | register, login, refresh, logout, me, list of users; the start of the API makes one account | its own tables of the store |
| rate limiter (`executor/rate_limiter`) | token buckets in Redis or in memory | `acquire`, `report_429` | Redis; no module calls it |
| worker manager (`executor/worker_manager`) | list of engines, `_running`, monitor task | `start`, monitor loop, `stop` | started and stopped by the API; makes workers, asks Redis for lengths |
| priority queue (`executor/task_queue`) | lists by priority, sorted set, dead letter list | publish, consume, retry | nothing calls it but for its Redis client |
| result pipeline (`models.py`, `result_collector.py`, `diff_engine.py`, `issue_classifier.py`, `report_generator.py`) | buffer of results, lists of diffs and issues | collect, flush, diff, classify, report | called by `executor/analysis` |
| endpoint discovery (`endpoint_discovery.py`, `executor/endpoint_discovery`) | endpoints seen, errors, for one parse | parse, extract parameters, remove duplicates | called by the bridges |
| mutation engine (`mutation-engine`) | none | five mutators, fingerprint, deduplication, severity | called by a bridge through `node` |
| bridges (`executor/integration`) | none that lasts | document to tasks, endpoints to fuzzing tasks | downloads, a `node` process; no module calls them |
| crawler, JWT role tests, dashboard | none that lasts | scripts and conversions | files, subprocesses |

Hard behaviours: coroutines of one worker interleave at
every `await`; several workers share the queue; two stores are written one after
the other; a command, a reply or a process can be lost between any two steps;
retries wait in a sorted set and are moved back by whichever worker polls; a
signal stops a worker in the middle of all of this; requests of several clients
check something in the database, await, and commit; a pool is stopped while its
loop may be making workers; and a malformed document or one request the engine
cannot mutate must not take the rest with it unnoticed. `PROJECT.json` lists the
hazards with their lines.

What makes the parts correct:

* queue: nothing is dropped or copied by a hand-over between its structures;
* worker: permits balance, retries are bounded and counted, a dead task has used
  its retries, stopping ends;
* store: verdicts come from executions and do not change, progress never regresses;
* authentication: one account for each email, roles only for the first, a token
  that was revoked or rotated is not accepted again, the first start leaves its account;
* rate limiter: no bucket grants more than capacity and rate allow, a domain that has
  answered 429 keeps a reduced rate until its key expires, every call returns;
* worker manager: the number of workers stays within its bounds, the loop goes on
  whatever fails, stopping ends and leaves nothing running;
* pipeline: each pair is reported once, nothing of an old scan, figures add up;
* discovery and bridges: one endpoint for each method and path, nothing dropped
  without a note, tasks from one document only;
* mutation engine: no change is lost with the copies, grave ones keep their severity.

## Modules

```
ExecutorModels     payloads, rows, statuses
  RedisQueue       the three Redis structures, one operator per command
  ScanStore        the tables, one operator per transaction
    WorkerEngine   the worker processes over both
      ScanExecution          the API, the whole system, its properties
        ScanExecutionMC      constants for TLC
        ScanExecution_proofs types, the semaphore, verdicts, progress, attempts, dead letters
          ScanCopies_proofs    where a task is: no copy, no loss, the lifecycle step by step
TaskLifecycle      what is promised about one task; ScanExecution implements it

RateLimiter          token buckets in Redis and in each process
  RateLimiterMC      constants for TLC
  RateLimiter_proofs types, what a bucket may grant, who is served, reduced rates

DiffEngine           two responses of one endpoint compared
  IssueClassifier    the issues of a comparison and their severities
    ReportGenerator  order and figures of a report
      ResultCollector  buffer, pairs, processing, flush, reset
        ResultCollectorMC      constants for TLC
        ResultCollector_proofs what is compared, found and reported; reports stand

EndpointDiscovery    an OpenAPI document, the operations in it, its endpoints
MutationEngine       the mutated requests of one request
  TaskGeneration     both bridges, the discovery script, the engine by itself
    TaskGenerationMC   documents, answers of the web, requests
    TaskGeneration_proofs  what is found in a document, whose tasks, which mutations

Accounts             users, tokens, revocation, the first account
  AccountsMC         constants for TLC
  Accounts_proofs    all its invariants

WorkerPool           the manager, its loop and the engines it makes
  WorkerPoolMC       limits and queue lengths
  WorkerPool_proofs  limits, the end of stop()
```

`Lists` has list comprehensions with a condition, in a form that can be proved about;
`ListTheorems` has the facts about lists that the proofs about the collector and about
task generation rest on.

### How the model reads the code

* A **payload** is a task and its `attempt`. The other fields never change.
  `RetryCount[t]` is the `retry_count` the task was submitted with; any integer,
  as the schema sets no bound.
* **`queue`** is the list, left end first. `LPUSH` of a batch reverses it.
  **`waiting`** and **`due`** together are the sorted set: `due` holds the members
  whose score has passed. `BecomeDue` is the clock. Scores are not kept, so due
  members are returned in any order. The clocks of the workers agree, and a `ZADD`
  arrives before its backoff of at least two seconds is over.
* **`loop[e]`** is where the fetch loop of worker `e` is, with a step between any
  two awaits: the semaphore, `ZRANGEBYSCORE`, `MULTI/EXEC`, `BLPOP`. `batch` and
  `ripe` are what a worker knows between the read and the removal: the members it
  got, and the members its `now` covers.
* **`job[e][j]`** is one coroutine `_process_payload`: `new`, `http` (waiting for
  the target), `save`, `retry`, `dlq`. A transaction is one step.
* **`Exit`** is the end of the process after `stop()`: `start()` returns, and
  `asyncio.run` cancels what still runs.
* **`hits`** and **`answered`** are history: how often an open HTTP client was
  called for a task, and whether an execution was answered. No action reads them.
* **Faults** are chosen by the constant `Faults`: a refused Redis command, a lost
  or unparsable `BLPOP` reply, a failed transaction, a failed rollback, a signal,
  a crash. A refused command also stands for the pool of 100 connections running
  out. A worker that has crashed or stopped may start again.
* `submit_tasks` splits its tasks by priority; the constants `High` and `Standard`
  give the two halves of each request. Task ids are fresh (uuid4).
* `DueBatch` stands for 50 and `Concurrency` for 100.

The shipped application cannot start (`executor/api/main.py` calls names its
modules do not define), so the routes are modelled as the functions they are.

In `RateLimiter`:

* **`now`** is a clock in seconds that all processes share. Tokens and multipliers
  are counted in fortieths, in which 1, 1/2, 1/4, 1/8 and the bound 1/10 are
  integers. A capacity is the rate of its bucket, a request takes one token.
* **`bucket[s][k]`** is the hash of key `k` in Redis (`s = Redis`) or in
  `_LOCAL_BUCKETS` of a process. A key that expired reads as `NoBucket`.
* **`call[c]`** is where coroutine `c` is in `acquire` or `report_429`, with a step
  between any two awaits. `stamp` is the time its script carries to Redis: `Send`
  reads the clock, `Evaluate` runs the script later. `seen` is the multiplier
  between `HMGET` and `HSET`.
* **`BucketsOf[c]`** are the keys a call asks, in order: the global one, that of the
  domain when the configuration limits it, that of the scan.
* **`granted`**, **`served`** and **`late`** are history: tokens taken from a bucket,
  calls that returned `True`, and the seconds scripts for a key were under way.
* `refuse` is a command without effect, `reply` a script or an `HSET` that took effect
  and whose reply is lost. Either makes the process use its own bucket from then on, and
  a 429 whose `HSET` is not heard of counts there, too (`WriteUnheard`). `Load` is
  `_ensure_backend`, which several calls may be in at once.
* `MaxTime` and `MaxCalls` bound the clock and the calls of one coroutine. No call
  begins that cannot time out before `MaxTime`.

In the pipeline:

* A **response** is a record of the fields the code reads. A body is its text, for
  the ratio, and its parsed JSON already flattened, a function from dotted keys to
  values. `Similarity` gives the ratio of two texts, in hundred-thousandths, in the
  order the code passes them; `Rounded` is `round(s, 4)`. The threshold is applied to
  the exact ratio in `Reason`, to the rounded one in the checkers.
* `Uuids`, `Numbers`, `IdKeys`, `PiiKeys`, `SensitiveKeys` and `AdminEndpoints` stand for
  the patterns and the substrings the code looks for. Keys, roles and identifiers are
  compared without case.
* **`Triggers`** has one case per checker, `Checkers` their order. An issue is its
  type, its severity and its comparison.
* **`lists`** are Python list objects. `issues` is the number of the one `_issues`
  refers to; `process_buffered` makes a new one and returns it, `flush` gives the
  report a sorted copy, `reset` empties the one at hand, whoever else has it.
* **`open`** is the client: it hands in results, flushes once, and resets before the
  next scan. `returned` and `told` are what it was given. A response is handed in
  once per scan; `MaxResponses`, `MaxProcessed` and `MaxReports` bound the calls.
* What `process_buffered` returned is `_issues` itself, so `reset` empties the caller's
  list too; `ReportsStand` is about reports only.
* The classifier has thresholds of its own: 0.65 for BOLA whatever the collector was
  given, 0.5 for privilege escalation. `Triggers` has these, not the docstrings'
  conditions: BFLA compares no roles, a tenant leak needs no second known tenant, and
  no checker is asked about a pair that is no anomaly.
* A callback that raises is caught and changes nothing, so `told` counts calls.

In `EndpointDiscovery`, `MutationEngine` and `TaskGeneration`:

* A **path** is a sequence of texts, slashes among them; texts contain one another
  only by being equal. A node of a **document** is an object, a reference or junk,
  a schema is none, empty, some, or a reference that leads nowhere. Only the
  parser of the executor follows references, and notes those it cannot follow each
  time it meets them. Keys are texts: YAML has others, on which `parse` raises.
* A body or a list of parameters that is no object raises `AttributeError`, though
  `parse` "Handles malformed specs gracefully": `LoadUrl` and `LoadText` end with it,
  `Probe` moves on to the next URL.
* **`source`** is the call and what the outside answers: a URL and the web, a text, a
  file for the script, or a request for the engine. Each is run to its end.
* **`TypeConfusionRaises`**: `_typeConfusion` reads `typeName`, which nothing declares,
  for every string, number or boolean in a body, so the engine raises on every request
  with a body the bridge makes of an endpoint that requires one.
* **`Printed`** is external: the bridge runs `Mutation-engine/src/cli.js` on all requests
  at once, and no such program is in the repository. It may fail, which
  `generate_mutations` takes for no mutations at all, or print the mutations of any of the
  requests on which the engine does not raise.
* The fingerprint does not tell an emptied part from an absent one (`SameChange`): a
  garbage method `""` is dropped as a copy of emptied headers.
* A mutation carries only what it changes: a mutation of headers has no path, and
  the bridge makes a task of it whose URL is empty. `path.replace` changes the first
  text that reads like the one that was found. `privelege_esc` is spelled otherwise
  in the severity table and has severity 1. `priority_level` is no field of
  `TaskSubmit` and is ignored.
* Fields, words and payloads are given by constants: `KeyWords` and `Mentions` say
  which words a text contains, in place of `includes`.

In `Accounts`:

* A step ends where a coroutine awaits the database; a transaction sees what is
  committed. **`call[c]`** is the request of client `c`; a process of the API that
  starts is a client, too, and several may start.
* **`Insert`** and **`Revoke`** are the commits, which fail when the unique email or
  the `jti` is there already. `Fail` is any other failure of the database.
* A role is taken from the token by nobody; `Owner` reads the account. An account is
  never disabled or deleted by the code, so `is_active` is left out, and with it the
  answer 403 of a login.
* **`late`** and **`stale`** are history: was there an account, was the token revoked,
  when the request began. They are what the code can promise: two first
  registrations that overlap may both be made admin, and of two refreshes with one
  token that overlap both may succeed if the second one's check comes before the
  first one's commit and its `revoke_token` after it.

In `WorkerPool`:

* Engines are numbered as they are made; `active_engines` is an interval. The four
  lengths are read with an await each, the rest of a pass has none.
* **`CleanupRaises`**: `_cleanup_idle_workers` calls `is_idle`, which no engine has, so
  every pass with an engine ends there. Nothing fills the queues whose lengths it reads.
* `main.py` starts the pool "in-memory dev mode" when its check finds no Redis. The
  check is `check_redis_alive` of a class that does not have it (`executor/queue`; the one
  of `executor/task_queue` has), the exception counts as no Redis, and every API starts
  a pool beside the workers of `worker_main.py`.
* **`phase`** "stopped" says that `stop()` of the engine has returned or raised. Its fetch
  loop may then still be in `BLPOP`, and its coroutines may go on if `heartbeat.stop()`
  raised: that is in `WorkerEngine`.
* Each engine takes SIGINT and SIGTERM for itself, in place of the one before it:
  **`Signal`** stops the one that started last. `stop()` of an engine that is stopping
  returns at once, so the manager does not wait for it (`NothingLeftRunning` says
  "stopping or stopped").
* Tasks of one event loop begin in the order they were made, so an engine has begun
  before the manager calls its `stop()`.

## Runs

States are distinct states.

| run | module | instance | shows |
| --- | --- | --- | --- |
| `single` | `ScanExecutionMC` | 1 worker, 2 tasks, one retry each, no faults | types, one copy per task, bounded requests, every task settles, and the lifecycle is implemented |
| `pair` | `ScanExecutionMC` | 2 workers, 1 task, two retries, no faults | with a copied retry nothing is lost and the task settles |
| `faults` | `ScanExecutionMC` | 2 workers, 2 tasks, concurrency 2; refused commands, lost replies, failed transactions, crashes | the semaphore, dead letters, attempts, verdicts and progress survive |
| `stop` | `ScanExecutionMC` | 1 worker, concurrency 1, 2 tasks; signals, failed rollbacks, refused commands | a signalled worker stops, also one that was started again |
| `racing_moves` | `ScanExecutionMC` | as `pair`, one retry | violated: two workers push the same due member |
| `due_overflow` | `ScanExecutionMC` | `DueBatch = 1` | violated: due members beyond one reply are removed unpushed |
| `retry_verdict` | `ScanExecutionMC` | 1 worker, 1 task | violated: the response of a retry is never stored |
| `limiter` | `RateLimiterMC` | 2 processes with a caller each, a global and a domain bucket of 1 token; refused commands, lost replies, both report a 429; 540464 states | grants stay bounded in Redis and in the fallback, a call is served by all its buckets, a reduced rate stays reduced until its key expires, every call returns |
| `collect` | `ResultCollectorMC` | 6 responses of 2 endpoints, 3 of them in any order, processing up to twice before the flush, resets; 1242338 states | the report has the issues of each pair once and no others; no anomaly goes unreported; figures add up; nothing of an old scan, nothing untold, reports stand |
| `generate` | `TaskGenerationMC` | documents, webs and requests, each run to its end; 13152 states | which operation is the endpoint, that none vanishes unnoted, where tasks come from, that dropping copies loses no change and no swap of tenants, how severe a mutation is |
| `accounts` | `AccountsMC` | 3 clients, 3 requests, one email in two spellings and the configured one; expiry, failing database; 353107 states | one account per email, roles, revoked and used tokens, the account of the first start |
| `pool` | `WorkerPoolMC` | limits from 0 to 3, lengths that fall short of or reach a threshold; 2054 states | limits, stopping at any point, a loop that outlives its failures |

Disagreements between the code and what it says that are no runs:

* `stop()` of a worker announces that it waits for active tasks (`engine.py:78`), but the
  loop sees `_running` false, the process ends and takes the coroutines with it.
* `report_429` says that it reduces the multiplier (`limiter.py:162`). Of two reports that
  overlap one may count for nothing, and a third one between their writes may be taken
  back from a quarter to a half. `ReducedUntilExpiry` says what remains, with two reporters
  in `limiter` and any number in the theorem: no report ever puts back the full rate.
* `flush()` compares nothing that came in after `process_buffered()` has found an issue,
  though it says "Process all buffered results" (`result_collector.py:166`), so
  `ReportCoversBuffer` is about scans that flush processes.
* A second `process_buffered()` builds the pairs anew: when a reference response has come
  in meanwhile, it no longer compares the pairs it made without one, whose diffs stay and
  whose issues are replaced, so `EveryAnomalyReported` is about diffs still compared. And
  the BOLA checker has 0.65 for its own, so with a lower `similarity_threshold` a pair may
  be an anomaly that no checker takes up; `collect` has the default 0.65, the theorem says
  `HighThreshold`.
* The manager "Dynamically scales WorkerEngines based on Queue Depth" (`manager.py:12`, the
  policy at `manager.py:92-98`), and removes idle engines. As no engine has `is_idle`, a
  pass that finds an engine fails before it counts what is wanted: a pool of `main.py`, of
  two engines, is never scaled, whatever the queues hold, and an engine that a signal has
  stopped is never replaced. `PoolWithinLimits` says of the size only what does hold.
* The bootstrap account is made "if no users exist" (`settings.py:85`), but the code looks
  for its email only (`main.py:236-240`), and also makes an admin beside other users.
  `FirstStartLeavesAccount` is about the case both agree on, a start that finds no accounts.
* Deduplication keeps the earlier of two mutations with one fingerprint and gives severities
  afterwards, so the weaker one may be kept: emptying a header (severity 1) hides the
  garbage token `""` (4), enumerating the id 0 (2) hides injecting 0 (3).
  `TenantSwapsStayGravest` says that this never happens to a swap of tenants.

Why the bounds are enough: two workers are what a race needs, and two coroutines
fill a semaphore of two; one retry reaches the sorted set, two retries make a copy
overtake its original; two tasks of different priority use both pushes, and with
`RetryCount` 1 and 0 one of them retries while the other dies. `stop` has one
permit, so the loop also blocks on the semaphore. `faults` states no liveness: with
crashes and lost replies none holds. Two callers are enough for scripts and reports
to overtake each other, `MaxTime = 4` lets a bucket with the multiplier 1 expire
(after two seconds) and be used again by the caller that begins later, and a timeout
of two seconds lets a call go round and give up. Calls and time are bounded, so the
limiter runs stop and do not check for deadlock. Neither do those of the collector,
whose client may stop. The six responses of `collect` give each checker a pair that
triggers it, two reference responses for one endpoint and none for the other, an
unknown tenant, an absent body, one user with two roles, and a ratio of 0.64996 that
rounds to the threshold; three of them are two references and a challenger, a
reference and two challengers, or two endpoints at once. One reset, before or after
the flush, is what a stale entry needs. The sources of `generate` have paths with
slashes in every place, methods in two cases, every kind of malformed node in a
body, a parameter and a path, webs whose first, last or no document has endpoints,
and requests with an identifying, a credential, a search and a plain field. Three
clients are two that race and one, such as a starting process, between them; three
requests are an account, its token and its use, or three firsts. `pool` has a minimum
above the maximum, a pool that is empty, and two engines, of which a signal stops
one. The accounts, the pool and what is generated come to rest, so their runs do not
check for deadlock.

**Fairness** (`Fairness` in `ScanExecution`): an event loop runs every ready
coroutine, Redis and PostgreSQL answer, the HTTP client has a timeout of 30 s, time
passes, an accepted request is carried on, and a worker that is down is started.
No submission, signal or crash is fair. All of it is weak fairness: once enabled,
these steps stay enabled until they are taken. `FairSpec` of `RateLimiter` assumes the
same of the clock and of the steps of a call that has begun; no call has to begin.
`Spec` of `WorkerPool` assumes that the event loop runs the loop and the engines, and
that an engine's `stop()` ends, because its requests time out; nobody has to stop the
API. `Accounts` and `TaskGeneration` state safety only.

## Proofs

Every theorem is about any number of workers, tasks, clients or responses, any document
and any fault, unless it says otherwise. An inductive invariant is a conjunction of named
parts; a lemma per action or per part says that a step keeps it.

**Types, permits, verdicts** (`ScanExecution_proofs`). `IInv` is `TypeOK /\
SemaphoreAccounting`. `TypeOK` alone is not inductive: that a permit given back does not
exceed `Concurrency` needs the accounting, and the accounting needs the types.
`DelayedFinite` says the sorted set is finite, which a step needs that reads a batch of it.

* `TypeCorrect`, `PermitsBalance`: from `IInv`, one lemma per group of actions.
* `VerdictFrozen`: `SaveResponse` writes a row only when it has no response;
  `InsertTasks` could overwrite a row, and does not because the tasks of a request
  have no rows before it is handled (`Fresh`, from `FreshTasksAssumption`).
* `ProgressHolds`: `Judged` says that a row has a verdict just when it has a response,
  so a step moves one row out of `QUEUED` for good, adds all rows of one request, or
  changes none (`RowsMove`); the counts follow from the inclusions of finite sets.
* `AttemptsSent`, `VerdictsGiven`: `SInv` follows a payload from the list to a
  coroutine and back. Its parts: an open client in every running worker
  (`Serving`), counted attempts in the queues, in a batch that was read
  (`BatchesSent`), and in every coroutine (`JobsBacked`). They assume that no
  signal arrives: a client that `stop()` has closed fails attempts unsent, and
  both properties are false then.
* `DeadAreExhausted`: assumes that no rollback raises, the only other way to the
  dead letter list.

**Where a task is** (`ScanCopies_proofs`).

* `NoSecondCopy`: with one worker (`OneWorker`). `OneCopyPerTask` counts copies in each
  structure and is not inductive. `OnePlace` says that a task is in at most one of the list,
  the sorted set, a coroutine and the dead letter list, once, and in none before its push
  (`Awaited`); `BatchIsDue` that what the worker has read is still due when it moves it,
  each member once. The run `racing_moves` is what goes wrong with two workers: the one
  moves what the other has read.
* `RetriesBoundRequests`: with one worker. `Spent` bounds what a payload has cost so far
  by its `attempt`, and `attempt` by the retries its task is allowed. With a copy the
  bound is false.
* `PublishedAreKept`: for any number of workers. `KInv` says that what is owed is
  somewhere, and `RipeIsRead` that a worker removes no member it has not read. It assumes
  `FewRetries`, that `DueBatch` is at least the number of payloads that can be delayed (the
  run `due_overflow` is what happens otherwise), and `OnlyDatabaseFails`: a refused
  `ZADD`, a lost reply of `BLPOP` or a crash does lose tasks, and the code makes no
  provision for it.
* `LifecycleRefined`: the initial states of `ScanExecution` are ones of `TaskLifecycle`,
  and every step maps to a step of it or to a stutter: the first two conjuncts of
  `LifecycleSpec`. `LInv` collects the invariants above, with `Recorded` (a task without
  rows is nowhere) and `PhasesFit`, which says what the mapping's choice from a set comes
  to: a task in one place has one payload, and that gives its tries. Each action then has
  a lemma that names the abstract step it is or shows that no phase changes. It assumes
  `OneWorker`, `FewRetries` and that transactions are all that fails
  (`OnlyTransactionsFail`); the mapping is false of copies and of lost tasks.

**The limiter** (`RateLimiter_proofs`).

* `LimiterTypeCorrect`, `GrantsStayBounded`: `GrantsBounded` is not inductive, since
  it says nothing of the tokens a bucket still holds. `BucketFits` does: granted and held
  tokens fit a capacity for the first second and one for each second up to
  `last_refill`; an absent bucket is a full one; and a bucket with an expiry will fit as a
  full one when it is dropped, because the expiry of at least two seconds leaves it the
  time to fill. A late script moves `last_refill` back and pays for that with `late`. The
  lemma `RefillFits` is the arithmetic, `TakeFits` the step.
* `ServedByItsBuckets`: `HInv` adds to the served calls those whose round has got past the
  bucket (`Holders`). A refused round gives up what it holds and starts again; a call that
  is served turns from a holder into a served one.
* `ReducedStaysReduced`: a step that writes a multiplier writes `Halved` of something, and
  any half of a multiplier is at most `Halved(Unit)`, whatever the reporter has read and
  however old that is; scripts keep the field they find. So the stale write that may take
  back a quarter never takes back a half, for any number of reporters.

**The collector** (`ResultCollector_proofs`).

* `HandedOutReportsStand`: `ReportsApart` says that no report has the list the collector
  writes to; `ReportsStand` follows, since `reset` writes to that list only.
* Lemmas say what each stage makes, as a set and without duplicates: `BuildPairsElements`,
  `ComparedElements`, `FoundElements`, `SortedElements`; `FiguresAddUp` counts.
* `CInv` then ties them to the state: what is at hand is of the scan at hand (`Current`),
  of what would be compared again no issue is missing (`NoneMissing`), a closed collector
  has reported what is at hand (`ReportedAtHand`), and before the client has processed
  there are issues after a flush only, those of its buffer (`FoundByFlush`).
  `NothingIsStale`, `EveryIssueTold`, `FormatsAddUp` and `ReportsCover` follow.
* `NoAnomalyLost`: also needs that each reason of `Reason` triggers a checker
  (`AnomalyTriggers`), which is so with `HighThreshold`, a threshold from 0.65 up.

**From a document to tasks** (`TaskGeneration_proofs`).

* `TInv`: what goes with each stage, that results, requests and answers are of the kinds
  the next stage takes (`Fits`, `AllMutated`), that the result is that of the document at
  hand (`Found`) and that the URLs already probed gave nothing (`Probing`).
  `TasksFromFirstFound` is a part of it.
* `FirstOperationIsEndpoint`, `EachVisitAccounted`: by induction over what the parser
  visits. `Accounts(r, visits, n, d)` says what a result has to do with the first `n`
  visits; `VisitAccounts` is the step, `ParseAccounts` the conclusion. `ParseSteps` shows
  that the function `Parse` defines by recursion exists. `NormalIsCanonical` says that the
  normal form of a path has its texts and single slashes between them.
* `ChangesAreKept`, `GravestWordCounts`: `DeduplicateKeepsFirst` says that every mutation
  has one with its fingerprint among those kept, and that equal fingerprints of two parts
  mean two emptied parts needs to know what each mutator leaves alone: the many lemmas
  `...Are` say that each makes a list of mutations of its one part (`AreMutations`).
  `SeverityIsHighest` is about the table.

**Accounts and the pool.**

* `AccountTypes`, `OneAccount`, `LaterOnesAreUsers`, `RevokedRefused`, `TokenUsedUp`,
  `FirstStartDone`: all from `AccountsInv`, which adds to the types and the two invariants
  on `users` what each request relies on at its step (`Sound`): that a registration
  that is late carries the role of a plain user once it has counted, that a stale
  token is past no check, that a request with a token past the check has it used up
  when it is answered, and which steps a kind of request comes through (`Path`). The
  other actions only add rows, so what a request relies on stays true while others act.
* `PoolTypes`, `LimitsKept`, `NothingLeft`: from `PoolInv`, which adds
  `Stages`: what `api`, `running`, the loop and the phases of the engines may be
  together, among them that every engine the manager will no longer call has been
  called or told to stop.

**Lists.** The library's induction theorems take a predicate, which no prover installed can
instantiate. `ListTheorems` has inductions all the same, each as a proof about the least
number that would go wrong: `LeastNumber` is the fact, `UpTo` and (in
`TaskGeneration_proofs`) `FromZero` say that a set with the first number and every
successor up to a bound has them all. `FlattenSeq` and
`Picked` are specified that way, and so is the recursion of `Parse`.

**Assumptions.** Those on the constants, which every run evaluates: the types of the
parameters (`RetryCountAssumption`, `DueBatchAssumption`, `ConcurrencyAssumption`,
`JobsAssumption`, `EnginesAssumption`, `FaultsAssumption`, `RequestsAssumption`,
`LimiterAssumption`, `FiniteAssumption`, `StoresAssumption`, `BoundsAssumption`,
`LimitsAssumption`, `DepthsAssumption`); fresh task ids (`FreshTasksAssumption`); rates
that are positive integers; texts that have a similarity (`SimilarityAssumption`,
`ResponsesAssumption`); emails in a normal form (`InputsAssumption`); names and lists that
are sequences (`MethodsAssumption`, `ListsAssumption`); and what documents, webs and requests look like
(`SourcesAssumption`). The hypotheses of single theorems are named above; each is true of
the instance whose run checks the property, and a run or a line of the code shows why the
property is false without it.

**Only model-checked.** Liveness (`EveryTaskSettles`, `StopCompletes`, `CallsReturn`,
`LoopGoesOn`, `StopGetsDone`) and with it the fairness part of `LifecycleSpec`: TLAPS has no
means for fairness and `ENABLED` here. `TenantSwapsStayGravest`, which depends on the words and
numbers of an instance. For two workers `pair` checks that nothing is lost
and every task settles; the lifecycle is not implemented then.

## Plan

1. Report service: `ScanStore` and `ResultCollector` composed, the stored responses of
   a scan being what the collector is fed while workers still save.
2. Priority queue: compared with `RedisQueue` by a common abstract queue.
3. Proofs: for any number of workers, a bound on the copies of a task and on its
   requests; `NothingLost` under refused commands that lose nothing; shorter proofs where
   the mutators repeat each other.

## Not modelled

* The priority queue and the report service: no module calls them.
* `jwt_bridge`, the JWT role tests and the crawler: scripts that run from a file to a
  file and keep no state two steps could disagree about.
* `get_optional_user`, `require_auth` and `AUTH_REQUIRED`: no route depends on them.
* Metrics routes, event stream, copilot, dashboard, migrations: they read, convert or
  call an outside service. The middleware of the API calls names its modules do not
  define.
* Logging and formatting, everywhere.
