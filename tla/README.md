# XinPan-ITS in TLA+

XinPan-ITS lets several language-model agents analyse a stock. A web backend
(FastAPI, MongoDB, Redis) accepts analysis requests, runs a LangGraph workflow of
agents for each one in a thread or a worker process, shows its progress and keeps
the report; around it are a scheduler that synchronises market data and a
simulated trading account. This directory models the parts where order,
concurrency and failure decide whether the program is right, checks them with TLC
on small instances, and proves the main results with TLAPS for every value of the
constants.

Paths below are relative to `src/`.

1. [The system](#1-the-system)
2. [The modules](#2-the-modules)
3. [What the runs check](#3-what-the-runs-check)
4. [Where code and documentation disagree](#4-where-code-and-documentation-disagree)
5. [What is proved](#5-what-is-proved)
6. [What is not modelled](#6-what-is-not-modelled)
7. [Plan](#7-plan)

## 1. The system

### Modelled components

**Redis task queue** (`app/services/queue_service.py`, `app/services/queue/`,
`app/worker/analysis_worker.py`).
State: per task a hash (`qa:task:<id>`), the list `qa:ready`, the sets
`qa:processing`, `qa:user_processing:<user>`, `qa:completed`, `qa:failed`,
`qa:batch_tasks:<batch>` and a visibility hash with a TTL; per worker process the
task in hand and a cleanup loop.
Operations: `enqueue_task`, `create_batch`, `dequeue_task`, `ack_task`,
`cancel_task`, `cleanup_expired_tasks`.
Hard: every operation is a sequence of separate Redis commands without a
transaction, so clients, workers, cleanup loops and cancels interleave between any
two; workers die; keys expire.
Correct when: an accepted task is in the list or in somebody's hands until it is
settled; it is delivered once; a slot that is taken belongs to a running worker;
the limits hold as far as two commands can hold them; a task of a dead worker is
recovered; nobody starves.

**Agent workflow graph** (`tradingagents/graph/`, `tradingagents/agents/`).
State: the LangGraph state of one run - messages, reports and tool counters of the
analysts, the two debate states, the two plans, the decision.
Operations: one node per agent, one tool node and one clear node per analyst, the
routers of `conditional_logic.py`.
Hard: the routers read prefixes of texts and counters that other nodes wrote; tool
loops end only by counters the nodes increment in different ways; all loops share
one recursion limit; the model may answer anything at any time.
Correct when: every selected analyst works in its place, both researchers and the
three risk analysts are heard equally often, no router names an undeclared node,
no model is called with an unanswered tool request, and every run ends within its
steps.

**Task lifecycle of the web application** (`app/services/simple_analysis_service.py`,
`app/services/memory_state_manager.py`, `app/routers/analysis.py`, the status of
`app/services/progress/tracker.py`).
State: each task's status is kept three times - in process memory, in
`analysis_tasks` (Mongo) and in a progress tracker; its report is a document of
`analysis_reports`.
Operations: create, the background coroutine, the analysis thread and its progress
callbacks, mark-failed, delete, zombie clean-up, the status and result routes.
Hard: memory and Mongo are written one after the other on six paths, Mongo errors
are swallowed, updates do not look at the old status, progress is written from
another thread, administrators act in the middle, the process restarts.
Correct when: a task shown as completed has a result; the copies agree once the
coroutine is over; a settled task is not turned back to running; a deleted task
does not come back; every accepted task is settled.

**Scheduled jobs and their executions** (`app/services/scheduler_service.py`, the
loops of `app/worker/tushare_sync_service.py`).
State: the job in APScheduler, one document of `scheduler_executions` per run or
trigger, detached listener tasks, documents the zombie check has collected.
Operations: cron time, trigger, pause and resume, the job's body with its cancel
checks and progress reports, the listeners, cancel, mark failed, delete, the zombie
check.
Hard: everybody looks a document up by "the latest running one" and writes it after
an `await`; a run has no identity of its own in the collection; the exception that
should stop a cancelled job is raised inside a `try` that swallows it; a restart
leaves documents behind.
Correct when: a success that is shown stays shown; the outcome of one run is not
written over that of another; no document stays running.

**Paper trading** (`app/routers/paper.py`).
State: cash per currency, positions, orders, trades.
Operations: buy, sell, look at the account, reset.
Hard: an order is a sequence of Mongo commands without a transaction; a buy stores
an absolute position; no index keeps a position unique; T+1 counts the trades of the
day, which are written last.
Correct when: every order takes effect in full unless it overlapped another request
or failed, and what a reset deletes is all it takes away, also where it fails between
two deletes; buying never overdraws; only settled shares are sold.

**Stock list synchronisation** (`app/services/multi_source_basics_sync_service.py`).
State: `_running` and `_last_status` per service, one status document for both.
Operations: `run_full_sync` with or without `force`, `get_status`, a restart.
Hard: the flag is set under the lock and cleared outside it; `force` passes it; the
first status write comes before the `try`.
Correct when: the flag is set only while somebody works, and two overlap only by
force; the document ends with the outcome of the call that ended last.

**System configuration** (`app/services/config_service.py`, `app/core/unified_config.py`).
State: the versions in `system_configs` with their `is_active` flags, JSON files.
Operations: reads (an analysis reads too), edits of models, settings and others,
reordering, import.
Hard: a save deactivates all versions and inserts one; a reader between the two
finds nothing and stores the defaults.
Correct when: there always is a configuration, and a confirmed change is in it.

**Foreign quotes** (`app/services/foreign_stock_service.py`,
`tradingagents/dataflows/cache/adaptive.py`).
State: request locks, one cache in a database or in files, sources by priority.
Operations: a request with or without `force_refresh`, save and load, fall-back.
Hard: the second look at the cache behind the lock; a primary store that fails, so
that an answer is saved in one store and looked for in another.
Correct when: nobody gets an expired answer, nor a stale one after `force_refresh`;
requests that share the lock call the sources once per lifetime.

**Limits of the data sources** (`app/core/rate_limiter.py`,
`app/services/quotes_ingestion_service.py`).
State: the calls of the window, a lock; the rotation index, the recorded Tushare
calls of the hour, the status document.
Operations: `acquire`; `run_once`, the two back-fills, a restart.
Hard: a caller sleeps while it holds the lock; the check and the record of a call
are apart, with a fetch in between.
Correct when: no window holds more calls than allowed.

### How they interact

A request reaches either `SimpleAnalysisService` (single and batch routes, in the
web process) or the Redis queue (a worker process). Both run
`TradingAgentsGraph.propagate` in a thread and get progress through a callback that
the graph calls after every node. The scheduler runs data synchronisation jobs,
which look for a cancel mark in the scheduler's documents, report to them and share
one rate limiter. `BasicsSync` and the quotes ingestion are other jobs of the same
scheduler. Every analysis reads the system configuration first. The WebSocket and
SSE routes push copies of states that clients can also poll.

Of these interactions the models compose those in which both sides change state
that decides something: queue with workers and sweepers; graph with its agenda;
service, pool, graph callbacks and administrators; scheduler with the bodies of its
jobs. The services of `MCServices` share no state at all.

### The other components

| component | state | what is hard | correct when |
|---|---|---|---|
| Progress tracker | percentages, step list, stored snapshot; written by the analysis thread, a simulating thread and the coroutine | snapshots are stored without a lock, in any order | progress never falls; the last snapshot stored is the last state |
| Legacy analysis service | trading-graph cache | shared by threads | see section 6 |
| WebSocket and SSE | connections | pushes are detached tasks | copies of a state one can poll |

The rest (A-share providers, model adapters, users, screening, front ends, scripts)
keeps no control state of its own. `PROJECT.json` lists every component with the
reason, and under `hazards` each place where something is hard to test, with the
property that covers it or the reason why none does.

## 2. The modules

| module | models | with |
|---|---|---|
| `AnalysisQueue` | the Redis task queue, its workers and handlers | `MCAnalysisQueue`, `AnalysisQueue_proofs` |
| `Agenda` | what one analysis promises: who speaks when (abstract) | |
| `AgentGraph` | one run of the workflow graph; implements `Agenda` | `MCAgentGraph`, `AgentGraph_proofs` |
| `TaskLifecycle` | a task from its submission to its report | `MCTaskLifecycle`, `TaskLifecycle_proofs` |
| `Scheduler` | one scheduled job and the documents of its executions | `Scheduler_proofs` |
| `PaperAccount` | the simulated account of one user | `MCServices`, `PaperAccount_proofs` |
| `SystemConfigs` | the versions of the system configuration | `MCServices`, `Services_proofs` |
| `BasicsSync` | the two services that synchronise the stock list | `MCServices`, `BasicsSync_proofs` |
| `ForeignQuotes` | answers about one foreign stock, cache and sources | `MCServices`, `ForeignQuotes_proofs` |
| `RateLimiter` | the sliding window of the Tushare worker | `MCServices`, `Services_proofs` |
| `QuotesIngestion` | rotation and hourly limit of the quotes | `MCServices`, `Services_proofs` |

Every definition that stands for code has its lines in `PROJECT.json` (`map`).
Definitions named `X_Something` directly above `X` are the mutants of `X`: a
plausible bug in that code, with which a run must fail. No `Next` uses them.

### AnalysisQueue

One step is one Redis command of one process; everything between two `await`s is
local. Clients run `enqueue_task` (`CheckUserQuota` ... `PushTask`, `JoinBatch`),
workers `dequeue_task` (`Pop` ... `StartTask`), the analysis and `ack_task`
(`AckUnmarkUser` ... `AckSet`), sweepers the cleanup loop (`CollectExpired`,
`HandleExpired`, `Sweep...`), cancellers `cancel_task` (`CancelRead` ...
`CancelWrite`). `ready` is kept in service order: `RPOP` takes its head, `LPUSH`
appends.

Any of these commands may raise, and each caller has its own way to go on.
`RedisError`: `dequeue_task` and `ack_task` swallow the exception, and the worker goes
on with its loop without the task. `ClientError`: the request is refused; after the
hash is saved and before the push, the task is never in the list. `SweepError`: the scan
forgets what it has collected, or `_handle_expired_task` leaves its task where it is -
between the marks it has removed and the `LPUSH`, nothing holds the task any more.
`CancelError`: `cancel_task` returns False with the marks removed and the status
unwritten. `Crash` is the death of a process; the signal handlers only ask the worker
loop to stop after the task in hand, which is a death between two tasks. All of them
count as faults; `abandoned` are the tasks they have dropped.

Time is kept only as far as it decides something: the visibility key is absent,
written without its TTL (`bare`), armed in the second its deadline was computed
(`armed`: Redis drops it before `now > timeout_at`) or in a later second (`late`),
and `due` are the keys whose deadline has passed.

`TaskFields` are the fields the worker gives to `AnalysisTask`. `CodeFields` are
those of the code, which never validate (section 4); all runs but `queue_fields` use
`RepairedFields`, so that the success path of `ack_task` is exercised at all.

### AgentGraph and Agenda

A step is a node with the conditional edge behind it (one LangGraph super-step);
`node` is the node to run next. Texts are kept as far as the code measures them:
empty, short (at most 100 characters), medium (at most 500), long. An answer of a
model is any text with or without a tool request, or an exception; each model
behaves differently at every call. One tool call stands for several: the code only
asks whether there are any. LangGraph itself (the super-step, the recursion limit,
the tool node) is external and modelled from how `propagate` and `setup.py` use it. The
kind of model (`google`) and the recursion limit are fixed when the graph is built:
variables chosen in `Init` that no step changes (`setup`).

`Agenda` is the promise: the k-th to speak is fixed by the configuration alone, and
an exception ends the run. `AgentGraph!A` maps the graph's counters, plans and
decision to "how many have spoken, who was last, how did it end"; tool visits are
stutters.

### TaskLifecycle

One action is the stretch of the coroutine between two waits (Mongo, a thread);
`pc[t]` is where it waits. `memory`, `docs`, `reports` and `tracker` are the copies
of a task's state. The coroutine of `execute_analysis_background` is
`Validated`/`Invalid`, `CreateTracker`, two rounds of `RunningInMemory` and
`ProcessingInMongo` (10 and 20 percent; the second hands the analysis to the pool),
`AnalysisReturned`/`AnalysisRaised`, `SaveResults`, `CompletedInMemory`,
`CompletedInMongo`/`FailedInMongo`. The pool is a FIFO queue and `PoolSize` threads
(3 in the code). `ReportsProgress` is any number of `update_progress_sync` and
`graph_progress_callback` calls, each of which writes RUNNING to memory.

`DocWrite` is an `update_one` without upsert that may raise; the code logs the error
and goes on. `MarkFailed` and `RemoveTask` are the first halves of the two
administrative routes, with their Mongo halves as separate actions; `CleanupZombies`
changes memory only, because its Mongo filter is refused (section 4). `Restart` takes
memory, trackers, threads and coroutines with it and leaves Mongo. `disturbed`,
`unsaved` and `deleted` are history variables and decide nothing but properties.

Observed while modelling, without a run: after a restart the documents of running
tasks stay `processing` and only mark-failed helps; a task failed by hand while its
thread runs is turned back to running by the next progress report; deleting a running
task does not stop it, its report is still stored and the status route then answers
"completed" from the report; an invalid stock code stores `AnalysisStatus.FAILED`
where `TaskStatus.FAILED` is meant, so `end_time` stays empty; the filter
"processing" of `list_user_tasks` asks Mongo for "running", which documents never
hold; `cleanup_old_tasks` is never called.

### Scheduler

One step is what the event loop does between two awaits. `kind` is how the job's
body behaves, one of the three shapes the Tushare worker has: `perBatch` looks for a
mark before a batch (`ShouldStop`) and its report may end the loop
(`UpdateProgress`); `perItem` does so per stock, where the handler of the single
stock swallows the cancellation; `reporting` calls `update_job_progress`
(`UpdateJobProgress`), which turns the latest document, ended or not, back to
running. A body never tells APScheduler of its failures: it returns statistics, so
only a run that could not start at all counts as failed (`StartFails`).

`StartRun`, `SkipRun` and `Notify` are APScheduler (external) as the service uses it:
one instance of a job at a time, a listener per event. A listener is a detached task
(`ListenerFind`, then `ListenerUpdate` or `ListenerInsert`); `Latest` is its
`find_one` by time, `FreshRunning` the one with the window of 5 minutes.
`TriggerJob`/`TriggerRecord`, `AdminFind`/`AdminWrite` (cancel, mark failed, delete)
and `ZombieFind`/`ZombieWrite` are the other writers. Age is kept as far as somebody
asks: `Fresh` (below 5 minutes), `Settling`, `Stale` (above 30). `installed` says that
the service object, and with it the listeners and the zombie check, exists: the first
request to the scheduler's routes creates it (`OpenService`). The body's reports use a
synchronous client, hence one step.

### PaperAccount

One step is one Mongo command of one request, with the code up to the next. A buy is
`ReadAccount` (`OpenAccount`), `ReadPosition`, `Pay`, `WriteShares`, `RecordTrade`; a
sell is `ReadAccount`, `ReadHeld`, `ReadTrades` (T+1), `PayIn`, `WriteShares`,
`RecordTrade`. `OrderFails` raises at any of them, with everything written before
left in place. A reset (`StartReset` ... `ResetAccount`) deletes the account, the
positions and the trades one after the other and opens a new account; it may fail or
die after each delete (`ResetFails`), and the next view or order then opens an account
beside the positions that are left. `positions` is a sequence because nothing keeps
two first buys from inserting two documents. Prices, fees and quantities are small
numbers. `log` and `today` are history: an entry of `log` is what an order that paid
and has ended moved in cash and in shares. Deleting the account sets the cash of all
entries to zero and deleting the positions their shares, so an entry is what the two
collections still owe to the order.

### SystemConfigs

A save is `FindConfig`, `Deactivate` (`update_many`), `InsertConfig`, `VerifyConfig`;
a read is `FindConfig`, and `FindNothing` leads it through the same three commands
with the defaults, after which the caller goes on with its own edit
(`AfterDefaults`). What a version contains is the set of the changes that went into
it; a failed `find` answers with the JSON files' content (`FindRaises`), which an edit
then stores. `kept` are the changes that must still be there.

### BasicsSync

Two instances exist, one of the start-up code, one of the routes; each has its own
lock and flag, both write one status document. A call goes through `CallSync`,
`TakeFlag` or `SkipSync` (with `AskStatus`, under the lock), `PersistRunning`,
`FetchList`, `WriteBatch`, `PersistResult`, `ClearFlag`; status writes may raise
(`PersistRunningRaises`, before the `try`; `PersistResultRaises`, inside), after the
server has applied them or without. The write and the assignment of `_last_status`
behind it are one step.

### ForeignQuotes

`Ask` looks into the cache and queues at the lock, `EnterLock` looks again,
`SourceAnswers` saves and `SourceFails` goes to the next source by priority. The lock
is per data and `force` value, as the code's key is. `shared` chooses between one
service for all requests and a new one each (section 4), `primary` between a database
and files as the cache's main store; an `Outage` takes the database away. Time passes
in ticks.

### RateLimiter and QuotesIngestion

`Acquire` enters the window, sleeps with the lock (`sleeper`) or queues; `TakeLock`
and `WakeUp` follow in the order asyncio's lock keeps. `RunOnce` is a run up to its
first write (the fetch is synchronous): the source of the rotation, the permission
check, the hourly limit, the call's record. `Store` and `RecordStatus` are its two
Mongo commands, `RunOffHours`, `LookForQuotes`, `Import` and `Fill` the back-fills.

### MCServices

The six service modules share no variable. `focus`, fixed in the initial state, says
which one moves; so the run explores each on its own and no product of them.

## 3. What the runs check

| run | question | properties |
|---|---|---|
| `queue_flow` | does everything settle without faults, and is what runs counted? | `RunningIsCounted`, `EventuallySettled` |
| `queue_crash` | what do one crash or Redis error of any process, expiring keys, the cleanup loop and a cancel do to a task? | `TypeOK`, `NoTaskVanishes`, `SingleDelivery`, `NoLeakWithoutFault` |
| `queue_overshoot` | by how much can a user's limit be exceeded? | `UserOvershootBounded`, `QuotaInv` |
| `queue_lost` | is the task of a dead worker recovered? (no) | `CrashedTaskRecovered` |
| `queue_fields` | can a dequeued task be analysed? (no) | `FailureComesFromAnalysis` |
| `queue_retry` | is a failed task put back in the queue? (no) | `FailedTasksRetried` |
| `graph_full` | does a run keep to its agenda, answer every tool request and end, whatever the models say? | `TypeOK`, `RoutesDeclared`, `EqualHearing`, `RequestsAnswered`, `OwnEvidence`, `NewsNeverLoops`, `FundamentalsServed`, `NeverOutOfSteps`, `KeepsAgenda`, `RunEnds` |
| `graph_judge` | does the judge read the trader's plan? (no) | `JudgeReadsTraderPlan` |
| `lifecycle` | do the copies of a task's state stay consistent? | `TypeOK`, `ResultBehindCompleted`, `AgreeAtRest`, `StaysDeleted`, `NoLateRevival`, `EventuallySettled` |
| `lifecycle_zombie` | does the clean-up fail zombie documents? (no) | `ZombiesAreFailed` |
| `scheduler` | do the documents tell how the runs of a job ended? | `SchedulerTypeOK`, `OutcomesShown`, `OutcomeKept`, `RunningRecordsEnd` |
| `services` | do the smaller services keep what they store and what they are allowed? | `TypesOK`, `OrdersAccountedFor`, `OnlySettledSharesSold`, `CashNeverNegative`, `NeverWithoutConfig`, `ChangesKept`, `FlagTellsTruth`, `StatusSettles`, `AnswersFresh`, `LimitsKept`, `CallsSpaced` |

### What the properties excuse

The properties say what the code does keep, and name what it does not.
`NoTaskVanishes` and `NoLeakWithoutFault` excuse tasks a crash or an error dropped:
the code has no transaction and no handler for it. `SingleDelivery` excuses requeued
tasks: the cleanup loop may requeue a task that is still being analysed.
`RunningIsCounted` excuses requeued and cancelled tasks, whose marks others take away
while they are analysed: `cancel_task` acts on a status it read before. What a stale
sweep or cancel must not do as well - leave a mark behind - is `NoLeakWithoutFault`,
which excuses neither.
`UserOvershootBounded` states the overshoot: the limit is tested and acted on in two
commands, so it can be exceeded by one task per other worker. The global limit is
tested only when a task is queued, so it bounds nothing once tasks wait; no
property is stated. `AgreeAtRest` excuses tasks of which a Mongo write was lost or
which were failed by hand (or as zombies) under their running coroutine.
`ResultBehindCompleted` excuses a report Mongo refused, once a restart has taken
memory too.

`OutcomeKept` names the three writers that can overwrite a success: an administrator's
mark, a listener that had found the document before, and the next report of a
reporting job. What is left is the zombie check, which writes without looking again,
and cannot hit a success: a listener ends only documents younger than 5 minutes, the
check collects those older than 30. `OutcomesShown` excuses runs whose document was
deleted under their listener and the reporting jobs.

`OrdersAccountedFor` allows each of the two effects of an order that overlapped another
request to be lost, in full and without the other: two buys may overwrite each other's
balance and yet open a position each. An order that failed counts for what it had
written, and an order without overlap for both. A reset that failed after the account
leaves the shares on the books and the cash not, as the code does: positions bought
with money the new account still has. `OnlySettledSharesSold` holds while requests have
neither overlapped nor failed that day.
`CashNeverNegative` excuses sales whose fees exceed their value, for which nothing in
the code tests. `ChangesKept` speaks of requests that did not overlap: a reader that
overlaps a save can bring the defaults back. `NeverWithoutConfig` excuses a command
that raised between the two of a save. `FlagTellsTruth` excuses a raised first status
write, after which the flag stays set for good, and forced calls, which clear it under
another; `StatusSettles` excuses raised writes and restarts. `CallsSpaced` speaks of unforced requests
of one service, the configuration the lock was written for.

### Bounds, and why they are enough

- Queue: two workers are enough for every race of two, and with a cleanup loop in one
  of them a task can be acknowledged, requeued and popped again around a step.
  `queue_flow` has a batch of two tasks of one user, a limit of one (so that tasks
  are pushed back) and a cancel at any moment; `queue_crash` one task, a canceller, one
  fault (`MaxFaults`) of any process and a list of at most two entries (`MaxReady`: a requeued task may be
  in it twice); `queue_overshoot` three tasks, a limit of one and a slot leaked by a
  fault, so that the bound is reached. Tasks of one user and workers are symmetric
  there and only invariants are checked; no other run uses symmetry.
- Graph: `graph_full` runs all four analysts with two rounds of each debate, so
  that "first round", "next round" and "last round" all occur, both kinds of model, and a recursion limit (`RecursionLimits`) of exactly
  `StepBound` (37) or of 15, with which some runs end for lack of steps. The presets of the application use 1 to 3 rounds
  and a limit of 100; `StepBound` with four analysts and three rounds of each is 42.
- Lifecycle: two tasks for one thread of the pool, so that one waits behind the
  other; one Mongo fault (`MaxFaults`), one administrative call (`MaxAdmin`), one
  restart (`MaxRestarts`), each at any moment. The theorems of section 5 cover any
  number of each.
- Scheduler: all three kinds of body, two items a run (one before and one after a
  cancel), two firings (so a run and a trigger, or two runs, overlap with listeners,
  and a later run meets the documents of an earlier one), one incident (a pause, an
  administrative call, a restart or an error) at any moment.
- Services. Paper trading: two requests, three orders, cash for two of them, one
  mishap: two orders overlap and a third meets what they left. Configuration: two
  callers, three calls, one trouble. Stock list: two batches, three calls over the two
  services, so that a forced and a plain one overlap in one service beside the other's.
  Foreign quotes: two sources, a lifetime of three ticks of which the first two count as
  just stored, three requests, five ticks, one outage. Limiter: three jobs, two calls
  per window of two ticks, five grants, so that a job queues behind a sleeper and the
  window slides over more than its length. Ingestion: one call in an hour of three
  intervals, six intervals, one upset: the hour passes once, and the rotation comes
  round twice.

Two details differ from the code. The Mongo
store still accepts a quote in the tick in which it expires
(`tradingagents/dataflows/cache/adaptive.py:210`), where `Valid` does not: one tick of a
lifetime. `Known` keeps two administrative calls on the same task apart, which the
routes do not; each of them only changes or removes what is there.

Runs whose system really stops when all work is done (queue, graph) say
`CHECK_DEADLOCK FALSE`, and so do `scheduler` and `services`, in which nothing is left
to do once the bounded events are used up; the lifecycle has an explicit `Idle` step and is checked for
deadlock.

### Fairness

- Queue: weak fairness of each client, worker, cleanup loop, started cancel and of
  the clock. Each is a coroutine of its own process that its event loop keeps
  scheduling, and a Redis command returns or raises. A cancel need not come.
- Graph: weak fairness of `Next`; one thread drives the stream. That a model call
  returns or raises is an assumption (the clients have timeouts).
- Lifecycle: weak fairness of each coroutine, of `ThreadStarts` and of each
  `ThreadEnds`. The last says that an analysis ends: its graph is bounded
  (`StepsAreBounded`) and each of its model calls returns or raises. Progress
  reports, administrators, faults and restarts are not fair.
- Scheduler: weak fairness of a listener's steps, of the zombie check (an interval job
  of the same scheduler) and its writes, and of time. Users need not act, and the job
  need neither run nor go on: `RunningRecordsEnd` holds because the zombie check ends
  what nobody else does.
- Services: none; only safety is stated.

## 4. Where code and documentation disagree

Each is a run that TLC ends with a counterexample.

1. `queue_lost`: the visibility hash gets a TTL equal to the timeout it records
   (`app/services/queue/helpers.py:54`). Redis drops it before the cleanup loop can
   find `now > timeout_at`, so the task of a dead worker stays `processing` and keeps
   its slots, where `docs/architecture/API_ARCHITECTURE_UPGRADE.md:26` says the
   timeout prevents the loss of tasks.
2. `queue_fields`: `_process_task` builds `AnalysisTask` without the required
   `symbol` (`app/worker/analysis_worker.py:153`), so every dequeued task is
   acknowledged as failed without an analysis.
3. `queue_retry`: `docs/architecture/API_ARCHITECTURE_UPGRADE.md:27` says that failed
   tasks are put back in the queue automatically ("自动重试: 失败任务自动重新入队").
   `ack_task` stores `failed` and adds the task to `qa:failed`
   (`app/services/queue_service.py:166`), from which nothing takes it; `max_retries`
   (`app/worker/analysis_worker.py:43`) is read and not used. Only the task of a
   worker that is still alive can come back, through the cleanup loop.
4. `graph_judge`: the judge's `trader_plan` is `state["investment_plan"]`
   (`tradingagents/agents/managers/risk_manager.py:20`), the research manager's plan;
   the prompt announces the trader's.
5. `lifecycle_zombie`: the clean-up's Mongo filter puts `started_at` among the
   operators of `created_at` (`app/services/simple_analysis_service.py:2245`). MongoDB
   refuses it, the error becomes a result, and the documents stay as they are.

Noticed and described without a run: `propagate` without a callback and without
debug fails on its first chunk (`Start` with error "stream";
`tradingagents/graph/trading_graph.py:1008`); the news analyst takes the text beside
a tool request it does not run as its report
(`tradingagents/agents/analysts/news_analyst.py:390`); the risk judge's fundamentals
report is the news report (`risk_manager.py:18`); the configured recursion limit is
not passed to `Propagator`; the SSE stream of a batch with a cancelled task ends only
after its idle limit (`app/routers/sse.py:170`).

More of the same kind, part of the models (the actions do what the code does):

- Queue. The priority queue of `app/services/queue_service.py:3` is a plain list: tasks
  have no priority. An error between the saving of a task and its push, or in the cleanup
  loop before its push, leaves a task `queued` or `processing` in no list.
- Scheduler. `update_job_progress` raises the cancellation at
  `app/services/scheduler_service.py:1103` inside the `try` whose `except` (1158) only
  logs it, although the comment above (1102) says the job is about to stop; the
  `raise` of `app/worker/tushare_sync_service.py:922` ("任务被取消，记录并退出") is caught
  by the handler of the single stock (924). Listeners and the zombie check exist only
  from the first request to a scheduler route on. A scheduled run has no running
  document until it reports, so those of the checked kinds cannot be cancelled; a newer
  trigger's document hides an older one's mark; a mark left behind by one run ends the
  next. A document deleted while a listener holds it takes the outcome with it.
- Stock list. The cron job of `app/main.py` (308-328) is a lambda that returns a
  coroutine nobody awaits, so the scheduled synchronisation never runs.
- System configuration. A plain reader between `update_many` and `insert_one` of
  somebody's save (`app/services/config_service.py:530` and 553) finds no active version,
  stores the defaults (383) and may so replace the configuration. After one failed
  `find`, an edit stores what the JSON files hold.
- Foreign quotes. `app/routers/stocks.py` (98, 242, 458) creates a service per request, so
  the lock of `foreign_stock_service.py:144` is never shared; only
  `tests/test_request_deduplication.py` shares one. `CACHE_TTL` (600 s
  for a quote) is not what the adaptive cache applies (7200 s).
- Paper trading. No index keeps accounts or positions unique; T+1 applies only where a
  `paper_market_rules` document says so. A reset that fails after its first delete
  (`app/routers/paper.py:579-584`) leaves positions beside a new account with all the
  initial cash.
- Quotes ingestion. Only successful calls of the rotation count: the permission probe
  and the snapshots at start-up and off hours do not, nor do calls of another process or
  of the one before a restart. A run tries one source, where the docstring of `run_once`
  says that all are tried in turn. `QUOTES_TUSHARE_HOURLY_LIMIT` is unused.
- `app/middleware/rate_limit.py` imports `core.redis_client`, which does not exist, and is
  never installed; no route takes the Redis lock; the limiters for AKShare and BaoStock
  are unused.

## 5. What is proved

All theorems hold for every value of the constants that satisfies the module's
`ASSUME`: `ConstantsOK` (queue: finitely many workers and tasks, positive limits,
each task submitted once), `ConfigOK` (graph: distinct analysts, at least one round;
the presets satisfy it), `LifecycleConstants` (finitely many tasks, at least one
thread), `SchedulerConstants`, `PaperConstants`, `ConfigConstants`, `SyncConstants`,
`QuoteConstants`, `IngestionConstants` and `LimiterConstants` (numbers are naturals, what
the code divides a run into is not empty, requests are finitely many). Nothing else is
assumed. The bounds on faults and calls (`Max...`) are constants as well: any number of
each is covered.

**Queue** (`AnalysisQueue_proofs`). `TypeCorrect`; `QuotaInvariant`;
`UserOvershoot`. The limit itself is not inductive: a worker that has passed the
test and not yet marked its task is invisible in the set. `QuotaInv` counts marked
tasks and admitted workers together: passing the test adds one admitted worker and
requires the set to be below the limit, so the sum is at most limit plus the other
workers; marking turns one into the other. Lemmas: `QuotaSetsFinite`, `QuotaCheck`
(passing), `QuotaMark` (marking), `QuotaKept` (all other steps). Where a task is:

- `DeliveredOnce` from `OnceInv`: a task the cleanup loop has not put back is in the list
  at most once, or in the hands of one worker, or about to be pushed by one client. It
  needs `KnownInv` (a task that has not been saved is nowhere, and only the client that
  brings it saves it) and `IdleHands` (a process between two tasks holds none).
- `MarksHeld` from `LeakInv`: each of the three marks of a task - in the user's set, in
  the global set, its visibility key - by itself belongs to a live worker that is in the
  stretch of its loop where it has set that mark and not yet removed it.
- `AnalysesCounted` from `CountInv`: the converse. A worker within that stretch finds its
  mark, unless the task was put back, or cancelled, or one of the two was begun and
  failed, or a sweeper holds it.
- `NothingVanishes` from `PlaceInv` (`Placed`): a waiting task is in the list or in a live
  process's hands; the lemma `PlacedKept` says which steps can take it away, and each of
  those hands it to somebody or counts it as dropped by a fault.

**Graph** (`AgentGraph_proofs`). `GraphTypes`,
`EveryoneHeard`, `RoutesAreDeclared` and the refinement `ImplementsAgenda` follow
from `PhaseInv`: what each node may rely on about counters, prefixes, plans and
latest speaker when it is about to run - a debate router's answer depends on what
the previous speaker left, so neither equal hearing nor the routes are inductive
without it. `SetupFixed` says that the kind of model and the recursion limit stay what
they are. For the refinement, `RefinementInit` maps initial states and
`RefinementStep` maps every node to one `Speak`, an `Abort` or a stutter;
`SpeakerAt` computes the agenda's speaker at each phase.
`StepsAreBounded` and `RequestsAreAnswered` need `LoopInv` and `HistoryInv`: steps
used so far are bounded by six per finished analyst plus two per counted tool round,
the counters stop at three (or one), and a clear node leaves a single human message.
Fundamentals counts by the tool results it finds in the history, so its bound needs
the history invariant as well. `EvidenceIsOwn`, `NewsVisitsOnce` and `FundamentalsIsServed`
rest on `EvidenceInv`: while an analyst works, every tool result in the history is its
own, and neither the analysts to come nor a fundamentals analyst at work have a report.

**Lifecycle** (`TaskLifecycle_proofs`). `TypeCorrect`, and

- `ResultsAreThere` from `ResultInv`: past `SaveResults` the report is stored or was
  refused; a document is completed only then; a completed task in memory carries its
  result.
- `DeletedForGood` from `DeleteInv`: a task that is being deleted is past its
  creation, and only the creation adds to memory or documents.
- `NothingRevived` from `PoolInv` (`ThreadsAreAwaited`): the pool's queue holds no task
  twice and a queued or working thread belongs to a coroutine that waits for it, so
  no progress report comes after the coroutine has gone on.
- `CopiesAgree` from `RestInv` with the two before: what the coroutine will write to
  Mongo next is what memory already says, and whoever changes memory in between
  makes the task disturbed.

**Scheduler** (`Scheduler_proofs`). `SchedulerTypes`; `OutcomeIsKept` from `ZombieInv`: a
document the zombie check holds is stale and no success, and no document a listener
holds is stale, so the check and a listener never hold the same one.
`OutcomesAreShown` from `NumberInv` (runs, tasks and outcomes have numbers of their own;
a listener that is alone is the only one) and `ShownInv`: a document with an outcome is
not running, and one that a listener holds carries no outcome that was written alone.

**Foreign quotes** (`ForeignQuotes_proofs`). `QuoteTypes`; `AnswersAreFresh` from
`TimesPast` (what is stored and asked lies in the past); `CallsAreSpaced` from
`SpacingInv`: without outages the store that is looked at is the one that was written,
and whoever calls the sources under the lock did so because that had expired.

**Stock list** (`BasicsSync_proofs`). `SyncTypes`; `FlagIsTruthful` from `FlagInv`: who
works has the flag set, or a forced call has been seen. `StatusIsSettled` from
`SettleInv`: without troubles the document has the outcome of the call that ended last,
or a call is still to write its own.

**Paper trading** (`PaperAccount_proofs`). `PaperTypesKept`, and

- `CashStaysPositive` from `CashInv`: a buy that is about to pay has read enough cash, and
  payment stores a balance computed from what was read, so overlapping orders lose money
  but cannot overdraw.
- `SettledSharesOnly` from `SettledInv`, in four parts: an order that nothing has
  overlapped is the only one at work (`AloneInv`); as long as no damage was done, there is
  at most one position document and it holds shares (`OneInv`); what an order alone has
  read is still so, and a sale is covered by it (`ReadInv`); on a day without overlap or
  failure the shares held are those of its beginning, plus those bought, less those sold
  (`DayInv`). The last is the link between the quantity the code compares and the
  settled shares the property speaks of.
- `OrdersAreAccountedFor` from `BooksInv`. The property compares the balance and the shares
  with the sum of the orders that ended. That is not inductive, since an order in
  progress may have paid and left no trade, and any balance once read may be written
  back and undo what happened since. `Covers` says what a number may be instead: the sum
  of the log less some disturbed entries, plus some of the orders in progress, the
  undisturbed ones among them. `CashInBooks` says so of the balance and of each
  balance read that may still be written, `SharesInBooks` of the shares and each quantity
  that may be written; `NumbersInv`, `SidesInv` and `OpenInv` keep documents apart and say
  which write follows. A step leaves the books alone (`CoversKept`), adds an order
  (`CoversMore`) or ends one (`CoversEnded`). A reset takes the entries out of the sums
  (`CoversZeros`), or makes all of them doubtful when an order in progress may still write
  a balance it has read (`CoversNone`); an entry that no longer moves anything need not be
  lost (`CoversThinned`). So the books are right after each of its deletes, and a reset
  that fails there changes nothing. When no order is in progress and none was
  disturbed, only the sum of the log is left.

The sums are those of `SumFunctionOnSet`, whose recursive function is defined over finite
sets. That it is well defined (`SumsExist`), splits over disjoint sets (`SumSplits`), and
depends only on the function's values there (`SumOfSame`, `SumOfImage`, `SumOfMore`) is
proved by a smallest counterexample among the cardinalities, which needs no induction
theorem.

**Smaller services** (`Services_proofs`). `RateIsKept` from `LimiterInv`: the log is the end
of the history and never longer than the limit, what has been forgotten had expired, and
a sleeper sleeps until the oldest of a full log expires - the lock keeps others from
changing the log meanwhile. `HourIsKept` from `HourInv`, the same argument for the hourly
limit of the quotes as long as the account is not known to be a paying one; its
types need `SourceInv`, where stored quotes come from. `ConfigTypes`; `AlwaysAConfig`,
inductive as it stands; `ChangesAreKept` from `KeptInv`: a call that is alone carries
every kept change, or will write to a version that holds them, whatever place it has
reached. `TypesKept` and `LimitsAreKept` put the parts together for the specification
the run checks: a step of one service is a stutter of the others.

Every safety invariant and action property of a passing run is thus a theorem. Only
model-checked is liveness (`EventuallySettled` twice, `RunEnds`, `RunningRecordsEnd`, and
`CrashedTaskRecovered` and `FailedTasksRetried`, which fail): it needs `ENABLED` and induction over what is left
to do, which the prover does not handle. The other properties of the runs that expect a
violation are refuted by them.

## 6. What is not modelled

- Texts, prompts, model quality, market data: nothing here depends on their content
  beyond length and the presence of tool requests.
- Percentages, step lists and stored snapshots of the progress tracker; only its
  status is a variable. They are shown to the user and decide nothing.
- Several batches submitted through the web route: a loop of the modelled creation; a
  failure in the middle leaves the earlier tasks pending.
- The older `app/worker.py`: the package `app/worker/` shadows it.
- `app/services/analysis_service.py`: the worker calls it, but no dequeued task
  reaches it (finding 2); it calls `mark_completed` with an argument it does not take
  and a `remove_task` the queue does not have.
- `app/services/basics_sync_service.py`, the older synchronisation from one source: its
  flag, lock and status are those of `BasicsSync` with one instance.
- `app/worker/akshare_sync_service.py` and `baostock_sync_service.py`: they neither
  report progress nor look for a mark, so their runs are what APScheduler makes of them
  (`StartRun`, `Notify`); their loops read and write data only.
- The zombie check's limit of 100 documents per pass, and the collections that record
  pauses and triggers for display.
- The fall-back chain of `tradingagents/dataflows/data_source_manager.py`. Its shared
  `current_source` would be a hazard if sources were switched concurrently, but in the
  running system every call goes to the one source that is configured, and what remains
  is the choice of a text: `_try_fallback_sources` returns a tuple in which its caller
  looks for a mark of failure (so any fall-back counts as a success), `period` is not
  passed on, and `_get_tushare_stock_info` does not exist.
- The large rest of the repository - A-share data access and report texts, model
  adapters, provider and model catalogues, connection tests, users, screening, the two
  front ends, scripts: queries, conversions and single-document writes without a
  protocol between them. A model of them would restate assignments. That is why the
  modules cover a small share of all lines and a large share of those that wait, lock,
  retry or share state.
- Everything listed as `not_modelled` in `PROJECT.json`, each with its reason.

## 7. Plan

1. `Progress` as an extension of `TaskLifecycle`: the snapshot each of the three threads
   stores, the hazard that has no property yet.
2. The data sources behind the caches, and the workers' reports to them, as far as they
   wait, retry or share state; each with the inductive invariant of its properties.
3. Liveness stays with TLC; what can be proved of it is its safety part, the variants
   that decrease (steps left to a run of the graph, as in `StepsAreBounded`).
