# AlertTriage: formal models and proofs

TLA+ specifications of the AlertTriage service, the TLC configurations that
check them on small instances, and theorems that TLAPS proves for every
instance. Paths such as `src/cost_controller.py` are relative to the package;
`docs/` and `README.md:61` are the repository's documentation.

## 1. The system

AlertTriage takes security alerts from a SIEM or over a REST API, asks a
language model for a verdict, records what that cost, learns from analysts'
feedback, and tells other systems about it. One API server process (uvicorn,
one asyncio event loop, plus a scheduler task and a config-watcher task) serves
the routes; `scripts/run_client.py` is a separate process that triages one
batch; a Flask dashboard is a third. They share a data directory.

| Component | State it keeps | Operations | What makes it hard | What makes it correct |
|---|---|---|---|---|
| Cost controller `src/cost_controller.py` | per-process dict of records; `data/<client>/cost.json` | check_limit, record, get_spend, resets | check before and charge after an await; lazy rollover; in-place change before a write that may fail; several processes over one file | no charge lost or doubled; overrun bounded; totals roll over |
| Analyzer `src/core/analyzer.py` | coroutines, a semaphore | analyze, analyze_batch | interleaving at awaits, failures inside a gather | every alert answered, slots respected |
| Router, backends, retry `src/models/`, `src/retry.py` | backends loaded once; attempt counter and delay | route, with_retry | nested failure loops, charged but unusable answers, delays with caps | bounded calls and waits, each backend at most once |
| run_client `scripts/run_client.py` | none beyond the process | fetch, analyse, write back, exit | SIEM answers of every kind, crash between steps, failures that look like a quiet day | each run ends and means what its exit says |
| SIEM connectors `src/integrations/` | HTTP sessions | health_check, fetch_alerts, send_result | page limits, rows that do not parse, skipped write-backs | verdicts reach the alert they belong to |
| Webhooks `src/webhooks/` | registrations, `data/webhooks.json`, delivery tasks | register, update, deregister, emit, test | deliveries overlap operator changes and each other; a second writer of the file | late outcomes undo nothing; disabled for cause; durable |
| REST API `src/api/` | result store, rate-limit buckets, feedback objects | routes | limits, eviction, handlers that share globals, restarts | the window's limit holds; the store stays bounded |
| Feedback, learning, prompt hints `src/feedback/` | SQLite per client; hint cache with TTL | record, stats, hints, invalidate | two processes, recovery that archives the database, cached failures | feedback survives; hints no older than the TTL |
| Configuration versions `src/config_ext/versioning.py`, `api/routers/config_api.py` | index, snapshots, live file | update, snapshot, rollback | several files per operation, ids from a pruned index, crashes | what is listed can be restored |
| Configuration in memory `config/config_manager.py`, `src/config_ext/` | cached files of four kinds, noted modification times | get_client, reload, poll, flags, rules | any process writes any file at any time, bad contents, start-up window | nothing stale stays unnoticed |
| Health monitor and notifier `src/monitoring/` | metric windows, cooldown | record, check_health, send_alert | windows that move only when used, one cooldown for all troubles | trouble is announced |
| Reports and scheduler `src/analytics/` | schedules, report files, the loop | query, export, fire, mail | due in one minute only, mail in a thread, eight queries over a table that changes | one report per due minute, consistent sections |
| Dashboard `dashboard/app.py` | pages only, but it writes the same files | edits of webhooks, configurations, feedback, resets | a second process without locks | modelled in the modules whose files it writes |
| Onboarding wizard `scripts/init_client.py` | answers in memory, a state file, the files it makes | steps, resume, review, save, health report, --add-context | interruption or kill between any two writes | a setup can be resumed and ends complete |
| Secrets, anonymizer, cache and profiling, CLI scaffolding | little or none | lookups, rewriting, start-up | none over time | unit tests |

How they interact: the API and run_client call the analyzer; the analyzer calls
the controller before and after the router, and the prompt enhancer in between;
the enhancer reads the feedback store; the controller and router read the
client's configuration; hot reload and the config routes drop cached
configuration; the API hands events to the webhook manager; the report
scheduler reads what feedback wrote; all persistent state is files that other
processes, the dashboard above all, also use.

## 2. Modules

| Module | Models | Role |
|---|---|---|
| `CostController` | `src/cost_controller.py` | state and operators for one client's record in each process and on disk |
| `AlertAnalyzer` | `src/core/analyzer.py`, `src/models/model_router.py`, `src/retry.py`, the route and the command that call them | a transition system; EXTENDS `CostController` |
| `SpendLedger` | what cost control promises | abstract specification that `AlertAnalyzer` implements |
| `WebhookManager` | `src/webhooks/`, `api/routers/webhooks.py`, the dashboard's webhook page | registrations, deliveries and two writers of one file |
| `ConfigHistory` | `src/config_ext/versioning.py`, `api/routers/config_api.py`, `get_client` | versions of one configuration, write by write |
| `ConfigReload` | `config/config_manager.py`, `hot_reload.py`, `feature_flags.py`, `alert_type_settings.py`, the routes that touch them | what a running process has in memory of its files |
| `FeedbackHints` | `src/feedback/`, the feedback routes of API and dashboard | the store, its recovery, and the cached hints |
| `Clock` | the clocks of the API process | shared by the next three |
| `RateLimiter` | `src/api/rate_limit.py` | buckets of timestamps; EXTENDS `Clock` |
| `HealthMonitor` | `src/monitoring/` | metrics, status, notification; EXTENDS `Clock` |
| `ReportScheduler` | `src/analytics/`, `api/routers/analytics.py` | reports and their schedule; EXTENDS `Clock` |
| `ApiProcess` | `src/api/app.py` | composes the last three with the result store, requests and restarts |
| `TriageCycle` | `scripts/run_client.py`, `src/integrations/`, `with_retry` | runs of the command against a SIEM |
| `Onboarding` | `scripts/init_client.py`, `scripts/utils/` | the setup wizard |
| `*Proofs` | | the theorems about the module of that name |
| `MC*` | | values of the constants for TLC |

`PROJECT.json` ("map") names the source lines behind each definition. Operators
described as "a variation" are not part of the system: they are plausible
mistakes, used to make sure that each property notices the mistake it is for.

### CostController and AlertAnalyzer

`cache[w]` is process `w`'s dict entry for the client, `disk` is `cost.json`,
`today` is `date.today()`. A record has three totals and the two anchors of
`_empty_state`. `Loaded(w)` is `_load`: the dict entry, or what is on disk when
there is none, rolled over to the current day and month (`Rollover` is
`_rollover_in_place`). With `ReadFaults` an existing file may be unreadable and
then counts as a client that never spent anything. `Update` is a change in
place followed by `_save`, which may fail and then leaves the dict changed.
`Look` is a call that only loads, which also leaves the rolled-over record in
the dict. With `ConfigFaults` the limits may be unreadable and then none apply
(`_get_limits` returns `{}`).

An alert's `phase` says how far its analysis is. The steps follow the awaits:

- `Begin`: `analyze()` up to the first await, that is `check_limit`, the
  choice of the first backend the router has, and the first request.
  `Request`, `RequestDryRun` and `Acquire` (past the semaphore) use it.
- `Respond`: a usable response, the result, `record()` and its save.
- `RespondUnusable`: a response that was charged for and from which no result
  can be built; `route()` goes on and nothing is recorded.
- `RetryLater`, `Retry`: an error `with_retry` retries, and the end of its sleep.
- `BackendFails`: an error that is not retried, or on the last attempt;
  `Advance` takes the next backend of the chain that exists, or gives up.
- `SubmitBatch`, `BatchReturns`: a run_client process calls `analyze_batch`,
  and exits when `gather` has returned.
- `GetSpend`, `ResetDaily`, `ResetMonthly`: the dashboard's and metrics'
  totals, and the two operators' resets, which no code in the repository
  calls: they may come at any time in any server process.
- `NextAlert`: `Alert` is the set of alerts that may be under analysis at the
  same time; once one is answered (and its batch has returned) another takes
  its place, until `MaxBilled` was spent.
- `Crash` forgets a process's dict and coroutines; `NewDay` moves the clock.

`billed` and `booked` are not program state: they remember what providers
charged and what was saved, so that properties can speak of it.

`SpendLedger` is the promise without cache, file or laziness: a ledger that is
empty the moment a day or month begins, analyses that are admitted only while
both budgets have room, charged once or abandoned, and a saved part that a
restart returns to. The mapping reads the rolled-over totals of the dict entry
(of the file when there is none) as the ledger, of the file as the saved part,
and the analyses that wait for a provider as the open ones.

Abstractions: one client (no operation touches two clients' records); money as
natural numbers of a smallest unit (floats in the code, whose rounding is not
modelled); files replaced atomically, as `os.replace` does; waiting times left
out; the clock never goes back; caps are at least one unit. Limits are
constants: how a change of configuration reaches memory is `ConfigReload`'s
subject, and the two are not composed. `Request` stands for handlers on one event loop, so `record()`
and its lock need no step of their own.

### WebhookManager

`reg` is the API's dict, `disk` the file; a registration keeps its flag, its
failure count and its `settings`, one value for client, url, events and secret
(`Wants` says which events given settings subscribe to). A delivery is
identified by its webhook and event; `job` holds the settings it started with,
`attempt` and `waiting` its place in `deliver()`'s loop. `Accepted`, `Refused`,
`GivenUp`, `Postpone` and `Break` are what can come of an attempt: a status
below 300, a 4xx, the last attempt failing, a failure with attempts left, and
an exception `deliver()` does not catch. `Finish` is everything after
`deliver()` returns: it re-reads the registration, counts the outcome and
saves. `Restart` loses deliveries and loads the file, or nothing when it cannot
be read.

`_save` is three steps: `Save` changes the dict and opens `data/webhooks.tmp`,
which empties it, `SaveWrites` puts the text into the open file, `SaveReplaces`
moves whatever is in `webhooks.tmp` over `webhooks.json`; `SaveFails` or a
`Restart` may come between, after the dict was changed. The loop does nothing
else until it is over (`LoopFree`).

The dashboard, another process, reads the file (`DashboardReads`), changes what
it read (`DashboardRegisters`, `DashboardUpdates`, `DashboardDeletes`) and
writes it back through the same `webhooks.tmp` in the same three steps, or gives
up; `page` is what it read. `pen` says what each process has open: a file that
the other one moves meanwhile is followed (POSIX), so that a text may end up in
`webhooks.json` itself or in a file that is gone. Writes that overlap therefore
end in the one text, the other, an empty or a torn file, or a failed move, and
both may report success. The API reads the file only when it starts, so each
overwrites the other's changes. One request of the dashboard is modelled at a
time. `Troubles` says which kinds of trouble (failed writes, failed reads, edits) go on together in one behaviour:
`trouble` is chosen once, in `Init`. `behind`, `faulted`, `streak` and `due`
are not program state.

The application calls `emit` without awaiting it, so today no delivery starts
at all (`src/api/app.py:389`, `:468`; a finding). The manager is modelled as
its interface documents it, for callers that await. `test_delivery` changes no
registration. Times of the last success and failure are read by nothing.

### ConfigHistory

One client: `live` is its YAML file, `cache` what `get_client` keeps of it,
`index` is `VERSIONS.json` and `files` the snapshots. The routes never await,
so they run one after the other, but each makes several writes and the process
may end between two of them or inside one, which leaves the file `Torn`.
`handler` is the operation under way and its next write: `WriteSnapshot`,
`Prune`, `SaveIndex`, then `WriteUpdate` or `WriteRollback` and `MarkCurrent`.
`NextId` takes the length of the index and the second, as the code does;
`DashboardPut` may write the live file at any moment. The content saved in an
index entry, `edited`, `reused` and `gap` are not program state. `View` is what
the `ClientConfig` schema leaves of a content (it drops the sections it does not
know), `Stub` what `get_client` serves, and caches, when there is no file.

### ConfigReload

`disk[f]` and `mem[f]` are the content of each kind of file and what the
process keeps of it; `dirty` are the files whose modification time is not the
one that the watcher noted; `phase` separates loading (`Start`) from watching
(`Watch`), since what is written in between is never noticed. `Edit` is
anybody's write; the routes write and update memory in their own ways
(`UpdateClient`, `UpdateClientFlags`, `UpdateRule`, `TriggerReload`). `Poll` is
`_check_changes` for one changed file: it notes the time first, then drops the
cached client or reloads the strict file, which may raise; if it does not, flags
and alert types are read again, with built-in values for a bad file. `TriggerReload` (POST /config/reload) reloads neither the default
configuration nor the models. `IsEnabled` and `GetFlag` are the two readers of
a flag.

The watcher here polls. Where `watchdog` is installed, its observer calls back
in a thread without an event loop (`hot_reload.py:84`) and nothing is ever
reloaded; that path is left out, like deleted files and two writes within one
tick of the modification time.

### FeedbackHints

`db` and `rows` are the SQLite file and the table, `made` and `backups` the
archives that recovery renames it to, named after the second. The API has one
`FeedbackSystem` for its routes and one for the hints (`opened`), the dashboard
makes a new one for each look at what was learned. Making one can fail, which
takes the file for corrupt: `FailToOpen`, `MoveAside` (or `NothingToMove`, when
another process was faster) and `CreateTable` or `FailToCreate` are separate
steps, so two processes can recover at once and a crash can come between.
`cache` is the enhancer's entry with its expiry; `basis` in it, and the
variables listed as such, are not program state. `Hints` says which rules earn
one, by the statistics of `compute_rule_insights`. `DashboardReset` deletes
rows; neither it nor `DashboardRecord` drops the API's cached hints.

### ApiProcess, RateLimiter, HealthMonitor, ReportScheduler

One event loop under one clock. Handlers that do not await are single actions
of the parts, with guards and frames in `ApiProcess` (`BeginAnalysis`,
`RejectRequest`, `EndAnalysis`, `FailAnalysis`, `SubmitFeedback`, `HealthStep`,
`ReportStep`); `LoopFree` holds them back while a report is being made, because
its queries and exports never await. `Restart` ends whatever is under way.
`Traffic` lists what may go on together in one behaviour, and `traffic` is
chosen once, in `Init`: the parts share the clock, the loop and the restart,
and few of them act on each other.

- The limiter's `stamps` are its deques, in one process: with several workers
  each counts for itself, and a bucket is never removed. `accepted` remembers
  what was let in. `Expired` is how many timestamps `check()` pops.
- `results` are the keys of the result store, oldest insertion first: it evicts
  in that order, although the documentation calls it LRU.
- `HealthMonitor` keeps the samples with their times; they leave only when
  another is recorded (`Aged` is how many the loop of `record()` pops). `DatabaseUp` follows from `SELECT 1`, which never reads
  the file; an accuracy of 0 never alarms; the monotonic clock begins below the
  first cooldown, so the first notification after boot may be suppressed.
  `Notify` sets the cooldown before the channels are tried.
- `ReportScheduler` puts a report together from eight queries, each with its own
  connection and clock reading (`Query`); a locked database makes a section
  empty (`QueryFails`); `Export` writes a file named after client and second,
  and `SendMail` is the thread that reads it by that name. `StartCheck`,
  `PassOver`, `Fire`, `CheckBreaks` and `EndCheck` are the scheduler's loop: a
  report is due in one minute, a check that comes later skips it, and nothing
  records that it was sent. A schedule has the minutes in which it is due and
  those in which `_is_due` raises on it (`bad`), because its hour or, in the
  right hour, its day is no number: `CheckBreaks` ends the check for everybody
  who has not had a turn. The code goes through clients by name; here any order
  is possible. `RuleTables` are the rule tables that `ORDER BY fps DESC LIMIT 10`
  may leave: `RuleLimit` is the 10, and ties are SQLite's choice. Writing a
  report's file is one step, so a reader never finds half of it.

### TriageCycle

Each process of `Run` is at one await of `run()`: `pc` is "health", "fetch",
"analyze" or "send"; `attempt`, `delay` and `wait` are `with_retry`'s loop. An
answer is `RateLimited` (with a Retry-After or none), `Transient`, `Refused` (a
4xx, which ends in a traceback), `Garbled`, or what was asked for. `ElkPages`
and `SplunkPages` are the pages that a search may return: Elasticsearch the
newest matching alerts, Splunk some of them; a malformed row is dropped after it
has counted against the limit. While Elasticsearch is `degraded` (`Degrade`) a
search may miss any of them: shards that failed or timed out, an index pattern
that does not match, a proxy that answers `{}` or `null`, all with status 200. `Identified` is the set of results that
`send_result` can match to an alert: none, because the analyzer does not copy
the source's id. Analyses end one after the other here, in any order; their
spending is `AlertAnalyzer`'s subject. Nothing locks a client, so overlapping
runs analyse an alert twice. Waits are counted, not timed.

### Onboarding

`saved` is the state in memory and `stateFile` the file; `Keep` truncates the
file and `Save` completes it, so a kill, Ctrl-C or a failed write in between
leaves it `Torn`. `pc`
follows `main`: "ask", "save", "noted" (context is in the database but not yet
marked as done), "review" and then the writes. The answers, the database, the
guide and the configuration are per client. `Interrupt` is Ctrl-C and `Kill` the
end of the process, both anywhere; `WriteFails` is an error while a file is
written. `InConfig` is what of the answers the client's file gets: of the one
about the environment only the frameworks (`Compliance`), while `noted` has all
of it, in the database. `setup` numbers setups and is not program state: one that is
begun anew, also because its state file was torn, counts apart in `ContextOnce`.
`InFile` is what the JSON file makes of a
value: the result of the connectivity test becomes text.

## 3. Runs

| Run | Instance | Shows |
|---|---|---|
| `analyzer_server` | one server, 2 alerts at a time and more alerts until 3 were spent, caps 2 per day and 3 per month, costs 0 to 2, three days over two months, one crash | `Accounting`, `OverrunBound`, and that the system implements `SpendLedger` |
| `analyzer_batch` | one run_client, 3 alerts, 2 slots, 2 backends, 2 attempts, one crash, cost file and configuration may be unreadable | `TypeOK`, `WithinConcurrency`, `EveryAlertAnswered`, `BatchCompletes` |
| `hard_limit` (violation) | one server, 3 alerts, otherwise as `analyzer_server` | the documented hard stop is overrun |
| `workers_lost_update` (violation) | two servers | a saved charge is overwritten |
| `webhooks` | one webhook, 3 deliveries, 2 settings, limit 2 failures, 2 attempts; failing reads with failing writes, or with one dashboard edit and then 1 delivery | `TypeOK`, `Durable`, `ActiveForCause`, `LateDeliveriesKeepSettings`, `DeliveriesEnd` |
| `webhook_reactivated` (violation) | the same | a failure reactivates what the operator switched off |
| `config_history` | 3 contents (one with its own sections, one invalid), limit of 2 versions, 2 seconds, one crash | `TypeOK`, `ListedIsSaved`, `OneCurrent`, `SameIdOnlyWhenFull`, `NothingOverwrittenUnsaved` |
| `config_reload` | the four kinds of file with 1 to 3 good contents and a bad one, one file written during start-up | `TypeOK`, `StaleIsNoticed`, `FlagAnswersAgree`, `Converges` |
| `feedback_hints` | 2 rows that earn a hint together, TTL 2 of 3 seconds, one crash, a file that fails to open twice | `TypeOK`, `OwnFeedbackSeen`, `FreshWithinTtl`, `AcceptedSurvives`, `TableOrRecovery` |
| `api_process` | 4 ticks; limit 2 in a window of 2; 3 requests for a store of 2; cooldown 2; 2 clients, one due minute and a schedule that cannot be read; 4 rows of 2 rules, 3 of them there at the start, a table of 1 rule; one restart; six pairs of traffic | `TypeOK`, `WindowBounded`, `TroubleAnnounced`, `SectionsAgree`, `FiredOncePerMinute`, `DueServed`, `MailHoldsItsReport` |
| `triage_cycle` | each kind of SIEM, 4 alerts, one malformed, page of 2, 4 attempts, delay 1 doubling to 3, two runs, Elasticsearch whole or degraded | `TypeOK`, `QuietIsExplained`, `RunEnds` |
| `onboarding` | 2 clients, 2 setups, two answers about the SIEM, three about the environment of which two name no framework, two notes of context | `TypeOK`, `ProgressKept`, `ContextOnce`, `EndsWhole` |

Why these bounds are enough for the interesting cases:

- Two alerts at a time and caps of 2 and 3 let two analyses be admitted together,
  one overrun the daily budget, a later one be refused, and the monthly budget
  run out on another day. Spending goes on up to `MaxBilled` = 3, so that enough
  alerts come for a budget that let one in too late to exceed its bound: the
  bound is 5 for a day and 6 for a month, and 6 could be charged in one day.
  Costs of 0, 1 and 2 cover the call that is not recorded, the exact fit and
  the overshoot. Days 0 and 1 share a month and day 2 begins the next, so a
  daily and a monthly rollover both happen. One crash (`MaxCrashes`) may come
  at any point; what survives it does not depend on how many follow.
- Three alerts for two slots make one wait; two attempts and two backends reach
  a retry, a last attempt, a fallback and the end of the chain. The server run
  has a chain whose first id has no backend.
- Alerts are interchangeable in the server run, rows in `feedback_hints`,
  requests and health probes in `api_process`: these runs use symmetry. Runs
  with liveness do not.
- One webhook is enough for its own life, because deliveries and operations
  touch one registration and the file is written whole. A limit of 2 with three
  deliveries reaches a run of failures, a late success and a failure after it.
  With the dashboard at work one event is emitted (`EditEvents`): overlapping
  writes need one change on each side, overlapping deliveries are the other
  behaviours' subject.
- Two versions fill the index, so that the third prunes, and two operations in
  one second then get one id; whatever makes an id repeat needs no more. The
  second "second" makes ids differ again.
- The files of `config_reload` are written without bound; only how many may be
  written unnoticed while the process starts is bounded (`MaxMissed`), and a
  process may start again and again.
- Two rows are the smallest sample that earns a hint, and the first can be
  learned of before the second exists. Three seconds let hints expire, and two
  recoveries fall into one second or into two.
- In `api_process` a window of 2 within ticks 0 to 3 has requests at its edge
  and beyond it; a minute of two ticks lets two checks fall into one; the store
  evicts at the third result. Two rules with false positives for a table of one
  cut it off, with a tie and without, and a rule that gets better is left out of
  it; the schedule that cannot be read breaks checks before and after the other
  client's turn. Three rows are there at the start (`FirstRows`) because the
  dashboard adds the others one at a time.
- Four attempts let the delay reach its cap and a Retry-After exceed it; a page
  of two of which one is malformed loses an alert, and the second run may come
  before or after the alerts left the search. More processes add nothing: they
  share only the SIEM, which no run changes. Two clients in the wizard are the
  least for a setup that takes over another client's files.

Four runs do not check for deadlock, because the program really may stop:
run_client ends (`analyzer_batch`, `triage_cycle`), the wizard ends
(`onboarding`), and the bounded clock of `api_process` stops with nothing under
way.

Fairness: a request ends because the clients time out, a sleep ends, and the
event loop runs what is ready, so `Provider`, `Retry`, `Acquire` and
`BatchReturns` are weakly fair. For webhooks `Saving`, which is code without an
await, is weakly fair, and the step of some delivery (`Delivering`) strongly:
saves take the loop away again and again, and it runs what is ready in turn.
Weakly fair, too, is `Poll`, a loop that sleeps and polls and catches what a reload raises, and
`Proceed` of each run of run_client, whose requests, sleeps and analyses end.
Nobody has to submit anything, ask for totals, edit a file, crash, be killed or
let a day pass. Which of a provider's or SIEM's answers comes is never assumed:
liveness holds if all of them fail.

### What the code does that its documentation does not say

`PROJECT.json` ("findings") quotes the lines.

- The limit is checked before the call and charged after it, so it can be
  exceeded (`hard_limit`). `OverrunBound` is the exact guarantee the code gives:
  at most the cap less one unit, plus the dearest response for each analysis
  that may be in flight. For the API nothing bounds those but the traffic: there
  `MaxInFlight` is the number of alerts that clients have analysed at once.
- Two processes on one data directory lose each other's charges
  (`workers_lost_update`), although several workers are recommended. For the
  same reason a reset in an operator's own process is undone by a running one.
- The API and the dashboard write one temporary file, `data/webhooks.tmp`. Where
  the writes overlap, either text, a torn or an empty file may be what is left,
  and `Durable` says so.
- A webhook that is switched off comes back (`webhook_reactivated`). Proving
  `ActiveForCause` showed a second way: after an automatic disable, a late
  success sets the count to zero and one more late failure makes it 1, which
  is below the limit, so the webhook is active again. The instance here is one
  delivery too small for that; the theorem is therefore about the run of
  failures that is going on.
- Events are never delivered by the application, run_client's exit code for an
  exhausted budget is unreachable, verdicts are never written back to a SIEM,
  and a client's own value of a feature flag is dropped by validation. No run:
  they are visible in the text, and the models are built on them
  (`FlagAnswersAgree` holds because of the last).
- A setup that was tested, interrupted and resumed cannot pass its health
  report: `EndsWhole` pins this to exactly that history. An interrupted
  `--add-context` saves nothing, against its message; and the wizard overwrites
  an existing client's configuration.
- The wizard's answer about the environment goes to the database; the client's
  file gets its compliance only, although the docstring of `build_context` says
  that it is for inclusion there. "Setup interrupted — progress saved." is wrong
  when Ctrl-C comes while the state file is written: it is torn, and counts as
  none.
- A SIEM that fails every attempt of the fetch, a page that cannot be parsed, an
  Elasticsearch answer without hits (`null`, `{}`, failed shards, an index
  pattern that matches nothing) and a Splunk answer that is not JSON all look
  like "No alerts to process" and exit code 0. `QuietIsExplained` lists all that
  this message can mean for Elasticsearch; `docs/ELK_SETUP.md:231` names only
  the index pattern. A 401 ends in a traceback. A client with `siem.type: webhook`
  cannot run at all, because `WebhookOutput` cannot be constructed.
- An `initial_delay_sec` above `max_delay_sec` makes the first wait exceed the
  cap; `TypeOK` of `TriageCycle` therefore bounds waits by the larger of the two.
- One schedule whose hour is no number, which the route accepts, ends every check
  of the scheduler before the clients after it (`DueServed`); and the rule table
  of a report is cut to ten rules, so that the sections of one with more do not
  agree on which there are (`SectionsAgree`).
- A restart within a due minute sends the report again, and a check that is late
  skips it.

## 4. Proofs

`tlapm <Module>Proofs.tla` checks each module of theorems to the leaves, for
every value of the constants that the named assumptions allow (any clients,
alerts, processes, rows, contents, limits, bounds and faults). TLC evaluates the
assumptions in the runs. Each invariant is proved as an inductive one: the
initial states satisfy it, each action keeps it, and it implies the property.

- **AlertAnalyzer.** `TypeCorrect`: `Spec => []TypeOK`. `BudgetKept`:
  `Spec => []BudgetInv`. `OverrunBound` is not inductive: that a charge stays
  within the bound depends on room having been left for it when it was
  admitted. `BudgetInv` says so: what a process believes was spent leaves room
  for one dearest response for each further analysis it could admit,
  `MaxInFlight - Cardinality(InFlight(w))` of them; a process that has no record
  has nothing in flight; and a batch's coroutines belong to it. A charge takes
  the room of the analysis that ends (`ChargeStep`), an admission finds both
  totals below their caps and so all the room there is (`BeginStep`), everything
  else only shrinks totals or the number in flight (`QuietStep`, `LookStep`,
  `ForgetStep`). `OverrunBounded` and `ConcurrencyBounded` follow. They hold for
  several processes too: each keeps its own bound, and the file holds what one
  of them wrote.

  Two results speak of any number of processes and any faults. `RecordSteps`
  sorts the steps by what they do to records: nothing, forget them, or replace
  one by what was loaded with at most one charge more. It gives
  `ChargesCountedOnce`: no record ever holds more than the providers charged, so
  processes on one file lose charges and never invent any. `NeverFromTheFuture`:
  no record is anchored ahead of the calendar, where it would not roll over.

  Two need hypotheses, and the code breaks each without them. `AccountsKept`
  (`Spec => []Accounting`) assumes one process (`OneProcess`) and a readable
  file (`~ReadFaults`): `workers_lost_update` shows what a second process does,
  and `_load` takes an unreadable file for a client that never spent.
  `Accounting` is inductive with `TypeOK`: what `record()` saved is on disk, and
  the process knows what is on disk. `LedgerImplemented` (`Spec =>
  ImplementsLedger`) assumes a readable configuration besides (`~ConfigFaults`;
  without limits nothing is refused). It rests on `TypeOK`, `BudgetInv` (a
  process without a record has nothing in flight) and `Anchored`. Then each step
  maps to a step of the ledger or to none (`LedgerStep`, one lemma per kind of
  step): the ledger is emptied on the day that begins (`LedgerTurnsDay`), and
  the rollover that makes up for it at the next use changes nothing there
  (`RecLooked`); `Begin` is an admission, or a refusal that leaves the ledger
  alone; a response is a charge, saved or not; an exhausted chain is an
  abandoned analysis; and a crash returns to the saved part.
- **WebhookManager.** `WebhookTypes`: `Spec => []TypeOK`. `WebhookInvariant`: to
  show that the manager disables for cause one needs that its counter is the true
  number of failures in a row, which survives a restart only because the file is
  up to date, and that a fresh id has no history; `WebhookInv` is the
  conjunction. That the file is up to date rests on what each process has open
  and what is in the temporary file at each step of a write, as long as the
  other process stays out of it; whoever overlaps leaves `behind`. `SwitchedOffForCause` and `RegistryDurable` follow.
  `LateDeliveriesHarmless` is an action property: `Finish` counts on the
  registration it finds, so it can neither restore one nor change its settings
  (`FinishKeepsSettings`).
- **ConfigHistory.** `HistoryInvariant`: `HistoryInv` adds to the types which
  step of which operation may be under way (`Steps`), that entries are
  numbered from one until the index is full (`Numbers`), that ids
  are distinct while none was reused (`Distinct`), that one version is current
  (`Marked`), and that what an update is about to overwrite has been saved
  (`Secured`). `HistoryTypes`, `ListedVersionsAreSaved`, `OneVersionCurrent`,
  `IdsRepeatOnlyWhenFull` and `UpdatesOverwriteSaved` are its consequences, the
  last two as action properties.
- **ConfigReload.** `ReloadInvariant`: agreement already holds while the process
  starts, nothing is noted before the watcher runs, and no cached client has a
  flag. Then `ReloadTypes`, `NothingStaleUnnoticed`, `FlagsAgree`.
- **FeedbackHints.** `HintsInvariant`: a cached copy expires at most a TTL after
  it was made, and what the table gained or lost that the copy does not know
  was gained or lost since (`BasisAge`). Then `HintsTypes`, `OwnFeedbackIsSeen`,
  `HintsFreshWithinTtl`, `RecoveryLosesNothing`, `TableIsThere`.
- **ApiProcess.** `LimiterInvariant`: a bucket is the tail of what was accepted,
  in the order of time and never longer than the limit, and what it dropped is
  older than the window. `LimiterBoundsEveryWindow` follows from it: the request
  `Rpm` places earlier had been dropped. That the number of expired timestamps is
  well defined (a `CHOOSE`) is proved by the well-foundedness of the numbers.
  The health monitor, the reports and the loop have invariants of their own,
  and a step of any other part leaves their variables alone (`StepsOfHealth`,
  `StepsOfReports`).
  - `HealthInvariant`: the notifier's last attempt is not in the future, and is
    the last notification tried unless the process has tried none. Hence
    `TroubleIsAnnounced`: `_last_sent` starts at 0, so that a check past the
    first cooldown that stays silent has a notification to point to.
  - `ReportInvariant`: a file holds a report written in the second of its name,
    a mail is about a report that its file held when it was handed over, and the
    loop makes reports only for clients with a schedule. Hence
    `MailsHoldTheirReports`.
  - `SchedulerInvariant`: every report fired is (a) older than a start of the
    process, (b) a minute older than the end of the sleep, or than the running
    check, or (c) of the running check, and then its client has had its turn
    (`Settled`); and whoever is due and has had its turn was served
    (`ServedInv`), in a check that is over and in one that broke off. Hence
    `OneReportPerMinute`, by the order of `\div`
    (`MinutesInOrder`), and `EveryDueReportServed`.
  - `QueriesInvariant`: each row in a section belonged to it when the report
    began or later, and is still in the table or has moved (`Seen`); a section
    that answered has every row of its period that did not move (`Full`), and
    one that failed or is still to come is empty. The longer a report takes the
    fewer rows it must have, so both survive the clock and the dashboard. Hence
    `ReportsAgree`, with the order of the sections' periods (`SpansInOrder`:
    whole weeks fit into a period of at least seven days, a trend covers one of
    at most ninety) and two facts about counting: a rule that is singled out,
    and one whose rate of false positives falls, has a false positive.
  - `ProcessTyped` (`Spec => []TypeOK`) follows from these, with the bound of
    the result store (`CacheKeeps`).
- **TriageCycle.** `CycleInvariant`: the next delay is bounded like the waits,
  and a run has judged nothing before it has fetched. Then `CycleTypes` and
  `QuietRunsAreExplained`.
- **Onboarding.** `SetupInvariant`: how far the wizard is at each point
  (`Phases`), what the file has of memory (`OnFile`), how the result of the
  connectivity test came to be text (`ProbeStory`), which files of the client are
  already made (`Written`, `Whole`), and that the database has the answer about
  the environment from that step on (`InDatabase`). Then `SetupTypes`,
  `AnswersSurvive`, `ContextWrittenOnce`, `SetupEndsWhole`.

Every invariant and every safety property of a step that the passing runs check
is a theorem. Only model-checked is liveness under fairness, which is out of the
prover's reach: `EveryAlertAnswered`, `BatchCompletes`, `DeliveriesEnd`,
`Converges` and `RunEnds`.

## 5. Plan

Done, in this order: cost control under the analyzer with `SpendLedger`;
webhooks; configuration versions; configuration in memory; feedback and hints;
the API process with limiter, monitor and reports; the triage cycle; the
wizard; the theorems of section 4.

Left: a composition of `AlertAnalyzer` with `ConfigReload`, so that limits
change while analyses run, and what then remains of `OverrunBound`; abstract
specifications for the webhook registry and for the versions of a
configuration, with proofs that their modules implement them.

## 6. Not modelled

- Secrets, the anonymizer, `migrate_config`, and the scripts that only start
  processes: lookups and rewriting without behaviour over time. The TTL cache is
  used by its tests only, profiling measures.
- Authentication, the audit log, request validation, response bodies and
  read-only listings of the API and the dashboard; the version diff.
- Message construction for the models, loading of `models.yaml` and repair of
  single fields of a response. A response is usable or not.
- Rendering of reports, estimates of savings, the older `reporting` package,
  and host metrics.
- The observer of `watchdog` (see `ConfigReload`), deletions of configuration
  files, and writes that share a modification time.
- Wording and logging everywhere; floating-point rounding of money; the jitter of
  backoff beyond its range. Clocks never go back.
