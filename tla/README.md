# A verification project for ClickVisual

TLA+ models of the parts of ClickVisual that are hard to test, the TLC configurations that
check them on small instances, and TLAPS proofs of their most important properties for
every instance.  Everything is read off the source: the Go backend (`src/api`) and the pages
of the second web UI (`src/ui-v2`, TypeScript and React).

## 1. The system

ClickVisual is a log analytics platform: a Go backend (HTTP API, background workers,
agents), ClickHouse/Databend for the logs, a metadata database (MySQL through GORM), Redis,
Prometheus/Alertmanager for alerts, Kubernetes for configuration, and two web UIs.  Any
number of replicas of the backend run against the same metadata database; every replica
runs every background loop unless a lock keeps it from doing so.

| Component | Source (`src/api/...`) | State | Operations |
|---|---|---|---|
| Alert AI analysis queue | `internal/service/alarmai` | tables group, analysis, delivery; a worker loop per replica | Enqueue (webhook), ProcessOne (claim, analyse, commit, deliver, finish), Init, Close |
| Alertmanager webhook | `internal/service/alertmanager.go` | rule status, per-filter status, alarm history | HandlerAlertManager, observer call |
| Alarm rules | `internal/service/alarm.go`, `internal/api/apiv1/alarm` | alarm row, rule files in Prometheus/K8s, views in ClickHouse, reload channel | NewAlarm, CreateOrUpdate, OpenOperator, Update, AlertRuleCheck, reload loops |
| Leader lock | `internal/pkg/preempt` | a Redis key with a TTL, the process's belief that it is the owner | lock, renew, startFunc, Close |
| Pandas crontab worker | `internal/service/pandas/worker` | cron rows (wait, preempt, doing), local cron entries | Init, fetch, dispatch, buildCronFn, NodeCrontabStop, Close |
| Metadata database attach | `internal/service/init.go` | attached or not, started services, stop channel | Init, attach once, retry loop, Close |
| Configuration edit lock and publish | `internal/service/configure`, `internal/api/apiv1/configure` | configuration row (lock uid and time), versions, K8s config map | TryLock, Unlock, Create, Update, Publish, Delete, Sync |
| Bigdata node lock and statistics | `internal/service/node.go` | node lock uid/time, counters | NodeTryLock, NodeUnlock, SetStats |
| Reports: schedules | `internal/service/report/scheduler.go`, `service.go` | cron entries by schedule, revision of each | Start, Stop, Reload, Remove |
| Reports: execution | `internal/service/report/repository_db.go`, `service.go` | execution row (running, success, partial, failed), delivery summary | executeReportFromDB, retries, delivery |
| Reports: acceleration | `internal/service/report/acceleration.go` | plan row (pending, ready, failed), materialised views | ensure, check, apply, cleanup |
| Query tokens | `internal/service/querytoken` | tokens, grants, enabled flag, expiry | Create, Update, ReplaceGrants, Validate |
| Short URLs | `internal/service/shorturl` | short url rows, call counter | GenShortURL, redirect |
| Event log | `internal/service/event` | a channel of 1000 events | AlarmEvents, worker |
| Dependency graph | `internal/service/depend.go` | table dependencies | walk |
| Storage and trace workers | `internal/service/storage`, `storage.go` | trace rows | Sync, trace loop |
| AI gateway and troubleshooting | `internal/service/ai`, `internal/service/troubleshoot` | runs, conversation, tool budget | Run, loop |
| Saved queries and filters | `internal/service/querypublish`, `queryfilter` | published queries, filters, revisions | create, update, publish |
| Permissions | `internal/service/permission` | casbin policy, roles | grant, check |
| Agent log search | `internal/pkg/agent/search` | file positions, result cache | binary search by time, tail |
| Query compilation and factories | `internal/service/inquiry`, `querycompile`, `core` | none | SQL building |
| HTTP API, models | `internal/api`, `internal/pkg/model` | none of their own | request parsing, CRUD |

The pages of the second UI keep the state of an editor each, with requests in flight:

| Page | Source (`src/ui-v2/src/domains/...`) | State | Operations |
|---|---|---|---|
| Log query | `query/hooks/useQueryWorkspace.ts`, `query/pages/QueryPage.tsx` | selection of instance, database, table; tabs and their queries; run in flight; URL, browser storage | pick, switch and close tabs, run, cancel, refresh the tree, answers |
| Reports | `report/pages/ReportSchedulePage.tsx`, `report/components/` | selection, route, workspace, dialogs, status flags | pick, open a dialog, save, preview, create, edit, delete, answers |
| Analysis workbench | `analysis/pages/AnalysisWorkbenchPage.tsx` | workflow boards, selected node, draft, lock | load, lock, save, run, create, delete |
| Ingestion, alerts, settings, troubleshooting, overview, permissions, login | the other directories | forms and lists | CRUD requests |

How they interact: the webhook handler calls the AI queue through an observer before its own
transaction; the workers of the queue read rules and channels that the alarm handlers edit;
the leader lock decides which replica runs the crontab and the trace loop; the metadata
attach starts and stops all database-backed services; the report scheduler and the report
execution run in every replica.  The query page reads tables from the backend and runs queries
there; the report page writes reports and schedules through the handlers whose effect on the
schedulers of the replicas is another model.

What makes the system hard is that hardly anything is protected by more than one conditional
SQL statement: several replicas, several HTTP requests and background loops interleave
between a read and the update that depends on it; a process may die between any two
statements; leases and locks expire by time; and external calls (language model, channel,
ClickHouse, Kubernetes) can succeed while their answer is lost.  In the pages, effects that
follow each other's state over several commits, handlers that work with the state of an earlier
render, and answers that come late or never do the same in one thread.  `PROJECT.json` lists these
hazards at their lines.

## 2. Modules

| Module | What it is | Code |
|---|---|---|
| `AlarmAI` | the AI alert queue: webhook requests, workers of all replicas, crashes, time | `alarmai/store.go`, `worker.go`, `init.go`, model `alarm_ai.go` |
| `MCAlarmAI` | its instances for TLC | |
| `AlarmAIProofs` | type correctness and the lemmas about row updates | |
| `AlarmAILeaseProofs` | leases, attempts, one worker per job; what ends a delivery | |
| `AlarmAIQueueProofs` | the replay watermark; the job of a group, its recovery and its cooldown | |
| `SingleWorker` | abstract: the background worker runs in one replica at a time | what `preempt` is used for |
| `Preempt` | the Redis lock: loops, renewals, expiry, Close, crashes; implements `SingleWorker` | `pkg/preempt/preempt.go` |
| `MCPreempt` | its instances for TLC | |
| `PreemptProofs` | type correctness, the key is held, one worker, the refinement | |
| `CrontabWorker` | looper, crons and handlers of the pandas scheduler, over `SingleWorker` | `pandas/worker/crontab.go`, `apiv2/pandas/node.go`, `mining/crontab.go` |
| `CrontabProofs` | type correctness; a row in doing is run | |
| `QueryPage` | selection, tabs and runs of the log query page | `useQueryWorkspace.ts`, `QueryPage.tsx` |
| `MCQueryPage` | its instances for TLC | |
| `QueryPageProofs` | types; selection, rows, fields, tabs and goal | |
| `ReportScheduler` | handlers, schedulers of all replicas and executions of the reports | `report/scheduler.go`, `repository_db.go`, `service.go` |
| `MCReportScheduler` | its instances for TLC | |
| `ReportSchedulerProofs` | type correctness; what is sent, what the records say, which of them run; the entries follow the rows | |
| `ReportPage` | selection, route, dialogs and operations of the report page | `ReportSchedulePage.tsx`, `ReportScheduleForm.tsx` |
| `MCReportPage` | its instances for TLC | |
| `ReportPageProofs` | type correctness; address, selection and workspace agree, the flags are true; what a page at rest shows | |

Operators whose name ends in what a bug would do (`GrantableUnleased`, `SettableAlways`, ...) and
which are commented "mutant" are wrong variants of the definition below them; no action uses
them.  `PROJECT.json` names, for each property, the variant that violates it.

### 2.1 AlarmAI

State and code.  `group`, `job` and `delivery` are the tables `cv_alarm_ai_group`,
`cv_alarm_ai_analysis` and `cv_alarm_ai_delivery`; a `notifier` is a webhook request inside
`Enqueue`, a `worker` one `ProcessOne` loop (its `pc` is the place in the function, the other
fields are its local variables); `alarm` and `eligible` are what the rule and its channels say;
`sends` is a history of the messages that reached a channel.  Every action is one statement or
one transaction; the values read by an earlier one are kept in the notifier or the worker.

| Action | Code |
|---|---|
| `EnqueueRead`, `EnqueueResolve`, `EnqueueOpen`, `EnqueueRetry` | `enqueueEvent` and the retry loop of `Enqueue` (store.go 44-150) |
| `ClaimRead`, `ClaimExhausted`, `ClaimGrant`, `ClaimLost` | `claim` (store.go 162-196) |
| `Check`, `AnalyzeOk`, `AnalyzeFail` | the access check and the model call (worker.go 51-74) |
| `CommitResult`, `CommitRefused` | the transaction that stores the result (75-101) |
| `Sweep`, `Deliver`, `GrabDelivery`, `SendReaches`, `SendFails`, `Confirm`, `DeliverEnd` | the delivery loop (102-155) |
| `CountPending`, `FinishJob` | 156-169 |
| `TimedOut`, `Shutdown`, `Crash` | the end of `workCtx`, `Close`, a process or statement that fails |

Abstractions:

- Timestamps are only compared with "now", so a row holds the time that is left and `Tick`
  counts everything down.  A tick is about 90 seconds; it does not fall between the select and
  the update of one claim, which take milliseconds.
- The owner of a lease is a fresh uuid for each claim in the code and the worker in the model;
  a worker has at most one claim, and `finish` clears the owner.  A worker that comes back after
  a crash may therefore find its own old lease, which only makes the model weaker.
- A merged event only increments `event_count`; nothing reads it, so it is a stutter.
- `checkAccess` and the reading of the eligible channels are one step.
- `Crash` also stands for any database error that makes `ProcessOne` return.
- MySQL row locks make some interleavings of two transactions impossible that the model has.

### 2.2 SingleWorker, Preempt

`key` and `ttl` are the Redis key; a process has the pc of its `Close`, `isOccupy`, whether
`startFunc` runs, and whether its loop still has to run in the current tick (`due`).  A tick is
one `retryInterval` (30 s), so the real `lockTime` is 6 ticks, the value of the main run.  `Tick`
may leave a loop behind: that is a late loop and is counted.

`LockAssumption` says that late loops and failing commands together stay below the lock time.
Beyond it the lock does not exclude: `EXPIRE` does not look at the owner, `isOccupy` is never
reset, and the owner check and the delete are two commands.  A replica that lost its key would
go on working and renew the key of its successor.  The assumption is the price of the lock, and
the proof shows that it is enough.

`SETNX` and the assignment of `isOccupy` are one step; a `Close` in between would leave the key
behind, exactly what `Crash` does.  Redis losing its data is not modelled.

### 2.3 CrontabWorker

`row` is the table; `cron[r][n]` is the entry of `crones` in replica r, with the running crons that
have lost their entry (`strays`); `looper[r]` is the round of the looper: the rows it fetched, the
row it is at, and the cron it has started and not yet stored.  A request is one call of a handler
with what it read.  `Elect` and `Resigns` conjoin the actions of `SingleWorker`, so the module
composes with any lock that implements it, `Preempt` among them.

The schedule of a row stands for everything `isReload` compares.  Nothing keeps a node from having two rows:
`database.sql` has no unique key, and the gorm tag (`mining/crontab.go` 14 `uix_node_id,unique`) names none.  A second
row comes from a second create, which does not look for the first, from two updates of a node without a row, or from
an update whose read fails (node.go 140), which goes on as if nothing was found.  So `row[n]` has a number of places
(`Slot`); an UPDATE or DELETE means all rows of the node, a read gives any of them.  What a cron does when it fires is not modelled, only that it runs.

### 2.4 QueryPage

`page` is a record of the state of the component: what `useState` and the refs hold, the requests in
flight and what the browser keeps (URL, local storage).  React gives the shape of the steps:

- an event handler or an answer computes the next page from the page as rendered, with setters that
  compare with that render (`SetInstance(u, w, i)`: u is the render, w the page so far);
- `Commit` runs every effect whose dependencies changed, in the order of their declaration, hook
  first.  `seen` holds the dependencies of the last commit.  A memo like `selectedTableEntry` is an
  object of the list last fetched, so its dependency is the number of that list and its key;
- effects lead to further commits until nothing changes (`Settled`).  Answers come between any two
  commits; the user acts when the page is quiet, since a cascade takes milliseconds.
- The timer of a closed tab (`setTimeout(0)`, QueryPage.tsx 6544-6547) switches with the page of the click.  A list can come
  before it fires, and then it overrules what the list selected.  `late` is a history: the last list came before the
  timer of a closed tab.  It lasts until the next list, because a late timer may leave the id 0 beside the names of a
  table, and a click on that very table then changes nothing that an effect follows.  `SelectionAgrees`,
  `ResultsOfSelection` and `GoalIsSelected` say what they leave out then; section 5 says what happens.

| Action or operator | Code |
|---|---|
| `InstanceEffect`, `DatabaseEffect`, `TableEffect`, `FieldsEffect` | the effects of the hook, useQueryWorkspace.ts 967-1067 |
| `UrlEffect`, `InitialEffect`, `RestoreEffect`, `StoreEffect`, `KeepEffect`, `TabEffect`, `AutoEffect` | the effects of the page, QueryPage.tsx 4164-4304, 4425 |
| `RunQuery`, `RunAnswer`, `Accepted` | `runQuery` before and after its await (1140-1272) |
| `TreeAnswer`, `Resolved`, `PreferredInstance` | `refreshSourceTree` after its await (928-952) |
| `PickTable`, `ClickTable`, `ClickTab`, `CloseTab`, `TimerFires` | `selectTableAndQueryRecentLogs`, `switchLogTab`, `closeLogTab` with its timer |
| `MenuOf...`, `Type`, `Run`, `Cancel`, `CreateTable`, `DeleteTable`, `Reload` | the other events of the user |

A query is named by the table it was typed for.  A request that was aborted may still be answered.
The tree is asked for without abort or staleness test, so two refreshes overlap in the model too.
`started` stands for `initialQueryStartedRef` and keeps, instead of a flag, on which list the first query ran; a run and its
rows say whether they are the first query (`first`).  Both are for `ResultsOfSelection`, see section 5.
`validOpenLogTabs` may be a new array with the same tabs, which runs the effect that stores them again.  That matters
once, after the restoring, whose own commit skips the write: `Deps` has `restored` beside the tabs.
Conditions and input modes are kept per tab exactly as the query text is, and left out.

### 2.5 ReportScheduler

`row[r]` is a report with its schedule, `record[e]` the row of an execution; `sched[p]` the scheduler of
replica p: the place in `Start`, the entries, and the `Reload` that holds the mutex with what it has read;
`req[q]` a handler, `exec[e]` an execution with its local variables.  A handler commits its write and reloads
afterwards, in another step, so two handlers and their reloads interleave.

| Action | Code |
|---|---|
| `Start`, `LoadNext`, `Started`, `Close`, `Exit` | `Scheduler.Start`, `Stop`, `Close` of the service (scheduler.go 55-88, init.go 197) |
| `Lock`, `ReadSchedule`, `AddEntry`, `Remove`, `Snapshot` | the parts of `Reload` between its statements, `Remove`, `Snapshot` (90-180) |
| `CreateReport`, `UpdateReport`, `SaveSchedule`, `WriteSchedule`, `DeleteReport` | the handlers (repository_db.go 67-262) |
| `AnswerLost` | a write that was carried out and whose answer is lost: the handler returns the error, without reload or removal (190, 249) |
| `Fire`, `RunPreview`, `ReadReport`, `ReadItsSchedule`, `Insert`, `Send`, `NoChannel`, `Record` | `executeReportFromDB` and its pipeline (487-687) |

`missed[p]` (reports written since p last read them, by another replica or with a lost answer), `got` (the channels reached) and the field
`live` of an execution are histories, read only by properties.  `Send` may reach its channel and time out.
A failed `Start` makes the process wait for its executions and end (`failed`).  What is only displayed
(`next_run_at`, `last_run_at`) is left out, and so are failures of writing it, which come last.

### 2.6 ReportPage

Built like `QueryPage`.  `page.load` is the load of the effect, of which there is one that counts; `ops` are the
writes with the load that follows each; `server` has the reports and their schedules.  A request is carried
out at some time (`ServeWrite`, `ServeReload`, `ServeLoad`) and answered later, so a load can be served before a
write and answered after it.  `Lose` fails a request before or after the server carried it out.  The list with
its buttons, and so every click that selects, is there only while nothing loads (`Listed`, ReportSchedulePage.tsx 857); the
button that creates and an open dialog are there at any time, so a create or an edit may be submitted while a load is out.

| Action or operator | Code |
|---|---|
| `LoadEffect`, `NavEffect`, `PendingEffect` | the effects, ReportSchedulePage.tsx 223-341 |
| `Pick`, `OpenAction`, `CloseDialog`, `OpenForm`, `FormOpens` | the buttons and dialogs (454-478, 568-648, 904-976) |
| `SaveSchedule`, `RunPreview`, `SubmitEdit`, `SubmitCreate`, `DeleteReport` | the handlers up to their await |
| `WriteAnswer`, `ReloadAnswer`, `LoadAnswer` | what follows the awaits (195-221, 253-272, 343-417, 544-720) |

`goal` and `asked` remember what the user clicked; `tally` counts clicks and failures and notes whether
operations overlapped: two writes, or a write and a click that selects.  Properties that do not hold with overlaps or
failures say so in their premise; the hazards in `PROJECT.json` name the lines.

`RouteFollows` allows the selection 0, which leaves the choice of a report to the server.  It stays 0 when the last
report listed is deleted while another one is being created: the answer of the create opens the new report and the
answer of the delete, which knows only the old list, takes the selection back (ReportSchedulePage.tsx 696-720).  The runs
start with two reports and have no room for this; the attempt to prove that the selection is always
the report shown found it, and TLC shows it with `AtFirst = {1}`.  Address and workspace agree there too.

## 3. Runs

| Run | Bounds | What it shows |
|---|---|---|
| `alarmai_queue` | 1 worker, 2 requests, 2 incidents and recoveries, 2 jobs | stale and reordered events, compare-and-set, superseding, recovery and cooldown |
| `alarmai_delivery` | 2 workers, 1 incident and its recovery, 1 channel, 1 crash, 1 edit | leases, attempts, a confirmed send is final, settled jobs rest, a recovery stops the analysis of its incident |
| `alarmai_live` | 2 workers, 1 incident, 1 channel, 2 crashes, 2 edits, fairness | every job settles; no send after the end of a delivery |
| `alarmai_recovery` | 1 worker, 2 incidents | violation: a superseded job is analysed after the recovery |
| `preempt` | 3 replicas, lock time 6, 2 late loops, 2 faults, 2 stops, 1 restart | the key is held, one worker, implements `SingleWorker`, somebody works again |
| `crontab_requests` | 1 replica that crashes and restarts, 2 nodes with places for 2 rows, 3 schedules of which one is bad, 3 updates between the rounds, 1 fault | a node with one row has no second cron and no other schedule than the row's; suspended, it has no cron |
| `crontab_doing` | 2 replicas, 1 node with 1 row, 2 requests of all kinds at any time, a close or crash, 1 restart, 1 fault | a row in doing has a cron while nothing stopped or failed; a waiting row is picked up by the next worker |
| `query_select` | 4 tables of which 2 are there at first, 3 databases, 2 instances, 3 events of the user, lists before and after the timer of a closed tab | selection, rows, fields, tabs and the loading flag agree with what was asked for last |
| `query_goal` | 3 tables, 2 instances with a database of one name, 2 events | violation: the table clicked is not the one selected |
| `report_scheduler` | 2 replicas, 1 report, 2 requests, 1 execution, 2 channels, 2 attempts, 1 failed statement or lost answer, crash or stop | entries follow the rows, nothing suspended is sent, records are true, a stop ends |
| `report_page` | 2 reports and 1 to create, 2 writes, 2 clicks, 1 lost request | address, selection and workspace agree, the report clicked or created last is shown, flags end, a saved schedule is shown |
| `report_asked` | the same | violation: the dialog asked for on another report never opens |

Why the bounds are enough.  Two attempts instead of three, and a lease of two ticks over a
timeout of one, keep the order of all comparisons (`WorkTimeout < LeaseDuration`).  Two workers are
what it takes for a lease to change hands; a slow worker outlives its lease without a crash, so it
changes hands more than once and the attempts are used up.  Two start and two end times, interleaved, give every relation between two incidents.
A crontab race involves one row, one round and one or two requests; in `crontab_requests` the second node
is there because a round handles its rows one after another.  A second row of the node matters by what the next update
does to both, so two places (`Slot`) are enough; in `crontab_doing` there is one, and `DoingIsRun` is proved for any number.  The lock needs a third replica for the
case that two wait for the key.  On the query page a race takes two selections and a third event; the tables
give it a second table in the database, a table of the same name in another database, and another instance,
whose database has a name of its own in `query_select` because of `query_goal`.  A report entry goes wrong
by two handlers of one replica and one of another, all on one report; an execution needs two channels for a
partial result and two attempts for a retry.  On the report page two writes overlap each other, the
load of a click and a click that selects, and a third report is what a create adds.

`CHECK_DEADLOCK FALSE` is set where the system comes to rest: the crontab (its time does not pass in the
model), the two pages and the report service, when no event of the user, request or execution is left.
Symmetry is used where no property names the elements and the run has no liveness property.

`crontab_requests` restricts when requests arrive (`Overlap = FALSE`): between two rounds and
one by one.  A round takes milliseconds and the looper sleeps three seconds, so this is the usual
case; section 5 says what happens in the other.

### Fairness

- `AlarmAI`: workers and requests go on (their loops have no exit), and time passes while nobody is
  inside a database statement (`PromptTick`).  Without the latter two replicas that always outlive
  their leases can take a job in delivery from each other for ever, since a claim for delivery
  does not count an attempt.  Crashes are bounded.
- `Preempt`: every loop runs, a process that was told to stop exits, time passes.
- `CrontabWorker`: loopers, handlers and shutdowns go on, and the lock is taken while somebody
  wants it (the lemma for this is `SomeoneWorks` of `Preempt`).  Processes need not restart: `WaitIsPicked`
  asks for nothing when all of them are down.
- The pages and the report service have no fairness: a request may never be answered and a user
  never come back.  That a stop of the report service is never stuck is stated as `CloseGoesOn`: some
  step it waits for is enabled, in every state.

## 4. What is proved

All theorems hold for every value of the constants that the named assumptions allow.  Those of `AlarmAI` and `Preempt`
relate durations; the others only keep names apart, make sets that are chosen from not empty and bounds natural numbers.

- `AlarmAIProofs!TypeCorrect`.  `TypeOK` is inductive as it stands because it says, besides the
  shapes, which program counters imply a job, a channel and an outcome.
- `AlarmAILeaseProofs`: `LeaseInv` is the inductive invariant.  Neither `AttemptsCapped` nor
  `OneBusyWorker` is inductive: that nobody counts an attempt twice follows from the lease, and the
  lease protects a worker because its context ends first (`LeaseAssumption`,
  `WorkTimeout < LeaseDuration`).  So the invariant says that a worker whose context lives
  remembers a lease that is longer than the context, that the row still holds that lease (or was
  cancelled by a recovery), and that while it sends the delivery row holds it too.
- `AlarmAIQueueProofs!WatermarkAdvances`: a request that has read a group carries a version that is
  at most the group's, and if it is equal what it planned is still true of the group; every
  write increments the version.
- `AlarmAIQueueProofs`, the jobs: `CurrentJobIsOfIncident`, `RecoveryQuietsItsJob`, `CooldownsAreEarned` and `SettledJobsStay` from
  one invariant, `JobInv` (`JobsKnown`).  What a group says of its job is not inductive, since the workers write the
  job long after the group changed: so `Knows` says what a worker may believe of its job, `RowOf`
  what the status of a row says of its other fields, and `CurrentOf` that a recovery leaves a cancelled job without owner, which
  is why no `finish` reaches it any more.  The effects of all statements on a row of the table are a handful of relations
  (`Born`, `Cancelled`, `Taken`, `Committed`, `Finished`, ...), and each part of the invariant is proved against them.
- `AlarmAILeaseProofs`, the deliveries: `NothingFollowsTheEnd` and `SentStaysSent` by `SendInv`: a live worker about to send holds a
  pending delivery, and a confirmed one has no owner that could record anything else.  They need `LeaseInv`: the one
  who ends a delivery is a live worker of the same job, so it is the one who sends.
- `PreemptProofs`: `TypeCorrect`; `KeyIsHeld`, with `HeldInv` as inductive invariant: whoever works, or is
  between the owner check and the delete, owns the key, and its time to live plus what has
  already gone wrong plus the round its loop is due makes up the whole lock time.  A tick takes
  one from the first and makes the loop due or counts it late; a failed renewal takes the round and counts as
  a fault; so the key cannot run out.  `AtMostOneWorker` follows, and
  `LockImplementsSingleWorker`: `Lock` maps to `Take`, `Close` and `Crash` of the worker to `Leave`, all else to a
  stutter.

- `ReportSchedulerProofs!TypeCorrect`: `Shape` is `TypeOK` in parts, one for the rows, schedulers, handlers and
  executions and one for the rest, and inductive: besides the shapes it bounds the attempts and the counted
  channels, and says that a reload that holds the mutex has a report, which the entries need.
- `ReportSchedulerProofs`, the executions: `NothingSuspendedIsSent` by `SeenInv`: while an execution is at work, the rows that are
  enabled now and those it has seen enabled are among those that were enabled since it began, and it sends only
  if it has seen both.  `RecordsAreTrue` by `CountInv`: with no bad channel all those counted were reached, with a
  good one some was, and at the end every channel was counted.  `RunningRowsRun` by `RunInv`: without faults and
  crashes a scheduled row that says running has its execution at the sends or behind them; a stop waits for it.
- `ReportSchedulerProofs`, the entries: `EntriesFollowRows` and `NoOldEntryFires`.  Neither is inductive: between a write and its reload the
  entry is wrong, and a reload that read the rows before the write puts it back afterwards.  `EntryInv` says
  when it is right: an entry, and what a reload in progress has read, agree with the row unless a handler of
  the replica still owes a reload or a removal, or another replica wrote the row; the reload that holds the mutex
  is made for the handler that waits for it, after the entry was removed; and a removal is only owed for a
  deleted report, which nothing writes again.  A write whose answer is lost is one that no scheduler knows of
  (`EntryUnheard`), like the writes of other replicas.

- `CrontabProofs`: `TypeCorrect`; `DoingIsRun`, with any number of replicas, requests of all kinds and `Overlap`, from `DoingInv`: a
  row in doing, whatever other rows the node has, has a cron, one that was started and is not yet stored, or a request that stopped it and will write
  "wait" (the property's premise, nothing stopped and nothing failed, is carried back by the bounds, which only shrink).
  The premise is needed: a crash between the two statements of a start leaves a row in doing that nothing runs.
- `ReportPageProofs`: `TypeCorrect`, `RouteFollowed` and `BusyTrue`, with operations of all kinds that overlap and fail as they like.
  A page at rest is the end of a cascade, so the invariant `Inv` is about the commits in between.
  `Settling` says that each disagreement of address, selection and workspace has an effect that has not run or an
  answer that has not come and ends it; `NavInv` and `PendInv` say which effect is still to run; `LoadInv` that the loading
  sign is on exactly while a load counts.
- `ReportPageProofs`, a page that rests after operations of which no two overlapped: `GoalShown`, `ActiveIsThere` and `SavedShown`, whose premises
  (no overlap; no failure, or none that matters) are those of the properties; a write may begin and end while the load of
  a click is out.  A step is first reduced to what it does to the
  fields these depend on (`Steps`, twelve relations such as `Commits`, `Selects`, `Served`), so the effects of a
  commit are looked at once.  `AloneInv` says that there is one operation at a time, and `DialogInv` which dialogs
  may be open while a load is out; `GoalInv` that what is to come, load, effect or answer, leads to the goal; `KnownInv` that the schedule
  shown is the server's unless a save was carried out and is not answered; `FreshInv` that without a failure all reports
  selected, listed, loaded or about to be are there, or are gone by the delete the page will hear of.

- `QueryPageProofs`, for every list of tables, any set of them at first and any number of events: `TypeCorrect`, `LoadingTrue`,
  `SelectionHolds`, `ResultsBelong`, `FieldsBelong`, `TabsStored` and `GoalSelected` from one inductive invariant
  (`PageInvariant`).  The properties speak of a settled page, the end of a cascade; the invariant says of every page in
  between that what is wrong is due: an effect whose dependencies have changed puts it right.  `SelInv` is the chain: the
  name is one of the database or the effect of the database is due; the id is the one last seen or none, and exactly
  that one unless the effect of the table is due.  `ResInv`: rows and accepted runs are of the selected id or an
  effect that clears them is due.  `SeenInv` says that the dependencies seen fit together and are of no newer list;
  `OpenInv` and `StartInv` what is different before the first list and on it; `TimerInv` that a click that waits for the
  timer of a closed tab finds the selection it was made with, unless a list came in between.  Helpers and effects are reduced to relations first
  (`Hooked`, `Paged`, `Chosen`), and steps to six kinds (`StepIs`): commit (`Moves`), selecting handler
  (`Selects`), list (`Lists`), a timer that overrules a list (`Overrules`), a step that leaves the selection alone
  (`Stays`), a page that opens (`Anew`).  What a late timer may break is allowed by `late`, and only until the next list.  TLC checked the
  invariant before, also without tables at first.
  `GoalSelected` assumes `DistinctDatabases`: no two instances have a database of the same name.  Without it finding 2
  refutes it; the other theorems do not need it.

Only model-checked: `RunsAsWritten` and `SuspendedIsQuiet`, whose setting (one replica, requests between the rounds and one
by one) is the run's and not the code's; liveness (`JobsSettle`, `SomeoneWorks`, `WaitIsPicked`; the prover has no rule for
fairness), `CloseGoesOn` (ENABLED), and `RecoveryStopsAnalysis`, which holds of one incident and its recovery
only (finding 1).

## 5. Findings

1. A superseded job comes back (`alarmai_recovery`).  `enqueueEvent` cancels the older jobs of a
   fingerprint by status only (store.go 146-148); their leases stay.  When the analysis of such a
   job then fails, `finish` (worker.go 167-169) tests only the owner and sets it to queued.  A recovery
   that arrived in between did not see it, so it is analysed and sent after the recovery.
2. A table of another instance is not selected if its database has the name of the selected one
   (`query_goal`).  `setSelectedDatabase` (useQueryWorkspace.ts 1485) compares with the database of the render, finds it
   equal and returns, although `setSelectedInstanceId` has just emptied it; the effects then select the
   first database and table of the instance, and the query of the click never runs.
3. The dialog of a report that is not shown does not open (`report_asked`).  `handleOpenReportAction` sets the pending action
   and the selection together; the effect of the selection (ReportSchedulePage.tsx 240) clears the pending
   action in the same commit.

Limits of the crontab that the model shows when the bounds of its runs are lifted, and that the properties
exclude by name:

- A node with a second row gets a cron for each: the second takes the entry of the first in `crones`, which
  nobody can stop any more (crontab.go 212).  `RunsAsWritten` and `SuspendedIsQuiet` speak of nodes with one row.
- When both updates of the status fail in one round (crontab.go 149, 211, whose errors nobody looks at), the row
  still says wait, and the next round starts a second cron: `crontab_requests` with `MaxFaults = 2` shows it.
- Suspending a node stops the cron of the replica that serves the request only (node.go 187): `SuspendedIsQuiet`
  is checked with one replica.
- A request that suspends a node while a round has fetched its row is overtaken by the round, which starts
  the cron (crontab.go 211): it is checked with `Overlap = FALSE`.
- `Close` does not wait for the round that goes on (crontab.go 96), which may leave a row in doing that
  nothing runs, as a crash or a failed statement does: `DoingRuns` speaks of states before those.

Further places of this kind, which no property covers (paths as in section 1):

- Crontab: deleting a row leaves its cron running (mining/crontab.go 39); an update that fails after the cron was
  stopped (node.go 193) leaves the node without one.
- Reports: a write that was carried out and whose answer is lost is not reloaded by anyone (repository_db.go 190, 249), so
  the old entry goes on firing until the next write or restart: `missed` keeps `EntryFollowsRow` from asking for more.
  An execution row stays running when the process dies in it (repository_db.go 502); a replica that did not serve
  the write keeps its old entry, and every replica fires each schedule; a channel that timed out gets the message again.
- Query page: a list that comes between the click that closes a tab and its timer is overruled by the stale closure
  (QueryPage.tsx 6544-6547).  With the tables 1, 2, 3 of one database: click 3, create 2, close the tab of 3; the list selects
  2, the one created, and the timer then picks 1, the tab that was left.  And click 2, delete 2, click 3, close 2, close 3:
  the list selects 1, the timer takes the id away and sets the names to what they are (useQueryWorkspace.ts 1469-1495), so no effect brings
  the id back and the page shows a selected table of which it has no id, until another table or list.
  The first query is run by an effect of the page for the id of the render (QueryPage.tsx 4182), in the commit in
  which an effect of the hook may give the selection another id (useQueryWorkspace.ts 1026): its rows are then of
  a table that is no longer selected.  The proof of `ResultsOfSelection` failed on this; the run cannot show it, since it takes
  a page without tables on which two are created, and the second list between the commits of the first.  With
  `AtFirst = {}` TLC shows it.  The property leaves out the first query on a later list than the first, and only that.
- Report page: answers of overlapping operations are merged into whatever report is shown (ReportSchedulePage.tsx 201).
- Analysis page: boards and nodes are loaded without a test for a later choice (AnalysisWorkbenchPage.tsx 963, 1187), and the
  node's lock is a check and a later write (service/node.go 146).
- Alarm rules: the rule and its files in two transactions, the reload channel's length tested before the send
  (alarm.go 536, 591); a webhook that writes a status it decided on from an old read (alertmanager.go 94).

## 6. Not modelled, and the plan

In the order in which the modules will be added:

1. `Workbench`: the analysis page with its node, draft and lock, over `NodeLock`, a check and a later write
   (`service/node.go`); `EditLock` for configurations shares it (`configure/lock.go`), against an abstract mutual
   exclusion.
2. `ReportAcceleration`: the plan's status against the views that exist; the attach loop (`init.go`), which restarts
   the report scheduler while the replica serves.
3. `AlarmRules`: the status of a rule against its files, the webhook's status machine, the reload
   channel and the rule check; with the alert pages.
4. The trace worker under the leader lock, the event channel, `QueryToken` and `ShortURL` as small modules, and
   the agent's binary search as an algorithm checked against a reference definition.

Left out for good: SQL generation and query compilation (stateless text), the clients of Kubernetes
and of the language models (external), request parsing, plain CRUD, permissions (decided by
the casbin library), the forms, texts and layouts of the pages, and the first web UI, which the second
replaces.  Most of the lines of the user interfaces are of this kind, so the modules stand for a small
part of them.  `PROJECT.json` gives the reason for each component.
