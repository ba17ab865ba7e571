# Sinfonia: a TLA+ verification project

Sinfonia is a daemon that polls an issue tracker, claims issues and runs one
coding agent per issue, and a bridge that listens to GitHub webhooks, feeds CI
results back into the tracker and (optionally) lands approved pull requests.
This directory holds TLA+ models of the parts whose behaviour depends on
interleaving, failure and restart, TLC configurations that check them, and
theorems that TLAPS proves for every value of the constants.

Paths below are relative to the repository: `D/` stands for
`crates/sinfonia/src/`, `O/` for `crates/sinfonia/src/orchestrator/`, `BR/` for
`crates/sinfonia-bridge/src/`, `TR/` for `crates/sinfonia-tracker/src/`.

## 1. Inventory

| Component | State it keeps | Operations | Model |
|---|---|---|---|
| Scheduling core (`O/mod.rs`, `O/retries.rs`, `O/dispatch.rs`, `domain.rs`) | `running`, `claimed`, `retry_attempts` behind one mutex; sleeping timer tasks; worker tasks; the report channel | poll tick (stall detection, reconciliation, dispatch), retry timers, `schedule`, worker exit, restart | `Scheduler`, `ClaimLifecycle`, `RunProtocol` |
| Merge coordinator (`BR/merge/mod.rs`) with `landing_queue` (`BR/storage.rs`) | one row per pull request: head, status, attempt, `updated_at` | enqueue on approval, CI green/red, kick, update branch, check, merge, park, boot reconciliation | `MergeCoordinator` |
| Webhook ingress (`BR/webhook/`) | processed delivery ids, PR to ticket map | verify, deduplicate, dispatch, name the ticket | `Feedback`, `MergeCoordinator` |
| Feedback loop (`BR/feedback/`) | attempt counter, labels and state of the ticket (kept by the tracker) | evaluate CI, count attempts, cap, field writes, transitions | `Feedback`; its outcome for a landing in `MergeCoordinator` |
| Tracker adapters (`TR/`) | none of their own; Linear's marker comment is a record stored in a comment | candidate and state queries, transitions, custom fields | query results in `Scheduler`; custom fields of both trackers in `Feedback` |
| GitHub client (`BR/github/`) | installation token | construction, pull request, check runs, update-branch, merge, labels, comments | the four calls of the coordinator in `MergeCoordinator`, construction in `BridgeSettings` |
| Workspaces (`D/workspace/`) | directories on disk | create, hooks, remove, terminal sweep, age sweep | `Workspaces`, in `Attempt` |
| Attempt runner (`O/runner.rs`, `D/agent/turn.rs`) | where an attempt is: workspace, hooks, agent, turns, conversation history | prepare, build the agent, turns, tool calls, refresh and hand-off between turns, every early return | `Attempt` |
| Agent backends (`D/agent/`) | subprocess, thread id, history | build, request, parse a response, run a tool, stream output, time out | `Backends` as functions, `Attempt` as actions |
| Token accounting (`O/mod.rs` `consume_agent_events`) | totals, the last totals of the running entry, the event channel | event deltas, totals of a session | `Attempt` |
| Configuration and templates (`D/config/loader.rs`, `typed.rs`, `D/template.rs`) | none; a file becomes a `ServiceConfig` | read, parse each section, validate, overrides of a state, render | `Settings` |
| Watcher and reload (`D/config/watcher.rs`, `apply_reload`, `D/main.rs`) | what is in force, part by part; a channel of signals | watch, debounce, read, swap, start, `--check` | `Daemon` |
| Events (`D/http/events.rs`) | subscribers, a queue of events, a ring of recent ones, posts under way | register, sign, post, retry | `Daemon`, `Deployment` |
| Budget and cost (`BR/feedback/budget.rs`, `cost.rs`, `BR/events.rs`) | pending and running totals of each ticket, the reconciler's work list | verify, add up, cap, flush, transition, reconcile | `Budget`; as another writer of the ticket, `Feedback` |
| Bridge entry (`BR/main.rs`, `config.rs`, `selftest.rs`) | none; a file becomes a `BridgeConfig` | read, parse, nine validation rules, start, `--check`, `--self-test` | `BridgeSettings`, the start in `Budget` |
| Snapshot views, HTTP pages, `init` dialogue, telemetry, harness manifest, labels, packaging | none that the rest depends on | display, export, texts | not modelled |

How they interact: the daemon and the bridge share the tracker, and the bridge
may subscribe to the daemon's `session.completed` events. The daemon reads tickets and hands them to workers; agents push branches and open
pull requests; GitHub delivers webhooks to the bridge; the bridge moves tickets
back to a state the daemon polls. Inside the daemon all tasks share one mutex
that is never held across an `await`; inside the bridge the handlers share one
SQLite connection whose mutex is held for one statement.

What is hard, and where the properties are aimed (`PROJECT.json` lists every
hazard at its line):

* decisions taken from data read before an `await`: candidate lists in the tick
  and in a retry, the landing row in a kick, the attempt counter;
* tasks that outlive the record that describes them: a worker whose entry was
  removed, a timer whose entry was replaced, a late exit report;
* a claim or a landing that nobody owns any more, so nothing will move it;
* order of deliveries, lost deliveries, a crash between two calls;
* directories removed from lists read earlier, while runs come and go;
* two channels (events, exit reports) between an attempt and the orchestrator, and
  deltas against a baseline that belongs to whichever run wrote it;
* a configuration swapped part by part under runs that read it part by part;
* a handler that vanishes at an `await` because its client hung up.

What makes each component correct: the scheduler must not exceed its slots,
must not strand or forget an issue, and must go through the retry queue after
every run; the coordinator must land only what was approved and is green, lose
no landing over a restart and hand back what it drops; the feedback loop must
count each failed run once; an attempt must send a provider a history it accepts,
with the right agent, in a directory that stays; a reload must end with one
content in force, and a checked file must start; the budget must count what was
delivered, act on a cap and write out what it has counted.

## 2. Plan

1. `Scheduler` implementing `ClaimLifecycle` - done, with proofs.
2. `MergeCoordinator` - done, with proofs.
3. `Feedback` - done, with proofs.
4. `Backends`, `Workspaces` and `Attempt`, which composes them with the
   orchestrator's side of an attempt - done, with proofs.
5. `Settings`, `Daemon`, `BridgeSettings`, `Budget`, and `Deployment`, which composes
   the two programs and implements the daemon alone - done, with proofs.
6. `OneOwner` and the refinement of `ClaimLifecycle` - done, with proofs.
7. `RunProtocol`, implemented by `Scheduler` and by `Attempt`, in place of the
   composition of the two - done, with proofs.
8. Left: several pull requests of one ticket in `Feedback`.

## 3. Modules

### Scheduler

One `OrchestratorState` and the tasks around it. A critical section of the
mutex is one action.

| Model | Code |
|---|---|
| `running`, `claimed`, `retries` | `OrchestratorState.running`, `.claimed`, `.retry_attempts` (0 = no entry) |
| `timers` | sleeping tasks spawned by `retries::schedule`; a map entry may be replaced, the tasks stay |
| `firing` | `fire_retry` tasks past their sleep: fetch, decide, requeue |
| `workers`, `reports` | spawned `run_worker` tasks and the mpsc channel of exit reports |
| `pc`, `ids`, `views`, `todo` | where `tick_body` is and what it read: stalled or running ids, the refreshed states or the candidates |
| `tracker` | the workflow state of each issue, moved by anyone at any time |
| `cut` | history: issues whose entry was removed while a run of theirs was alive |
| `TickStart` .. `TickApply` | `reconcile_running_issues`: stall detection, refresh, terminate or update |
| `TickFetched`, `TickDispatch` | the candidate fetch and one iteration of the dispatch loop |
| `RetryFires` .. `RetryRequeues` | `fire_retry`, split at its tracker call |
| `WorkerExits`, `WorkerPanics`, `ConsumeReport` | end of `run_worker`, a panic (no report), `on_worker_exit` |

Abstractions: time (any sleeping timer may fire, any run may be found silent),
backoff delays, event and token fields, the sort key (a total `Rank`), claims of
other components. `Runs` and `Fires` are recycled identities: their number
bounds how many tasks live at once. Attempt numbers above `MaxAttempt` are not
told apart.

`ClaimLifecycle` is the abstract promise: an issue is unclaimed, running,
queued, or being decided about; a run that failed goes to the queue with the next
attempt number, one that ended well (`finished`, its report unread) with the next
number or with 1: the documents say 1 and the code counts on (section 6), so the
promise is that there is a continuation and leaves its number open. An issue leaves
the queue only through a decision and keeps its attempt number over a dispatch. An
issue of `cut` is `disturbed`: there the code
promises nothing (see the findings), and the abstract state says so.

`RunProtocol` is what `Scheduler` and `Attempt` promise each other about the runs of
an issue: which run holds the running entry (`holder`), which tasks have not ended
(`live`), whose report nobody has read (`reported`). A run starts only where there is
no entry, under an identity not in use; it reports once, when it ends; a report that
is read takes the entry away, whichever run sent it. Both modules implement it
(`KeepsProtocol` in each). `Scheduler` has the decisions and leaves out what a run
does; `Attempt` has the run and leaves out the decisions. The two of them together
would be too many states for TLC: that each keeps the protocol is what lets the
one stand for the other at that boundary. In `Attempt` no task panics, so that it
implements the protocol without `Panic`.

### MergeCoordinator

One repository with the coordinator enabled. GitHub (pull requests, checks, base
branch, deliveries) is external and moves at any time.

| Model | Code |
|---|---|
| `queue` | table `landing_queue`; `at` orders the rows by `updated_at` |
| `tasks` | webhook handler tasks: where each is, and what it read before its last `await` |
| `inbox` | deliveries on their way: an approval, or a completed suite or run of one head |
| `boot`, `recheck` | `reconcile_on_boot`, before the server listens |
| `ticket` | what the feedback loop and `park` do to the ticket |
| `EnqueueReads`, `EnqueueInserts` | `enqueue_on_approval` around its GitHub call |
| `Evaluate`, `Promote`, `Bounce`, `OnCiGreen`, `OnCiRed` | `evaluate_ci` up to the coordinator's hooks |
| `PickHead` .. `Drop` | `kick` and `advance_one`, one action per store statement or call |
| `HandlerStops` | a call failed (before or after it took effect) or the client hung up |

`updated_at` has whole seconds: a row is written in the second of the latest
write or later, ties are broken by the pull request's number, and `Dense`
renumbers the times so that only their order is kept.

Assumptions: every pull request maps to a ticket; `required_checks` is set, so
that a green suite stays green (a red one may be run again); the clock does not
go backwards; a finished pull request is not reopened; deliveries beyond
`MaxInbox` are lost, as deliveries may be. `update-branch` may take effect at
once, later (then it is a `Push`) or never.

### Feedback

One ticket, its pull request, and the tasks of the bridge that work on it. Every
call to GitHub, the tracker or the database is one action; the tracker is Jira
(`marker` = FALSE, one PUT per field) or Linear (`marker` = TRUE, all fields in
one comment that is loaded, changed and stored whole).

| Model | Code |
|---|---|
| `jobs` | a webhook handler on a CI delivery, a `session.completed` handler that crossed a cap (`Session`), or a flush (`Debounce`): the next call (`pc`), the count to write (`next`), the marker comment as loaded (`copy`) |
| `fields`, `comment`, `ticket` | the `sinfonia_*` fields a reader finds, whether the marker comment exists, the workflow state |
| `runs`, `mail`, `recorded`, `linked` | CI runs per commit, unacknowledged deliveries, tables `processed_deliveries` and `pr_ticket_map` |
| `cap` | `feedback_loop.max_attempts` or the ticket's override |
| `Receive` | `webhook_inner` up to `record_delivery` and the duplicate branch |
| `ReadSummary`, `Unmapped`, `Greens`, `ReadAndDecide`, `Decide` | `evaluate_ci`, `evaluate_one_pr`, `attempts::read_and_decide`, `decide` |
| `LoadComment`, `StoreComment` / `WriteField` | `write_custom_field` of Linear / of Jira |
| `Bounce`, `Block`, `Promote`, `Label` | the transitions of `apply_red_below_cap`, `apply_cap_hit`, `apply_green` and the labels after a green result |
| `SessionCrossesCap`, `FlushDue`, `Exceed`, `FlushFails` | `apply_session` at the cap, `flush_ticket`, the transition to `budget_exceeded_state` |
| `CiFails`, `Restart` | an error answered with 500; the process is killed |

`bounces` and `overlapped` are history: how often the ticket went back to the
agent since a human last reset the count, and whether two tasks were ever
writing to the ticket (between their first and last call on it) at one time, or
a human reset the count under a writer. Until then the bridge keeps its
promises about the count; afterwards only those that no lost update can break.

Abstractions: which category a failure has and where it leads (one
needs-fixes state); texts and labels, except that a failing green label fails
the delivery; token and cost amounts (any session may cross the cap, a flush may
be due at any time, and its two writes leave the modelled fields alone); one
pull request per ticket. Of several marker comments the readers take the first
listed, which is the oldest (`docs/SPEC.md` 11.6.7); one created later is never
read. A response lost after the call took effect is `CiFails` before the next step.

### Workspaces, Backends, Attempt

The attempts of one issue from dispatch to exit report. `Backends` holds the
functions (no state), `Workspaces` the directory and everything that removes it,
`Attempt` the tasks. The steps of a task between two awaits are one action.

| Model | Code |
|---|---|
| `dir` | the issue's directory: there, `ready` (its `after_create` hook succeeded), `old` (age sweep); `gen` numbers its creations; `spoiled` is history: its preparation broke off, a removal tore it, a late write made it again |
| `sweep`, `Drop`, `FetchTerminal`, `RemoveListed`, `ReadKeys`, `Reap` | the removals of the poll task and what they read before: `terminate_running_issue`, `startup_terminal_cleanup`, `sweep_aged_workspaces` |
| `run` | one `run_agent_attempt`: where it is, its state, agent, turn, history, open tool calls, tokens, thread |
| `entry`, `backlog`, `exits`, `timer`, `totals` | the issue's running entry with the last totals, the channel of agent events, the channel of reports, a retry timer, `codex_totals` |
| `Ensure` .. `StartSession` | `ensure_for_issue`, hooks, `build_for`, `start_session` |
| `RawBegin`, `CallLlm`, `RunTool`, `WriteFile`, `DeadlinePassed` | `run_provider_turn` of the four HTTP providers and `dispatch_tool` |
| `CliSpawn` .. `CliTimesOut`, `OpenCode...`, `LateStream`, `OrphanEnds` | a subprocess turn; a child of the killed shell that goes on printing |
| `Refresh`, `AfterRun` | between turns (state refresh, hand-off, `max_turns`); hook, `SessionCompleted`, report |
| `ConsumeEvent`, `ConsumeExit`, `Stall`, `Terminate` | the orchestrator's side |
| `Restart` | the process is killed; only the directory stays |

`Parse*`, `CollapseToAnthropic`, `OpenAiMessages`, `OllamaMessages` and
`GoogleContents` are the conversions of the backends: which answers become an
error, which calls and answers are in which message. `spent`, `told`, `missed`,
`cut` and `why` are history. `cut` says that events may be counted for another run
(an entry was removed under a live run, a child outlived its turn, or events were
waiting at a dispatch): from then on the accounting promises nothing. `why` says
whether the entry's run may lose its directory.

`Answered` asks that the messages right after one with calls answer them one by one
and in their order, and that nothing is answered that was not called;
`AnsweredAtOnce` (Anthropic) that the very next message answers all of them.

Abstractions: one issue; texts; a dispatch whenever the issue has no entry (which
run that is, the scheduler's model says); one token per stream line or response; an
agent is one name. The hand-off between turns (`O/runner.rs:206`) compares provider
and model only, so two states that differ in command or endpoint alone have one
agent here, and `RightAgent` says nothing of them.

### Settings, BridgeSettings

Pure operators. The front matter is a function from dotted keys to values; a key
of a wrong type is absent, as the accessors of the code treat it. A `$NAME` is
looked up in `Env`, names in capitals in `LowerCase`, casts are `% Word16` and
`% Word32`. `ReadWorkflow`, `FromWorkflow`, `ValidateForDispatch`, `RenderError`,
`CheckWorkflow`, `StartError`, `ReloadError` follow `D/config/`, `D/check.rs`,
`D/main.rs`; `ParseBridge`, `Validate`, `BridgeStartError` and `SelfTest` follow
`BR/config.rs`, `BR/main.rs`, `BR/selftest.rs`. Errors keep the order in which the
code meets them. Whether a text is a URL, a pattern or a key is a set given to the
module; whether a prompt compiles is one too, and whether it renders (`Renders`)
depends on the body, the issue and the attempt number: `PromptError` follows
`D/template.rs`, with 0 for no attempt. `--check` renders for `Stub` and attempt 1
(`D/check.rs:68-85`), a run for its issue and attempt (`O/runner.rs:145`). Whether the
bridge's database opens and its address is free are arguments of `BridgeStartError`. The order of the validations is the point: three entry points
of each program use different prefixes of it.

### Daemon, Budget, Deployment

| Model | Code |
|---|---|
| `file`, `watch`, `Edit`, `Watch`, `Debounce`, `Settle200ms` | WORKFLOW.md, `spawn_watcher` and `debounce_loop` |
| `loaded`, `inForce`, `reload`, `ReadFile`, `Swap` | contents accepted since the start; which of them each part holds; `apply_reload` lock by lock |
| `run`, `Dispatch`, `ReadPart`, `PromptOf`, `Finish` | a worker that reads its four parts one by one, renders its prompt and ends with an event, one without usage if the prompt does not render |
| `outbox`, `registry`, `recent`, `delivery`, `Emit`, `Post`, `Concluded` | `spawn_emitter` and `deliver_with_retry` |
| `Start`, `Crash` | `main.rs` up to `orch.run`, with all that refuses it; the process is killed |
| `bridge`, `BridgeStart`, `BridgeCrash` | `BR/main.rs`; each start finds the database and the address usable or not |
| `acc`, `ApplySession`, `CapHit` | `TicketAccumulator`, `apply_session` |
| `handler`, `SinfoniaEvents`, `CapHitFlush`, `Transition`, `Reply`, `DropHandler` | `sinfonia_events`, await by await; its future dropped |
| `flush`, `fields`, `FlushTicket`, `WriteTokens`, `WriteCost` | `flush_ticket`: the snapshot under the lock, then two writes that may fail or land all the same |
| `todo`, `Idle30s`, `ReconcilerWakes`, `ReconcilerNext` | `spawn_debounce_reconciler` |
| `Arrive`, `Answer`, `TimeOut`, `ConnectionLost`, `DaemonDies`, `BridgeDies` | a post meets a handler; an answer, none, or a process that dies under it |

`Daemon` is also the abstract specification of the daemon's side of `Deployment`
(`DaemonImplemented`): a bridge reaches the daemon only through the answers to its
posts. `lost`, `counted` and `trace` are history: a change the watcher missed;
how often a session was added up; per ticket, whether its last flush ended well
and alone (`clean`), whether the transition was asked for, and whether a handler
was dropped on the way.

Abstractions: a tick of the poll loop is only the permit it takes; sessions carry
their tokens, models are named without the prefix of their provider; a write that
lands does so before its call ends; `plan` bounds a behaviour (which contents, how
many dispatches, edits, crashes and losses).

## 4. Runs

| Run | Instance | What it shows |
|---|---|---|
| `scheduler_one` | 1 issue, 2 live workers, 2 retry decisions, 2 timers, crashes | `TypeOK`, `ClaimIsAccountedFor`, `RetryHasTimer`, `OneOwner`, `RefinesLifecycle` and `KeepsProtocol` in every interleaving |
| `scheduler_two` | 3 issues, 2 slots, a state capped at 1 | `SlotBound`, `ClaimIsAccountedFor`, `OverCapByMovesOnly` and `PassedOverForSlots` when stale candidate lists of tick and retry compete |
| `scheduler_live` | 1 issue, fairness | `EventuallyReleased`, `EventuallyWorked` |
| `merge_one` | 1 pull request, 2 handlers, 2 commits, crashes | `TypeOK`, `LandsOnlyApproved`, `LandsOnlyGreen`, `LandingSurvivesRestart` |
| `scheduler_one_worker` | violated | a stalled run is forgotten, not cancelled: two workers of one issue |
| `merge_stranded` | violated | an incomplete check summary spends the approval of an open pull request |
| `merge_in_flight` | violated | the queue rotates: two landings in flight |
| `feedback_one` | 2 tasks, both trackers, caps 1 and 2, 2 CI runs, 3 deliveries, failures, restarts | `TypeOK` with the count within the cap, `ContextBeforeFixes`, `NoDeliveryCountsTwice`, `EveryBounceCounted`, `BlockedStays` |
| `feedback_acked` | violated | a delivery that failed with 500 is acknowledged unhandled when it comes again |
| `feedback_budget` | violated | a red result moves a ticket stopped at its budget back to the agent |
| `attempt_one` | 2 attempts of one issue, 5 configurations with all eight backends, a move or a restart | `AttemptTypeOK`, `CallsAnswered`, `SessionPrepared`, `WorkspaceKept`, `NoOvercount`, `DashboardCoversBridge`, `RightAgent`, `ContinuationHasThread`, `KeepsProtocol` |
| `deployment` | 16 WORKFLOW.md, 11 BRIDGE.md, 2 runs, 2 tickets, 2 posts per event, fairness of the bridge's tasks | `DeploymentTypeOK`, `OrderedSnapshot`, `ReloadSettles`, `CheckPredictsStart`, `CheckedPromptsRender`, `FieldsMatch`, `CapActedOn`, `ChecksPredictBridgeStart`, `DeliveredOrGivenUp`, `PendingFlushed` |

The violated ones are the findings of `PROJECT.json`, each with the sentence of
the repository it contradicts.

Why the bounds suffice. The scheduler's hazards need one issue with an old and a
new worker, an old and a new timer or a decision beside a run: two of each are
the smallest instance that has all of them. Slots need more issues than slots, and
a slot of a state as well as one of the daemon: in `scheduler_two` the first issue
stays in the capped state, the second in the other, and the third moves between
them and out (`OneMoves`, which also keeps to one sleeping timer and one unread
report). So a move can take the capped state over its cap, and a candidate can be
passed over behind a full state or because both slots are taken. The
coordinator's hazards around one landing need two handlers (one of them stale),
an old and a new commit, and one update cycle with its exhaustion; the rotation
of the queue needs a second row, and `merge_in_flight` restricts the search by
`ChecksIdle` to states without CI activity, where the shortest counterexample
lies. The safety properties are proved without these bounds, see below.
The feedback loop needs two tasks to overlap, both events of one failure, a
count below and at its cap, and a delivery after the ticket is blocked; the
constraint `Bounded` explores these without multiplying them: two runs only for
a ticket with one attempt, and two runs or a third delivery only while no writers
have overlapped. `PromotesOnGreen` is TRUE in these runs: with FALSE a
green result writes nothing to the tracker (the proofs cover both).

`attempt_one` puts one question to each configuration: a history over two turns
with a call that fails, a call after `finish` and a turn cut at its iteration limit
(`History`); everything that removes a directory, under two attempts, a restart or
a move (`Directory`); the two other conversions (`OneTurn`); two subprocess
backends and the hand-off between them (`TwoClis`); a backend without stream
usage, and one that cannot be built (`QuietClis`). Two attempts are the smallest
number in which a superseded one meets its successor, one event of backlog is
enough for a report to overtake it, and a third token adds nothing to a delta
against a baseline. `Bounded` keeps two live runs to the configurations that ask for
them. `deployment` does the same with plans: every content at a start and in a
reload (`StartAny`), each BRIDGE.md at a start (`Boots`), two edits under a run that
begins (`Reload`), a template that does not compile, one that fails for an issue with
children and one that fails without an attempt number, over two issues and a retry
(`Render`), a cap reached with
lost answers (`Lossy`), with a crash (`Crashy`) and on two tickets (`Apart`), and
both programs from their start with a secret that changes (`Meet`). The caps of the
instance are crossed by the second session, and `CostUnit` = 2 makes the cost round
both ways. The proofs do without these bounds.

Symmetry is used over handler, event kind, worker and decision identities only, never in
the run with liveness properties.

Deadlock is checked in every run but `attempt_one` and `deployment`: there the
plans end (the last run is over, the last edit made), and nothing is left to do.

### Fairness

`FairSpec` of `Scheduler` assumes: every runnable task is polled (tokio); a
sleep ends; a run ends (`turn_timeout_ms`, `max_turns`); the tracker's answers
are not failures for ever (strong fairness of the successful fetches); and a run
whose task is dead is found silent sooner or later, as nothing emits its events
any more (only with stall detection on). Panics, crashes and moves of the ticket
are not fair. No fairness is assumed of the merge coordinator: a landing that
waits is advanced only by a later delivery, which GitHub does not guarantee, so
no eventual property of it is claimed. `Deployment` assumes that time passes for a
ticket without sessions (`Idle30s`), that the reconciler's task runs on: its
timer fires, its tracker calls end, in success or failure; and that a handler in its
flush goes on to the next call, as tokio polls the task and the tracker client
answers or times out. A handler may be dropped at any step all the same. Sessions,
edits, crashes, posts and the other steps of a handler are not fair. `PendingFlushed`
says, with that: what is pending comes to be shown by the ticket's fields, or the
bridge goes down, or the flush that took it failed, was dropped or met another one
of the ticket. A flush that failed leaves nothing pending (`BR/feedback/budget.rs:207`),
so no fairness makes up for it; that flush is named in the property and not left to
a reading of "pending" as "unwritten". `attempt_one` assumes none: a child
that never reads its prompt can hold an attempt for ever (section 6), so the
assumption of `Scheduler` that a run ends is one about the agents' programs, too.

## 5. Proofs

`SchedulerProofs` (for every set of issues, states and identities, and every bound):

* `TypeCorrect`: `Spec => []TypeOK`.
* `ClaimAccounting`, `TimerAccounting`: `ClaimIsAccountedFor` and
  `RetryHasTimer` together, with `TypeOK`, are inductive: popping an entry
  leaves a decision behind, and a decision ends in a run, an entry with a timer,
  or the release of the claim.
* `SlotsBounded`: `SlotBound` is inductive with `TypeOK`: only `Spawn` adds to
  `running`, and every `Spawn` is under a fresh `HasSlot`.
* `CapsKept`, `PassedOverCorrect`: action properties. A step starts at most one run
  (`StartsOne`), and only where the slot it looked at was free (`StartedInRoom`); so a
  state that is over its cap afterwards was joined by a run that was there before. A
  candidate leaves the list of a tick by its own outcome, or all do at a `NoSlot`,
  which names the slot that is missing (`PassedOver`).

`OwnershipProofs` (same constants) goes over the effects a step can have on one
issue; that the list is complete is proved once (`Effects`), and the first two
theorems go through it:

* `OwnershipCorrect`: `OneOwner` with `Distinct` (a run is one task or one report),
  `Placed` (an issue left alone is in one place, and claimed exactly then) and
  `Matched` (a task or report of it is of the run its entry records, attempt
  number included). `OneOwner` alone does not say that two unfinished runs of one
  identity are one task, nor that the attempt number travels with the run.
* `LifecycleImplemented`: with these, every effect is a step of `ClaimLifecycle` or
  stutters; `Matched` gives the attempt number of a requeue, and an issue once
  disturbed shows nothing more until a restart.
* `ProtocolKept`: `Distinct` is what `RunProtocol` needs: one task or one report per
  identity, so that the end of a task takes one run from `live`, and a report that is
  read takes one from `reported`. `Spawn` takes an identity neither has.

`MergeProofs` (for every finite set of pull requests with distinct numbers,
every set of handlers, every `MaxCycles`):

* The inductive invariant `Inv` is `TypeOK` with four parts. `Bounded`: a
  handler that updates a branch has a cycle left, without which the attempt
  count would leave its type. `Rebooting`: during the reconciliation no handler
  works and the rows still to check are queued. `Approved`: whatever is queued,
  on its way to the queue, or worked on was approved - `LandsOnlyApproved`
  alone says nothing of how the row got there. `Green`: a handler about to merge
  holds a head whose checks are green.
* `TypeCorrect`, `ApprovedCorrect`, `GreenCorrect`, `RestartCorrect` follow from
  `Inv`. The steps of a handler are treated through `Fine`, its own share of the
  invariant, and `HandleQueue`, what it does to the shared state.

`FeedbackProofs` (for every set of handlers, every cap and number of runs and
deliveries, both trackers):

* `Inv` is `TypeOK` with seven parts. `Jobs`: what a task will write or has
  loaded respects the cap. `OneHolder`: a recorded delivery is with one task at
  most. `Earned`: every count there is, on the ticket, in a copy of the comment
  or about to be written, is at most the number of deliveries whose handlers have
  read their count (`Counted`) - this carries the promise through lost
  updates. `Alone`, `Uncommented`: while writers have not overlapped there is one
  at most and its copy is faithful. `Context`, `Guarded`: what the writer has
  written and what the count is, at each of its steps.
* `TypeCorrect`, `CountedOnceCorrect`, `ContextCorrect`, `BounceCorrect` and the
  action property `BlockedCorrect` follow. `StepKeeps` reduces every step that
  writes no field to the task's own share of the invariant, `WritingKeeps` treats
  the writes on top of a faithful or a stale copy.

`DaemonProofs` (for every set of contents, environment, channel capacity, number of
runs and of edits):

* `Inductive` is the type with: `Resting`, a process that is down has nothing under
  way; `Swapping`, every part is at the last load or, until the reload has passed
  it, at the one before - which is why a mixture is at most one load wide;
  `Accepted`, what was loaded is usable; `Seen`, the last change was read, is
  signalled or was lost; `Refused`, a refused start has the error of its content;
  and, for each run, `Reading`: what it has read is ordered as the locks are. The
  order of the swaps (workflow, config, tracker, workspace) crosses that of the
  reads (config, workflow, workspace, tracker), and that alone makes
  `OrderedSnapshot` hold.
* `DaemonTypeCorrect`, `SnapshotsOrdered`, `ReloadsSettle`, `CheckTellsOfStart`,
  `CheckedPromptsAlwaysRender` follow; the last two unfold what the entry points
  make of a text (`Settings`), for every text, and the last holds for every relation
  between bodies, issues and attempts that rendering may be: the prompt of a run from
  accepted contents is one that `--check` has compiled and rendered for its stub. That
  it renders for the run's own issue does not follow, and is not claimed.

`DeploymentProofs` (for every number of runs, tickets and posts, every cost table):

* `DaemonImplemented`: every step of the deployment is one of the daemon alone or
  leaves it as it is, so the theorems above hold of it.
* `Posting`: a handler exists only for a post under way, an event is queued at most
  once, what was answered with success was added up - `DeliveriesCount`.
* `Attached` and `Accounts`: flushes belong to the handler that awaits them, amounts are
  numbers, pending is at most running - `DeploymentTypeCorrect`.
* `Capping`: a ticket at its cap has a handler that will ask for the transition, or
  was asked, or lost a handler - `CapsActedOn`.
* `Writing`: while a ticket's last flush is clean there is one flush of it at most, and
  what it holds is what the accumulator has let go of - `FieldsAlwaysMatch`.
* `Denied`: a refused bridge has the error of its file for some condition of the
  database and the address - `ChecksTellOfBridgeStart`, under every such condition.

`AttemptProofs` (for every number of runs, every configuration, set of replies and
bound):

* `Sound` is the type with `Fit`, what an attempt's own record says of it: the agent
  is that of the state it last saw, tools run for calls that wait, and but for the
  time in which a child prints, an id that was seen is the thread's. Every step of an
  attempt is shown to end in a record that fits, whatever the others do -
  `AttemptTypeCorrect`, `TurnsHaveTheRightAgent`, `ContinuationsResume`.
* `Warned`: once the issue is terminal, or a removal has decided, an entry has a
  reason on record - `WorkspacesKept`.
* `Prepared` says of the directory what `SessionPrepared` says of a run in it, for a
  run may enter a directory that another one made - `SessionsArePrepared`.
* `Balanced`: the orchestrator will go through the waiting events with a baseline and
  a total at each (`Ledger`). At the end of that list the baseline is at most what
  the turn has used, the total is at most what was consumed less what the turn has
  not told of yet, and it covers what the sessions reported (`Level`). A step of an
  attempt moves the end of the list, an event that is read moves its start; what is
  read without an entry is lost to every later total by the same amount. The total
  alone, without the events under way, is not inductive. It holds until an event may
  be counted for another run (`cut`) - `NothingOvercounted`, `BridgeCovered`.
* `Conversing`: the history of every run on an HTTP provider is a `Talk` in which the
  calls of `todo`, and no others, wait for their answers - `RequestsAnswerCalls`.
  `CallsAnswered` alone speaks of the moment of a request only, and a history grows
  from a turn that ended anywhere: what keeps it is that every way out of a turn
  (failed tool, `finish` with calls after it, iteration limit, deadline) either
  answers what waits or ends the session.

* `Reported`: who has an unread report has ended. With it every step of an attempt
  either goes on (`GoesOn`: the mapping stutters) or is the end (`EndsNow`: `Report`),
  and a dispatch takes an identity without a report - `AttemptsKeepProtocol`.

`BackendsProofs` holds the lemmas that this needs of the four conversions, for
histories of any length. Their loops are recursive functions; `Collapses...` and
`Pushes...` show that each is defined and that one more message is one more step.
The library's induction theorems take an operator, which the provers cannot
instantiate, so `Induction` states the principle for a set of numbers and
follows from the least element of a set (`LeastElement`). `Talk` then says, wire by
wire, how far the answers have come: `Chat` where an answer is a message of its own
(OpenAI, Gemini, Ollama, in the last two by the names of the tools), `Packed` where
answers wait in `pending` for the next message (Anthropic). `TalkBegin`, `TalkSpeak`
and `TalkAnswer` extend a talk by a message, `TalkAnswered` closes it.

The assumptions are the named `ASSUME`s of the modules: finiteness, distinct
numbers and ranks, absent markers outside their types, bounds in `Nat`, the
deployment's handlers being the posts of its runs.

Only model-checked: the liveness properties `EventuallyReleased`,
`EventuallyWorked` and `PendingFlushed` (liveness under fairness is out of the
prover's reach). Every invariant and every action property of a passing run is a
theorem.

## 6. What the models show beyond the runs

* `O/retries.rs:84-86` says that an issue skipped by a retry "can't be already
  running" there. After a superseded run two retry decisions of one issue can be
  under way at once, and the second finds the issue running.
* `docs/SPEC.md:668`, `:2364` and `:2478` speak of a continuation retry as
  attempt 1; `O/mod.rs:586` schedules it with the run's attempt plus one, also after
  a run that ended normally. `Scheduler` follows the code; the promise it is shown to
  keep (`ClaimLifecycle!Continue`) takes neither side.
* The update counter of a landing is written back from a row read before the
  GitHub call, so two concurrent kicks count one cycle; `max_update_cycles`
  bounds what one handler sees, not the number of updates.
* Without strict branch protection the coordinator lands a green head that does
  not contain the latest base.
* `retries::schedule` says it "Cancels any existing timer for the issue."
  (`O/retries.rs:16`); the old task sleeps on, and pops the newer entry early.
* `max_concurrent_agents_by_state` is tested at dispatch only: reconciliation
  moves a running issue into a state that is full (`O/mod.rs:701`), so that a cap of 1
  does not make its stories run serially, as `docs/SPEC.md:737` has it.
  `OverCapByMovesOnly` says that nothing else does this.
* `dispatch_one` answers `NoSlot` also when only the candidate's own state is
  full, and `tick_body` then leaves later candidates of other states undispatched
  although global slots are free (`O/mod.rs:304`, `docs/SPEC.md:711`).
  `PassedOverForSlots` says that this happens only behind a full state.
* `docs/CLIENT_SETUP.md:356` says the bridge writes the attempt count and the
  latest failure when the cap is hit; `apply_cap_hit` writes no field. The comment
  of `attempts::decide` (`BR/feedback/attempts.rs:44-47`) routes to the blocked
  state when the count reaches the maximum; the code does so one failure later.
* `check_suite` and `workflow_run` of one failure are two deliveries, and each
  raises the count (`docs/SPEC.md` 11.6.5 calls the events equivalent). Handled
  side by side they may instead count once and bounce twice.
* A green result is applied however old the commit is: the ticket is promoted
  though a later commit is failing.
* The marker comment is stored whole, so overlapping writers lose each other's
  fields, the failure context of `BR/feedback/transition.rs:150-152` included.
* An approval is not tied to a commit: what is pushed after it lands when green.
* A row that waits, or got a 405, moves on only with a later webhook or restart;
  a closed pull request ahead of it does not kick the queue.


Of an attempt:

* Events and reports travel on two channels (`O/mod.rs:456`, `:507`): a report may
  overtake the last events of its run, which then count for nobody or for the
  next run.
* The prompt is written to the child before the turn timeout starts
  (`D/agent/cli.rs:155`): a child that does not read stdin holds the turn for ever.
  The timeout kills `bash` only; what it started may go on writing and printing.
* Without a thread id a continuation goes to a fresh thread that knows nothing of
  the task (`D/agent/cli.rs:133`, `O/runner.rs:147`).
* After a failed `after_create` the directory stays; the next attempt finds it and
  skips the hook, though `docs/SPEC.md:900` calls the failure fatal to the creation.
* `before_remove` is parsed and never run (`docs/SPEC.md:903`, `:2453`).
* An agent that cannot be built ends the attempt without `after_run`, which
  `docs/SPEC.md:2308` asks for.
* The sweep's "Never reap a workspace whose issue is mid-run." (`O/mod.rs:770`) does not
  cover a run dispatched after the list was read.
* Bad tool arguments end the attempt instead of being answered; a `write_file` in a
  directory removed meanwhile makes it again; an Anthropic answer without content is
  an empty message; OpenCode's session total is its last step only; its preflight runs
  per attempt, not "at startup rather than turn-time" (`D/agent/opencode.rs:110`).

Of configuration and reload:

* `effective_llm_for_state` keeps model and endpoint of the old provider, though its
  comment says that "command, api_key, and model line up with the new provider"
  (`D/config/typed.rs:338-341`).
* A Jira tracker without an endpoint passes `--check` and fails at the start. The
  bridge's `--check` looks at no credentials, and neither it nor `--self-test` at the
  address or at the database (`BR/main.rs:126`, `:134`, `:211`): an unusable
  `state_db_path` passes both and refuses the start.
* `--check` renders each prompt for a stub without labels, blockers or children and
  with attempt 1 (`D/check.rs:68-85`); a run renders it for its issue, without an attempt
  number in its first dispatch (`O/runner.rs:145`, `D/template.rs:54-62`). So a wrong
  name inside `{% for c in issue.children %}`, or `{{ attempt | plus: 1 }}` in strict mode,
  may pass `--check` and fail in a run, although `CHANGELOG.md:162` means it "to catch
  strict-Liquid errors before the operator hits "go."" and
  `skills/setup-state-machine/SKILL.md:105-106` calls it "the right gate". `deployment`
  reaches both cases (content `parts`).
* Caps of states are filtered for `> 0` before they are cut to 32 bits
  (`D/config/typed.rs:623-626`), so 2^32 becomes a cap of 0.
* Rule 7 of the bridge misses equal priorities with a `default` between them
  (`BR/config.rs:888-903`).
* The bridge expands a `$VAR` in `project_slug`, the daemon does not.
* The watcher drops a change less than 200 ms after the last one it passed on, sees
  none between the first read and its own start (`D/main.rs:139`, `:203`), and takes a
  change of any file in the directory for one of WORKFLOW.md.
* `bridge.cost_table_path` is read nowhere, though `BR/feedback/cost.rs:6`,
  `BR/main.rs:166`, `docs/SPEC.md:1534` and `docs/CLIENT_SETUP.md:260` say it overrides;
  `sinfonia_event_subscribe_url` and `_callback_url` are parsed and never used; nothing
  calls `ensure_custom_field` (`docs/SPEC.md:1291`, `TR/jira.rs:221`).
* With App authentication the calls of the merge coordinator are the defaults that
  answer "not supported" (`BR/github/client.rs:166-169`): it validates, and cannot land.

Of events and budget:

* `BR/feedback/budget.rs:22` says that totals are re-read at a restart; they start
  from zero, and a cap counts from there.
* A failed flush is not made up for: `flush_ticket` has cleared what was pending before
  it writes (`BR/feedback/budget.rs:207`), so the reconciler finds nothing to do, and the
  tracker stays behind until the ticket's next session.
* Two flushes of a ticket can overlap (a cap beside the reconciler), and the older
  snapshot can be written last; `BR/events.rs:174-176` calls a second flush harmless.
* A lost answer makes a session count twice. A post that takes longer than 5 s drops
  the handler, in its flush or before the transition.
* The emitter keeps the secret of its start: after a rotation by reload every event is
  refused and given up. Subscribers are kept in memory only.
* Providers without a price (the app server, OpenCode, Codex with its default empty
  model) cost nothing, so a cost cap never stops them (`BR/feedback/cost.rs:146`).

## 7. Not modelled

* Snapshot views, the HTTP pages and read-only endpoints, telemetry: they change
  nothing. `POST /api/v1/refresh` gives the permit that a reload gives.
* The harness manifest: it turns an artifact into text and falls back to nothing.
* Labels at start-up, which nothing reads back; the `init` dialogue; packaging.
* Texts: prompts and what a template renders to, comments, the spelling of directory
  names, the format of marker comments and of Jira documents, payload parsing, GitHub's
  signatures.
* Lengths of time: backoff, timeouts, the order of two timers. Any may fire first.
* A tracker write that takes effect after its call has ended; event types other than
  `session.completed`, the daemon's only one, and the bridge's answers to them.
* Jira field set-up, paging, GitHub's token refresh: calls whose only outcome for the
  models is success or failure.
* The internals of the tracker, of GitHub and of the agents' language models are
  external: they are represented by every answer the code distinguishes.
