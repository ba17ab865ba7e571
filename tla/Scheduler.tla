------------------------------ MODULE Scheduler ------------------------------
(***************************************************************************)
(* The daemon's scheduling core: the poll loop (tick), the retry timers,   *)
(* the worker tasks and the consumer of their exit reports, all sharing    *)
(* one OrchestratorState behind a mutex.  Every critical section of that   *)
(* mutex is one action; every `await` that separates two of them is a      *)
(* point at which the other tasks may run, and what was read before it is  *)
(* kept in `views`, `ids`, `todo` or in the `firing` record.               *)
(*                                                                         *)
(* Time is abstracted: a sleeping timer may fire at any moment, a run may  *)
(* be found silent for longer than stall_timeout_ms at any moment.         *)
(***************************************************************************)
EXTENDS Integers, FiniteSets, Sequences

CONSTANTS
    Issues,           \* issue ids known to the tracker
    ActiveStates,     \* tracker.active_states
    TerminalStates,   \* tracker.terminal_states
    OtherStates,      \* every other workflow state, e.g. "in review"
    Todo,             \* the state name the blocker rule applies to
    Gone,             \* the issue is deleted or no longer visible
    Blockers,         \* issue -> the issues that block it
    Permitted,        \* issues whose labels pass dispatch_allowlist
    Rank,             \* issue -> its place in the dispatch order
    MaxConcurrent,    \* agent.max_concurrent_agents
    StateCap,         \* agent.max_concurrent_agents_by_state
    StallDetection,   \* llm.stall_timeout_ms > 0
    Crashes,          \* whether the daemon may be killed and restarted
    NoEntry, NoView,  \* absent map entry, absent issue in a response
    Runs,             \* identities (start times) of worker tasks
    Fires,            \* identities of fire_retry tasks past their sleep
    MaxTimers,        \* bound: sleeping timers per issue
    MaxAttempt        \* bound: attempt numbers above it are not told apart

States == ActiveStates \cup TerminalStates \cup OtherStates
View   == [state: States, blocked: BOOLEAN]
Attempts == 0..MaxAttempt
Entry    == [state: States, attempt: Attempts, run: Runs]
Firing   == [id: Fires, issue: Issues, attempt: 1..MaxAttempt,
             phase: {"fetch", "decide", "requeue"}, view: View \cup {NoView}]
WorkerOf == [run: Runs, issue: Issues, attempt: Attempts]
Report   == [run: Runs, issue: Issues, attempt: Attempts, normal: BOOLEAN]

ASSUME IssuesAssumption == IsFiniteSet(Issues)
ASSUME BoundsAssumption ==
    /\ MaxConcurrent \in Nat /\ MaxTimers \in Nat \ {0} /\ MaxAttempt \in Nat \ {0}
    /\ DOMAIN StateCap \subseteq States
    /\ \A s \in DOMAIN StateCap : StateCap[s] \in Nat
ASSUME TrackerAssumption ==
    /\ Blockers \in [Issues -> SUBSET Issues]
    /\ Permitted \subseteq Issues
    /\ Rank \in [Issues -> Nat]
    /\ \A i, j \in Issues : Rank[i] = Rank[j] => i = j
    /\ Gone \notin States
ASSUME AbsentAssumption ==
    /\ NoView \notin View
    /\ NoEntry \notin Entry
ASSUME SwitchAssumption == StallDetection \in BOOLEAN /\ Crashes \in BOOLEAN

VARIABLES
    tracker,     \* issue -> its workflow state in the tracker, or Gone
    running,     \* OrchestratorState.running
    claimed,     \* OrchestratorState.claimed
    retries,     \* OrchestratorState.retry_attempts: the attempt, 0 if absent
    timers,      \* issue -> number of sleeping one-shot retry timers
    firing,      \* fire_retry tasks that popped an entry and have not finished
    workers,     \* live run_worker tasks, whether or not `running` lists them
    reports,     \* the unbounded channel of WorkerReport::Exited
    pc,          \* where the poll task is
    todo,        \* what is left of the loop the poll task is in
    ids,         \* running_ids captured at the start of reconciliation
    views,       \* the tracker response the poll task works from
    cut          \* history: issues one of whose runs lost its entry while alive

sched  == <<running, claimed, retries>>
tasks  == <<timers, firing>>
work   == <<workers, reports>>
poll   == <<pc, todo, ids, views>>
vars   == <<tracker, running, claimed, retries, timers, firing, workers,
            reports, pc, todo, ids, views, cut>>

NoViews == [i \in Issues |-> NoView]
Running == {i \in Issues : running[i] # NoEntry}

\* The runs of issue i whose task lives or whose report nobody has read yet.
Unfinished(i) == {w.run : w \in {x \in workers : x.issue = i}}
                    \cup {reports[k].run : k \in {n \in DOMAIN reports : reports[n].issue = i}}

UsedRuns == {w.run : w \in workers} \cup {reports[k].run : k \in DOMAIN reports}
                \cup {running[i].run : i \in Running}

(***************************************************************************)
(* What a tracker query returns.                                           *)
(***************************************************************************)
ViewOf(i) == [state   |-> tracker[i],
              blocked |-> \E b \in Blockers[i] : tracker[b] \notin TerminalStates]

Candidates == {i \in Issues : tracker[i] \in ActiveStates}

(***************************************************************************)
(* Dispatch decisions.                                                     *)
(***************************************************************************)
Eligible(i, v) ==
    /\ v.state \in ActiveStates
    /\ v.state \notin TerminalStates
    /\ i \in Permitted
    /\ v.state = Todo => ~v.blocked

HasSlotOffByOne(s) ==
    /\ Cardinality(Running) <= MaxConcurrent
    /\ s \in DOMAIN StateCap =>
         Cardinality({j \in Running : running[j].state = s}) < StateCap[s]

\* A plausible bug: no look at the cap of the state.
HasSlotInAnyState(s) == Cardinality(Running) < MaxConcurrent

HasSlot(s) ==
    /\ Cardinality(Running) < MaxConcurrent
    /\ s \in DOMAIN StateCap =>
         Cardinality({j \in Running : running[j].state = s}) < StateCap[s]

\* A plausible bug: a candidate that is claimed ends the loop of the tick, too.
OutcomeEndingTick(i, v, retry) ==
    IF ~Eligible(i, v) \/ i \in Running THEN "Skipped"
    ELSE IF HasSlot(v.state) /\ (i \in claimed => retry) THEN "Dispatched" ELSE "NoSlot"

OutcomeIgnoringClaims(i, v, retry) ==
    IF ~Eligible(i, v) \/ i \in Running THEN "Skipped"
    ELSE IF HasSlot(v.state) THEN "Dispatched" ELSE "NoSlot"

Outcome(i, v, retry) ==
    IF ~Eligible(i, v) \/ i \in Running \/ (i \in claimed /\ ~retry) THEN "Skipped"
    ELSE IF HasSlot(v.state) THEN "Dispatched" ELSE "NoSlot"

BumpWithoutCap(a) == a + 1

\* The next attempt number (saturating at the bound).
Bump(a) == IF a < MaxAttempt THEN a + 1 ELSE a

(***************************************************************************)
(* Pieces shared by several handlers.                                      *)
(***************************************************************************)
\* A plausible bug in retries::schedule: cancelling timers after the new one.
ScheduleThenCancel(i, a) ==
    /\ claimed' = claimed \cup {i}
    /\ retries' = [retries EXCEPT ![i] = a]
    /\ timers'  = [timers EXCEPT ![i] = 0]

\* retries::schedule.  The timers already asleep stay asleep.
Schedule(i, a) ==
    /\ claimed' = claimed \cup {i}
    /\ retries' = [retries EXCEPT ![i] = a]
    /\ timers'  = [timers EXCEPT ![i] = IF @ < MaxTimers THEN @ + 1 ELSE @]

\* The tail of dispatch_one: claim, running entry, no retry entry, new worker.
Spawn(i, s, a) ==
    \E r \in Runs \ UsedRuns :
        /\ running' = [running EXCEPT ![i] = [state |-> s, attempt |-> a, run |-> r]]
        /\ claimed' = claimed \cup {i}
        /\ retries' = [retries EXCEPT ![i] = 0]
        /\ workers' = workers \cup {[run |-> r, issue |-> i, attempt |-> a]}

\* The poll task takes the entry of i away; its worker is left alone.
TakeEntry(i) ==
    /\ running' = [running EXCEPT ![i] = NoEntry]
    /\ cut' = IF running[i].run \in Unfinished(i) THEN cut \cup {i} ELSE cut

(***************************************************************************)
(* The poll task: Orchestrator::tick_body and reconcile_running_issues.    *)
(***************************************************************************)
\* The poll task is between ticks when its dispatch loop has nothing left.
GoTo(where) ==
    /\ pc' = where
    /\ todo' = {} /\ ids' = {} /\ views' = NoViews

\* A plausible bug: measuring the silence of a run from its last event only, so
\* that a run that died before its first event is never found stalled.
TickStartSparingDead(stalled) ==
    /\ pc = "dispatch" /\ todo = {}
    /\ stalled # {} => StallDetection
    /\ \A i \in stalled : Unfinished(i) # {}
    /\ pc' = "stalls"
    /\ todo' = stalled
    /\ ids' = Running
    /\ UNCHANGED <<tracker, sched, tasks, work, views, cut>>

\* First lock of reconcile_running_issues: collect the running ids, and those
\* of them without an event for longer than stall_timeout_ms.
TickStart(stalled) ==
    /\ pc = "dispatch" /\ todo = {}
    /\ stalled # {} => StallDetection
    /\ pc' = "stalls"
    /\ todo' = stalled
    /\ ids' = Running
    /\ UNCHANGED <<tracker, sched, tasks, work, views, cut>>

\* One stalled id, under its own lock.
TickStall ==
    /\ pc = "stalls"
    /\ \E i \in todo :
        /\ todo' = todo \ {i}
        /\ IF i \in Running
             THEN TakeEntry(i) /\ Schedule(i, Bump(running[i].attempt))
             ELSE UNCHANGED <<sched, timers, cut>>
    /\ UNCHANGED <<tracker, firing, work, pc, ids, views>>

\* fetch_issue_states_by_ids answers.
TickRefreshed ==
    /\ pc = "stalls" /\ todo = {} /\ ids # {}
    /\ pc' = "apply"
    /\ todo' = ids /\ ids' = {}
    /\ views' = [i \in Issues |->
                   IF i \in ids /\ tracker[i] # Gone
                     THEN [state |-> tracker[i], blocked |-> FALSE] ELSE NoView]
    /\ UNCHANGED <<tracker, sched, tasks, work, cut>>

\* fetch_issue_states_by_ids fails: keep the workers, go on to dispatch.
TickRefreshFails ==
    /\ pc = "stalls" /\ todo = {} /\ ids # {}
    /\ GoTo("apply")
    /\ UNCHANGED <<tracker, sched, tasks, work, cut>>

StillActive(v) == v # NoView /\ v.state \in ActiveStates \ TerminalStates

\* terminate_running_issue.  (Workspaces.tla adds the directory removal that
\* follows, outside the lock, when the new state is terminal.)
Terminate(i) ==
    IF i \in Running
      THEN /\ TakeEntry(i)
           /\ claimed' = claimed \ {i}
           /\ retries' = [retries EXCEPT ![i] = 0]
      ELSE UNCHANGED <<sched, cut>>

\* One refreshed issue; the issues missing from the response come last.
TickApply ==
    /\ pc = "apply"
    /\ \E i \in todo :
        /\ views[i] = NoView => \A j \in todo : views[j] = NoView
        /\ IF StillActive(views[i])
             THEN /\ running' = IF i \in Running
                                  THEN [running EXCEPT ![i].state = views[i].state] ELSE running
                  /\ UNCHANGED <<claimed, retries, cut>>
             ELSE Terminate(i)
        /\ todo' = todo \ {i}
        /\ views' = [views EXCEPT ![i] = NoView]
    /\ UNCHANGED <<tracker, tasks, work, pc, ids>>

Reconciled == /\ todo = {}
              /\ pc = "apply" \/ (pc = "stalls" /\ ids = {})

\* validate_for_dispatch or fetch_candidate_issues fails: no dispatch this tick.
TickFetchFails ==
    /\ Reconciled
    /\ GoTo("dispatch")
    /\ UNCHANGED <<tracker, sched, tasks, work, cut>>

TickFetched ==
    /\ Reconciled
    /\ pc' = "dispatch"
    /\ todo' = Candidates
    /\ views' = [i \in Issues |-> IF i \in Candidates THEN ViewOf(i) ELSE NoView]
    /\ UNCHANGED <<tracker, sched, tasks, work, ids, cut>>

\* dispatch_one(issue, None) for the next candidate in sort_for_dispatch order.
TickDispatch ==
    /\ pc = "dispatch"
    /\ \E i \in todo :
        /\ \A j \in todo : Rank[i] <= Rank[j]
        /\ LET o == Outcome(i, views[i], FALSE) IN
            /\ IF o = "Dispatched" THEN Spawn(i, views[i].state, 0)
                 ELSE UNCHANGED <<sched, workers>>
            /\ IF o = "NoSlot" THEN GoTo("dispatch")
                 ELSE /\ todo'  = todo \ {i}
                      /\ views' = [views EXCEPT ![i] = NoView]
                      /\ UNCHANGED <<pc, ids>>
    /\ UNCHANGED <<tracker, tasks, reports, cut>>

(***************************************************************************)
(* A retry timer: retries::fire_retry.                                     *)
(***************************************************************************)
\* The timer wakes and pops whatever entry the issue has; with none it ends.
RetryFires(i) ==
    /\ timers[i] > 0
    /\ timers' = [timers EXCEPT ![i] = @ - 1]
    /\ retries' = [retries EXCEPT ![i] = 0]
    /\ IF retries[i] = 0 THEN UNCHANGED firing
         ELSE \E f \in Fires \ {g.id : g \in firing} :
                firing' = firing \cup {[id |-> f, issue |-> i, attempt |-> retries[i],
                                        phase |-> "fetch", view |-> NoView]}
    /\ UNCHANGED <<tracker, running, claimed, work, poll, cut>>

\* A plausible bug: an early return on a failed fetch.
RetryFetchForgets(f) ==
    /\ f.phase = "fetch"
    /\ firing' = firing \ {f}
    /\ UNCHANGED <<tracker, sched, timers, work, poll, cut>>

\* fetch_candidate_issues fails: requeue with the attempt counted up.
RetryFetchFails(f) ==
    /\ f.phase = "fetch"
    /\ firing' = firing \ {f}
    /\ Schedule(f.issue, Bump(f.attempt))
    /\ UNCHANGED <<tracker, running, work, poll, cut>>

RetryFetched(f) ==
    /\ f.phase = "fetch"
    /\ firing' = (firing \ {f}) \cup
         {[f EXCEPT !.phase = "decide",
                    !.view  = IF f.issue \in Candidates THEN ViewOf(f.issue) ELSE NoView]}
    /\ UNCHANGED <<tracker, sched, timers, work, poll, cut>>

\* A plausible bug: requeueing, instead of releasing, what is not a candidate.
RetryKeepsClaim(f) ==
    /\ f.phase = "decide" /\ f.view = NoView
    /\ firing' = firing \ {f}
    /\ Schedule(f.issue, Bump(f.attempt))
    /\ UNCHANGED <<tracker, running, work, poll, cut>>

\* The issue is not a candidate any more: release the claim.
RetryReleases(f) ==
    /\ f.phase = "decide" /\ f.view = NoView
    /\ firing' = firing \ {f}
    /\ claimed' = claimed \ {f.issue}
    /\ UNCHANGED <<tracker, running, retries, timers, work, poll, cut>>

\* A plausible bug: forgetting the requeue when dispatch_one did not dispatch.
RetryDispatchesOrForgets(f) ==
    /\ f.phase = "decide" /\ f.view # NoView
    /\ firing' = firing \ {f}
    /\ IF Outcome(f.issue, f.view, TRUE) = "Dispatched"
         THEN Spawn(f.issue, f.view.state, f.attempt)
         ELSE UNCHANGED <<sched, workers>>
    /\ UNCHANGED <<tracker, timers, reports, poll, cut>>

\* dispatch_one(issue, Some(attempt)).
RetryDispatches(f) ==
    /\ f.phase = "decide" /\ f.view # NoView
    /\ IF Outcome(f.issue, f.view, TRUE) = "Dispatched"
         THEN Spawn(f.issue, f.view.state, f.attempt) /\ firing' = firing \ {f}
         ELSE /\ firing' = (firing \ {f}) \cup {[f EXCEPT !.phase = "requeue", !.view = NoView]}
              /\ UNCHANGED <<sched, workers>>
    /\ UNCHANGED <<tracker, timers, reports, poll, cut>>

\* Not dispatched: back into the queue with the attempt counted up.
RetryRequeues(f) ==
    /\ f.phase = "requeue"
    /\ firing' = firing \ {f}
    /\ Schedule(f.issue, Bump(f.attempt))
    /\ UNCHANGED <<tracker, running, work, poll, cut>>

RetryStep(f) ==
    RetryFetchFails(f) \/ RetryFetched(f) \/ RetryReleases(f)
        \/ RetryDispatches(f) \/ RetryRequeues(f)

(***************************************************************************)
(* Workers: run_worker, and consume_worker_reports / on_worker_exit.       *)
(***************************************************************************)
\* The agent attempt is over and its outcome is sent to the consumer.
WorkerExits(w, normal) ==
    /\ workers' = workers \ {w}
    /\ reports' = Append(reports, [run |-> w.run, issue |-> w.issue,
                                   attempt |-> w.attempt, normal |-> normal])
    /\ UNCHANGED <<tracker, sched, tasks, poll, cut>>

\* The task panics: nothing joins it, so no report is ever sent.
WorkerPanics(w) ==
    /\ workers' = workers \ {w}
    /\ UNCHANGED <<tracker, sched, tasks, reports, poll, cut>>

\* A plausible bug: forgetting that the attempt number travels with the report.
ConsumeReportAfresh ==
    /\ reports # <<>>
    /\ reports' = Tail(reports)
    /\ LET r == Head(reports) IN
        /\ running' = [running EXCEPT ![r.issue] = NoEntry]
        /\ Schedule(r.issue, 1)
    /\ UNCHANGED <<tracker, firing, workers, poll, cut>>

\* A plausible bug: leaving it to the next tick to find that the run is over.
ConsumeReportLate ==
    /\ reports # <<>>
    /\ reports' = Tail(reports)
    /\ Schedule(Head(reports).issue, Bump(Head(reports).attempt))
    /\ UNCHANGED <<tracker, running, firing, workers, poll, cut>>

\* on_worker_exit: the entry goes, whichever run it belongs to, and a retry is
\* scheduled, whatever the outcome (only the delay depends on it).
ConsumeReport ==
    /\ reports # <<>>
    /\ reports' = Tail(reports)
    /\ LET r == Head(reports) IN
        /\ running' = [running EXCEPT ![r.issue] = NoEntry]
        /\ Schedule(r.issue, Bump(r.attempt))
    /\ UNCHANGED <<tracker, firing, workers, poll, cut>>

(***************************************************************************)
(* The environment: the tracker's users and the operating system.          *)
(***************************************************************************)
\* A person, the agent or the bridge moves the ticket.
MoveIssue(i, s) ==
    /\ tracker[i] # s
    /\ tracker' = [tracker EXCEPT ![i] = s]
    /\ UNCHANGED <<sched, tasks, work, poll, cut>>

\* The daemon dies and starts again: only the tracker and the disk survive.
Crash ==
    /\ Crashes
    /\ running' = [i \in Issues |-> NoEntry] /\ claimed' = {}
    /\ retries' = [i \in Issues |-> 0]
    /\ timers' = [i \in Issues |-> 0] /\ firing' = {}
    /\ workers' = {} /\ reports' = <<>>
    /\ GoTo("dispatch")
    /\ cut' = {}
    /\ UNCHANGED tracker

Init ==
    /\ tracker \in [Issues -> States]
    /\ running = [i \in Issues |-> NoEntry] /\ claimed = {}
    /\ retries = [i \in Issues |-> 0]
    /\ timers = [i \in Issues |-> 0] /\ firing = {}
    /\ workers = {} /\ reports = <<>>
    /\ pc = "dispatch" /\ todo = {} /\ ids = {} /\ views = NoViews
    /\ cut = {}

Tick == \/ \E stalled \in SUBSET Running : TickStart(stalled)
        \/ TickStall \/ TickRefreshed \/ TickRefreshFails \/ TickApply
        \/ TickFetchFails \/ TickFetched \/ TickDispatch

Retry  == (\E i \in Issues : RetryFires(i)) \/ (\E f \in firing : RetryStep(f))

Worker == \E w \in workers :
            WorkerPanics(w) \/ \E normal \in BOOLEAN : WorkerExits(w, normal)

Environment == Crash \/ \E i \in Issues, s \in States \cup {Gone} : MoveIssue(i, s)

Next == Tick \/ Retry \/ Worker \/ ConsumeReport \/ Environment

Spec == Init /\ [][Next]_vars

(***************************************************************************)
(* Fairness: the tokio runtime polls every task that can run; sleeps end;  *)
(* a run ends because turn_timeout_ms and max_turns bound it; tracker      *)
(* outages end (strong fairness of the successful answers); and a run with *)
(* no live task emits no events, so its stall timeout does expire.         *)
(***************************************************************************)
Fairness ==
    /\ WF_vars(\E stalled \in SUBSET Running : TickStart(stalled))
    /\ WF_vars(TickStall)
    /\ WF_vars(TickRefreshed \/ TickRefreshFails)
    /\ WF_vars(TickApply)
    /\ WF_vars(TickFetched \/ TickFetchFails)
    /\ WF_vars(TickDispatch)
    /\ SF_vars(TickRefreshed)
    /\ SF_vars(TickFetched)
    /\ \A i \in Issues : WF_vars(RetryFires(i))
    /\ \A i \in Issues : SF_vars(/\ i \in Running /\ Unfinished(i) = {}
                               /\ \E stalled \in SUBSET Running : i \in stalled /\ TickStart(stalled))
    /\ \A id \in Fires :
         /\ WF_vars(\E f \in firing : f.id = id /\ RetryStep(f))
         /\ SF_vars(\E f \in firing : f.id = id /\ RetryFetched(f))
    /\ \A r \in Runs : WF_vars(\E w \in workers : w.run = r /\ \E normal \in BOOLEAN : WorkerExits(w, normal))
    /\ WF_vars(ConsumeReport)

FairSpec == Spec /\ Fairness

-----------------------------------------------------------------------------
(***************************************************************************)
(* Properties.                                                             *)
(***************************************************************************)
\* Every variable holds a value of the type its Rust counterpart can hold.
TypeOK ==
    /\ tracker \in [Issues -> States \cup {Gone}]
    /\ running \in [Issues -> Entry \cup {NoEntry}]
    /\ claimed \subseteq Issues
    /\ retries \in [Issues -> Attempts]
    /\ timers \in [Issues -> 0..MaxTimers]
    /\ firing \subseteq Firing
    /\ workers \subseteq WorkerOf
    /\ reports \in Seq(Report)
    /\ pc \in {"stalls", "apply", "dispatch"}
    /\ todo \subseteq Issues /\ ids \subseteq Issues
    /\ views \in [Issues -> View \cup {NoView}]
    /\ cut \subseteq Issues

\* The running map never holds more runs than agent.max_concurrent_agents,
\* however ticks and retry timers interleave (dispatch.rs has_slot).
SlotBound == Cardinality(Running) <= MaxConcurrent

RunningIn(s) == {i \in Running : running[i].state = s}
Full(s) == s \in DOMAIN StateCap /\ Cardinality(RunningIn(s)) >= StateCap[s]

\* Dispatch never adds a run to a state whose cap is reached, however stale the
\* state it was decided on: where more runs are in a state than its cap allows, a
\* refresh moved a running issue there (dispatch.rs has_slot, mod.rs:701).
OverCapByMovesOnly ==
    [][\A s \in DOMAIN StateCap :
         Cardinality(RunningIn(s)') > StateCap[s] =>
            \A i \in RunningIn(s)' : i \in Running /\ running'[i].run = running[i].run]_vars

\* A candidate of this tick that could be worked on, if it gets a slot.
Waiting(i) ==
    /\ pc = "dispatch" /\ i \in todo
    /\ Eligible(i, views[i]) /\ i \notin Running /\ i \notin claimed

\* A tick passes a candidate over only for want of a slot: the daemon's, or one of
\* the state of a candidate in front of it (mod.rs tick_body stops at NoSlot); it
\* never starts a lower candidate in its stead.
PassedOverForSlots ==
    [][\A i \in Issues : Waiting(i) /\ i \notin todo' /\ i \notin Running' =>
         \/ Crash
         \/ /\ running' = running
            /\ \/ Cardinality(Running) >= MaxConcurrent
               \/ \E j \in todo : Waiting(j) /\ Rank[j] <= Rank[i] /\ Full(views[j].state)]_vars

FiringOf(i) == {f \in firing : f.issue = i}

\* No claim leaks: a claimed issue is running, or has a retry entry, or a
\* fire_retry task is deciding about it (a leaked claim would keep every later
\* tick from dispatching the issue, mod.rs dispatch_one).
ClaimIsAccountedFor ==
    \A i \in claimed : i \in Running \/ retries[i] # 0 \/ FiringOf(i) # {}

\* A retry entry always has a sleeping timer that will pop it, so that no issue
\* waits in the queue for ever (retries.rs schedule).
RetryHasTimer == \A i \in Issues : retries[i] # 0 => timers[i] > 0

\* An issue none of whose runs was ever stalled out or terminated alive is in
\* one place at a time (running, retry queue or retry decision), is claimed
\* exactly when it is in one, has at most one unfinished run, and that run is
\* the one its running entry records.
OneOwner ==
    \A i \in Issues \ cut :
        /\ i \in Running => retries[i] = 0 /\ FiringOf(i) = {}
        /\ retries[i] # 0 => FiringOf(i) = {}
        /\ Cardinality(FiringOf(i)) <= 1
        /\ i \in claimed <=> i \in Running \/ retries[i] # 0 \/ FiringOf(i) # {}
        /\ \A r \in Unfinished(i) : i \in Running /\ running[i].run = r

\* The attempt number of an issue wherever it currently is.
AttemptOf(i) ==
    IF i \in Running THEN running[i].attempt
    ELSE IF retries[i] # 0 THEN retries[i]
    ELSE IF FiringOf(i) # {} THEN (CHOOSE f \in FiringOf(i) : TRUE).attempt
    ELSE 0

\* The run of i has reported a normal end that nobody has acted on yet.
Finished(i) == \E k \in DOMAIN reports : reports[k].issue = i /\ reports[k].normal

StatusOf(i) ==
    IF i \in cut THEN "disturbed"
    ELSE IF i \in Running THEN (IF Finished(i) THEN "finished" ELSE "running")
    ELSE IF retries[i] # 0 THEN "queued"
    ELSE IF FiringOf(i) # {} THEN "deciding"
    ELSE "unclaimed"

Lifecycle == INSTANCE ClaimLifecycle
    WITH status  <- [i \in Issues |-> StatusOf(i)],
         attempt <- [i \in Issues |-> IF i \in cut THEN 0 ELSE AttemptOf(i)]

\* The tasks together behave like the abstract claim protocol: an issue is
\* taken from the queue only by its backoff, keeps its attempt number across a
\* dispatch and counts it on after every failure (no crash loop that bypasses the
\* backoff, as the comment in dispatch_one puts it) and is released only by a
\* decision.  Which number a continuation gets after a normal end is left open:
\* docs/SPEC.md:668 says 1, on_worker_exit counts on (mod.rs:586).
RefinesLifecycle == Lifecycle!Spec

HolderOf(i)   == IF i \in Running THEN {running[i].run} ELSE {}
LiveOf(i)     == {w.run : w \in {x \in workers : x.issue = i}}
ReportedOf(i) == {reports[k].run : k \in {n \in DOMAIN reports : reports[n].issue = i}}

Protocol == INSTANCE RunProtocol
    WITH holder   <- [i \in Issues |-> HolderOf(i)],
         live     <- [i \in Issues |-> LiveOf(i)],
         reported <- [i \in Issues |-> ReportedOf(i)]

\* The poll task, the timers and the consumer of the exit reports keep the protocol
\* on which the model of an attempt relies: no run is started over another one's
\* entry, or under an identity still in use, and each report is read once.
KeepsProtocol == Protocol!Spec

\* A ticket that leaves the active states for good ends up unclaimed for good,
\* even though the workers that were on it still have to report.
EventuallyReleased ==
    \A i \in Issues : <>[](tracker[i] \notin ActiveStates) => <>[](i \notin claimed)

\* A ticket that stays dispatchable has a live worker again and again: neither a
\* panic, nor a failed fetch, nor a stale report strands it (with a slot and an
\* open gate for every issue).
EventuallyWorked ==
    \A i \in Permitted :
        <>[](tracker[i] \in ActiveStates \ {Todo}) => []<>(\E w \in workers : w.issue = i)

\* Violated.  At most one worker lives per issue: a stalled or ineligible run
\* is cancelled before the issue can be run again.
OneWorkerPerIssue ==
    \A v, w \in workers : v.issue = w.issue => v = w
=============================================================================
