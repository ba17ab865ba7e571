------------------------------- MODULE Daemon -------------------------------
(***************************************************************************)
(* The daemon around its scheduler: starting from WORKFLOW.md, the watcher *)
(* that reloads it, the parts a reload swaps one by one and a run reads    *)
(* one by one, and the emitter that posts completed sessions to the        *)
(* subscribers.                                                            *)
(*                                                                         *)
(* Contents of WORKFLOW.md are names; Files gives their text.  "loaded"    *)
(* lists the contents accepted since the daemon started, and a part in     *)
(* force, or read by a run, is a position in that list.                    *)
(***************************************************************************)
EXTENDS Settings

CONSTANTS
    Files,               \* name of a content of WORKFLOW.md -> its text
    PortFlag,            \* whether --port is given
    MaxRuns,             \* bound: the dispatches of a behaviour
    StateOf,             \* issue of a run -> its tracker state
    Usages,              \* what a session may consume: [input, output]
    Callbacks,           \* callback addresses a subscriber may ask for
    WebCallbacks,        \* those that are http(s) addresses
    SignalCapacity,      \* capacity of the watcher's channel (8)
    RecentCapacity,      \* events kept for GET /api/v1/events/recent (200)
    MaxDeliveryAttempts, \* posts of one event to one subscriber (5)
    Plans                \* bounds of behaviours, see DaemonInit and Spend

ASSUME DaemonBounds ==
    /\ MaxRuns \in Nat /\ WebCallbacks \subseteq Callbacks
    /\ SignalCapacity \in Nat \ {0} /\ RecentCapacity \in Nat \ {0}
    /\ MaxDeliveryAttempts \in Nat \ {0}

Runs   == 1..MaxRuns
Names  == DOMAIN Files
Issues == DOMAIN StateOf

ASSUME DaemonPlans ==
    \A p \in Plans : p.first \subseteq Names /\ p.sessions \subseteq [Runs -> Issues]

ASSUME DaemonUsages == Usages \subseteq [input : Nat, output : Nat]

Parts  == {"workflow", "config", "tracker", "workspace", "limits"}

VARIABLES
    plan,      \* the bounds of this behaviour
    used,      \* what it has used of them
    file,      \* the content of WORKFLOW.md
    daemon,    \* the process: [phase, error, from, secret], where a start that was
               \* refused leaves its error, and its emitter keeps a secret
    loaded,    \* contents accepted since the start
    inForce,   \* part -> position in loaded
    reload,    \* "idle", "read", or the part it swaps next
    refresh,   \* the permit that wakes the poll loop
    watch,     \* the watcher: [on, raw, recent, signals]
    lost,      \* ghost: the last change was not seen, or its event dropped
    run,       \* run -> [pc, issue, attempt] and the positions of the parts it read
    event,     \* run -> the SessionCompleted it sent
    outbox,    \* the emitter's channel: runs whose event waits
    registry,  \* the subscribers' callback addresses
    recent,    \* the ring buffer of events sent
    delivery   \* <<run, callback>> -> [pc, attempt]

daemonVars == <<plan, used, file, daemon, loaded, inForce, reload, refresh, watch, lost, run,
                event, outbox, registry, recent, delivery>>

filing   == <<file, watch, lost>>
swapping == <<loaded, inForce, reload, refresh>>
emitting == <<event, outbox, registry, recent, delivery>>

\* What the programs make of each content.
Reloads  == Evaluated([name \in Names |-> ReloadError(Files[name])])
Starts   == Evaluated([name \in Names |-> StartError(Files[name], PortFlag)])
Checks   == Evaluated([name \in Names |-> CheckWorkflow(Files[name])])
Services == Evaluated([name \in Names |->
                IF LoadError(Files[name]) = Ok THEN <<Service(Files[name])>> ELSE <<>>])

Usable(name) == Reloads[name] = Ok
ServiceOf(position) == Services[loaded[position]][1]

NoRun   == [pc |-> "idle", issue |-> None, attempt |-> 0, config |-> 0, workflow |-> 0, workspace |-> 0, tracker |-> 0]
NoUsage == [input |-> 0, output |-> 0]
NoEvent == [provider |-> None, model |-> None, input |-> 0, output |-> 0, signature |-> None]
Deliveries == Runs \X Callbacks
Live == {"config", "workflow", "workspace", "tracker", "working"}

Spend(what) == used[what] < plan[what] /\ used' = [used EXCEPT ![what] = @ + 1]

Quiet == [on |-> FALSE, raw |-> FALSE, recent |-> FALSE, signals |-> 0]

-----------------------------------------------------------------------------
(* Starting and stopping.                                                  *)

\* A start reads the file once; the watcher comes up later, in a task.
Start ==
    /\ daemon.phase # "up"
    /\ IF Starts[file] # Ok
       THEN /\ daemon' = [daemon EXCEPT !.phase = "refused", !.error = Starts[file], !.from = file]
            /\ UNCHANGED <<loaded, inForce, watch, lost, registry, recent>>
       ELSE /\ daemon' = [phase |-> "up", error |-> Ok, from |-> file,
                          secret |-> Services[file][1].telemetry.sinfonia_events_secret]
            /\ loaded' = <<file>> /\ inForce' = [p \in Parts |-> 1]
            /\ watch' = Quiet /\ lost' = FALSE
            /\ registry' = {} /\ recent' = <<>>
    /\ UNCHANGED <<plan, used, file, reload, refresh, run, event, outbox, delivery>>

\* Runs, the queue of events and the posts under way go with the process.
Crash ==
    /\ daemon.phase = "up" /\ Spend("crashes")
    /\ daemon' = [daemon EXCEPT !.phase = "down"]
    /\ reload' = "idle" /\ refresh' = FALSE /\ watch' = Quiet /\ outbox' = <<>>
    /\ run' = [r \in Runs |-> IF run[r].pc = "idle" THEN run[r] ELSE [NoRun EXCEPT !.pc = "over"]]
    /\ delivery' = [t \in Deliveries |-> IF delivery[t].pc \in {"send", "sent"}
                                         THEN [delivery[t] EXCEPT !.pc = "lost"] ELSE delivery[t]]
    /\ UNCHANGED <<plan, file, loaded, inForce, lost, event, registry, recent>>

-----------------------------------------------------------------------------
(* The file and its watcher.                                               *)

\* Every change in the directory of the file is an event, also one that
\* leaves the file as it is.
Edit(name) ==
    /\ Spend("edits") /\ name \in plan.contents
    /\ file' = name
    /\ watch' = [watch EXCEPT !.raw = watch.on]
    /\ lost' = (lost \/ (daemon.phase = "up" /\ ~watch.on))
    /\ UNCHANGED <<plan, daemon, swapping, run, emitting>>

Watch ==
    /\ daemon.phase = "up" /\ ~watch.on
    /\ watch' = [watch EXCEPT !.on = TRUE]
    /\ UNCHANGED <<plan, used, file, daemon, swapping, lost, run, emitting>>

\* Pending events count as one, and as none within 200 ms of the last signal.
Debounce ==
    /\ watch.raw
    /\ IF watch.recent
       THEN /\ watch' = [watch EXCEPT !.raw = FALSE] /\ lost' = TRUE
       ELSE /\ watch.signals < SignalCapacity
            /\ watch' = [watch EXCEPT !.raw = FALSE, !.recent = TRUE, !.signals = @ + 1]
            /\ UNCHANGED lost
    /\ UNCHANGED <<plan, used, file, daemon, swapping, run, emitting>>

Settle200ms ==
    /\ watch.recent
    /\ watch' = [watch EXCEPT !.recent = FALSE]
    /\ UNCHANGED <<plan, used, file, daemon, swapping, lost, run, emitting>>

-----------------------------------------------------------------------------
(* Reloading.                                                              *)

TakeSignal ==
    /\ reload = "idle" /\ watch.signals > 0
    /\ watch' = [watch EXCEPT !.signals = @ - 1] /\ reload' = "read"
    /\ UNCHANGED <<plan, used, file, daemon, loaded, inForce, refresh, lost, run, emitting>>

\* A content that does not load leaves everything as it is.
ReadFile ==
    /\ reload = "read" /\ lost' = FALSE
    /\ IF Usable(file) THEN loaded' = Append(loaded, file) /\ reload' = "workflow"
                       ELSE reload' = "idle" /\ UNCHANGED loaded
    /\ UNCHANGED <<plan, used, file, daemon, inForce, refresh, watch, run, emitting>>

\* Mutant: apply_reload replaces the workspace manager before the tracker.
WorkspaceFirst == [workflow |-> "config", config |-> "workspace", workspace |-> "tracker",
                   tracker |-> "limits", limits |-> "idle"]

SwapNext == [workflow |-> "config", config |-> "tracker", tracker |-> "workspace",
             workspace |-> "limits", limits |-> "idle"]

\* Mutant: the signals that came during a reload are taken to be part of it.
SwapDraining ==
    /\ reload \in Parts
    /\ inForce' = [inForce EXCEPT ![reload] = Len(loaded)]
    /\ reload' = SwapNext[reload]
    /\ refresh' = (refresh \/ reload = "limits")
    /\ watch' = IF reload = "limits" THEN [watch EXCEPT !.signals = 0] ELSE watch
    /\ UNCHANGED <<plan, used, file, lost, daemon, loaded, run, emitting>>

\* Each part is swapped under a lock of its own; the last step wakes the loop.
Swap ==
    /\ reload \in Parts
    /\ inForce' = [inForce EXCEPT ![reload] = Len(loaded)]
    /\ reload' = SwapNext[reload]
    /\ refresh' = (refresh \/ reload = "limits")
    /\ UNCHANGED <<plan, used, filing, daemon, loaded, run, emitting>>

-----------------------------------------------------------------------------
(* The poll loop, as far as it meets a reload, and the runs.               *)

\* The loop takes the permit; what the tick does is the scheduler's model.
Wake ==
    /\ refresh /\ refresh' = FALSE
    /\ UNCHANGED <<plan, used, filing, daemon, loaded, inForce, reload, run, emitting>>

\* The attempt number of a retry counts at least the runs before it; what decides
\* between a retry and a dispatch by the tick is the scheduler's model.
Dispatch(r, issue, attempt) ==
    /\ daemon.phase = "up" /\ run[r].pc = "idle" /\ Spend("dispatches")
    /\ \E issues \in plan.sessions : issues[r] = issue
    /\ \A before \in Runs : before < r => run[before].pc # "idle"
    /\ \A other \in Runs : run[other].pc \in Live => run[other].issue # issue
    /\ attempt # 0 => \E before \in Runs : run[before].pc = "over" /\ run[before].issue = issue
    /\ Cardinality({other \in Runs : run[other].pc \in Live})
         < ServiceOf(inForce["limits"]).agent.max_concurrent_agents
    /\ run' = [run EXCEPT ![r] = [NoRun EXCEPT !.pc = "config", !.issue = issue, !.attempt = attempt]]
    /\ UNCHANGED <<plan, filing, daemon, swapping, emitting>>

ReadNext == [config |-> "workflow", workflow |-> "workspace", workspace |-> "tracker",
             tracker |-> "working"]

\* run_worker takes its four parts one after the other.
ReadPart(r) ==
    /\ run[r].pc \in DOMAIN ReadNext
    /\ run' = [run EXCEPT ![r][run[r].pc] = inForce[run[r].pc], ![r].pc = ReadNext[run[r].pc]]
    /\ UNCHANGED <<plan, used, filing, daemon, swapping, emitting>>

\* The session's event names the model of the configuration the run has read.
EventOf(position, issue, usage) ==
    LET llm == EffectiveLlm(ServiceOf(position), StateOf[issue])
    IN  [provider |-> llm.provider, model |-> llm.model,
         input |-> usage.input, output |-> usage.output, signature |-> None]

PromptOf(r) ==
    EffectivePrompt(ServiceOf(run[r].config), StateOf[run[r].issue],
                    ReadWorkflow(Files[loaded[run[r].workflow]]).prompt)

\* A session whose prompt does not render ends before its first turn, and is
\* reported all the same.
Finish(r, usage) ==
    /\ run[r].pc = "working"
    /\ run' = [run EXCEPT ![r].pc = "over"]
    /\ LET spent == IF PromptError(PromptOf(r), run[r].issue, run[r].attempt) = Ok
                    THEN usage ELSE NoUsage
       IN  event' = [event EXCEPT ![r] = EventOf(run[r].config, run[r].issue, spent)]
    /\ outbox' = Append(outbox, r)
    /\ UNCHANGED <<plan, used, filing, daemon, swapping, registry, recent, delivery>>

\* An attempt that fails before its session starts sends no event.
FailEarly(r) ==
    /\ run[r].pc = "working"
    /\ run' = [run EXCEPT ![r].pc = "over"]
    /\ UNCHANGED <<plan, used, filing, daemon, swapping, emitting>>

-----------------------------------------------------------------------------
(* Subscribers and the emitter.                                            *)

Register(url) ==
    /\ daemon.phase = "up" /\ url \in WebCallbacks
    /\ PortFlag \/ ServiceOf(1).server.port # {}
    /\ registry' = registry \cup {url}
    /\ UNCHANGED <<plan, used, filing, daemon, swapping, run, event, outbox, recent, delivery>>

Emit ==
    /\ outbox # <<>> /\ outbox' = Tail(outbox)
    /\ LET r == Head(outbox) IN
       /\ event' = [event EXCEPT ![r].signature = daemon.secret]
       /\ recent' = Append(IF Len(recent) < RecentCapacity THEN recent ELSE Tail(recent), r)
       /\ delivery' = [t \in Deliveries |->
                          IF t[1] = r /\ t[2] \in registry THEN [pc |-> "send", attempt |-> 0]
                          ELSE delivery[t]]
    /\ UNCHANGED <<plan, used, filing, daemon, swapping, run, registry>>

Post(t) ==
    /\ delivery[t].pc = "send"
    /\ delivery' = [delivery EXCEPT ![t] = [pc |-> "sent", attempt |-> @.attempt + 1]]
    /\ UNCHANGED <<plan, used, filing, daemon, swapping, run, event, outbox, registry, recent>>

\* After an answer that is no success, or none: again, unless that was the last.
Outcome(attempt, success) ==
    IF success THEN "done" ELSE IF attempt < MaxDeliveryAttempts THEN "send" ELSE "given_up"

Concluded(t, success) ==
    /\ delivery[t].pc = "sent"
    /\ delivery' = [delivery EXCEPT ![t].pc = Outcome(delivery[t].attempt, success)]
    /\ UNCHANGED <<plan, filing, daemon, swapping, run, event, outbox, registry, recent>>

Answered(t, success) == Concluded(t, success) /\ UNCHANGED used
Unanswered(t)        == Concluded(t, FALSE) /\ Spend("drops")

-----------------------------------------------------------------------------
\* A daemon that is down, or one that serves, with its subscribers registered
\* and the events of sessions that have ended waiting for the emitter.
DaemonInit ==
    /\ plan \in Plans
    /\ used = [dispatches |-> 0, edits |-> 0, crashes |-> 0, drops |-> 0]
    /\ file \in plan.first
    /\ reload = "idle" /\ refresh = FALSE /\ lost = FALSE /\ recent = <<>>
    /\ delivery = [t \in Deliveries |-> [pc |-> "none", attempt |-> 0]]
    /\ IF plan.start = "down"
       THEN /\ daemon = [phase |-> "down", error |-> Ok, from |-> file, secret |-> None]
            /\ loaded = <<>> /\ inForce = [p \in Parts |-> 0]
            /\ watch = Quiet /\ registry = {} /\ outbox = <<>>
            /\ run = [r \in Runs |-> NoRun] /\ event = [r \in Runs |-> NoEvent]
       ELSE /\ Starts[file] = Ok
            /\ daemon = [phase |-> "up", error |-> Ok, from |-> file,
                         secret |-> Services[file][1].telemetry.sinfonia_events_secret]
            /\ loaded = <<file>> /\ inForce = [p \in Parts |-> 1]
            /\ watch = [Quiet EXCEPT !.on = TRUE] /\ registry = WebCallbacks
            /\ outbox = [r \in Runs |-> r]
            /\ \E issue \in plan.sessions, usage \in [Runs -> Usages] :
                  /\ run = [r \in Runs |-> [NoRun EXCEPT !.pc = "over", !.issue = issue[r]]]
                  /\ event = [r \in Runs |-> EventOf(1, issue[r], usage[r])]

\* Everything but a post's answer, which comes from the subscriber.
DaemonAlone ==
    \/ Start \/ Watch \/ Debounce \/ Settle200ms \/ TakeSignal \/ ReadFile \/ Swap \/ Wake
    \/ \E name \in Names : Edit(name)
    \/ \E r \in Runs, issue \in Issues, attempt \in 0..MaxRuns : Dispatch(r, issue, attempt)
    \/ \E r \in Runs : ReadPart(r) \/ FailEarly(r)
    \/ \E r \in Runs, usage \in Usages : Finish(r, usage)
    \/ \E url \in Callbacks : Register(url)
    \/ \E t \in Deliveries : Post(t)
    \/ Emit

DaemonNext ==
    \/ DaemonAlone \/ Crash
    \/ \E t \in Deliveries : Unanswered(t) \/ \E success \in BOOLEAN : Answered(t, success)

DaemonSpec == DaemonInit /\ [][DaemonNext]_daemonVars

-----------------------------------------------------------------------------
Phases == {"up", "down", "refused"}
DaemonTypeOK ==
    /\ file \in Names /\ loaded \in Seq(Names) /\ lost \in BOOLEAN /\ refresh \in BOOLEAN
    /\ daemon.phase \in Phases
    /\ inForce \in [Parts -> Nat] /\ \A p \in Parts : inForce[p] \in 0..Len(loaded)
    /\ reload \in Parts \cup {"idle", "read"}
    /\ run \in [Runs -> [pc : Live \cup {"idle", "over"}, issue : Issues \cup {None}, attempt : Nat,
                         config : Nat, workflow : Nat, workspace : Nat, tracker : Nat]]
    /\ registry \subseteq WebCallbacks

\* What a run works with is nearly one load: apply_reload and run_worker take
\* the same four locks in two different orders, so a run under a reload mixes
\* contents, but its prompt is never older than its settings, its tracker never
\* older than its workspace manager, and no part is more than one load behind
\* its settings (orchestrator/mod.rs:177 and :409).
OrderedSnapshot ==
    \A r \in Runs : run[r].pc = "working" =>
        /\ run[r].workflow >= run[r].config
        /\ run[r].tracker >= run[r].workspace
        /\ run[r].workspace + 1 >= run[r].config

\* Once the watcher and the reload are at rest, one usable content is in force
\* in every part, and it is the last one written, or that one is unusable, or
\* its change came before the watcher did or within 200 ms of another
\* (config/watcher.rs:69, main.rs:228).
ReloadSettles ==
    (daemon.phase = "up" /\ reload = "idle" /\ ~watch.raw /\ watch.signals = 0 /\ ~lost) =>
        /\ \A p \in Parts : inForce[p] = Len(loaded) /\ Usable(loaded[inForce[p]])
        /\ Usable(file) => loaded[Len(loaded)] = file

\* --check tells what a start would do: a content it accepts is refused only
\* for the tracker's address, the workspace root or the server's address, and
\* one that starts has at most a template that does not render (check.rs:38).
CheckPredictsStart ==
    /\ (daemon.phase = "refused" /\ Checks[daemon.from] = 0)
          => daemon.error \in {"endpoint", "workspace", "bind"}
    /\ \A i \in DOMAIN loaded : Checks[loaded[i]] \in {0, 4}

\* A run whose settings and whose prompt come from contents that --check
\* accepts has a prompt that --check has rendered, also when a reload came
\* between the two: it compiles whatever the issue is, and a run can fail at it
\* only for what its issue or its attempt number has and the stub of --check has
\* not, children, labels, blockers or no attempt yet (check.rs:67,
\* runner.rs:145, config/typed.rs:386).
CheckedPromptsRender ==
    \A r \in Runs :
        LET config == run[r].config
            body   == run[r].workflow
        IN  (run[r].pc = "working" /\ Checks[loaded[config]] = 0 /\ Checks[loaded[body]] = 0) =>
                /\ PromptError(PromptOf(r), run[r].issue, run[r].attempt) # "parse"
                /\ PromptError(PromptOf(r), Stub, 1) = Ok
=============================================================================
