------------------------------- MODULE Attempt --------------------------------
(***************************************************************************)
(* The attempts of one issue, from the dispatch to the exit report: the    *)
(* runner (workspace, hooks, agent, turns), the tool loop of the raw LLM   *)
(* providers, the subprocess turns of the CLI backends, the events the     *)
(* attempts send and the orchestrator's token accounting.  Scheduler says  *)
(* when an issue is dispatched; here a run is dispatched whenever the      *)
(* issue has no running entry, so that a superseded run may live on beside *)
(* its successor.                                                          *)
(*                                                                         *)
(* The steps of an attempt between two awaits are one action.  Agent       *)
(* events and exit reports travel on two channels.  Events that change     *)
(* nothing but what the dashboard displays are left out.                   *)
(***************************************************************************)
EXTENDS Backends, Workspaces, FiniteSets

CONSTANTS
    MaxRuns,          \* bound: attempts, numbered in the order of dispatch
    Configs,          \* configurations, each with the replies its endpoint gives
    ActiveStates, TerminalStates, OtherStates,
    Responses,        \* what the LLM endpoint may answer
    MaxIterations,    \* max_iterations of the raw providers
    MaxLines,         \* bound: usage lines one subprocess prints in a turn
    MaxBacklog,       \* bound: agent events not consumed yet
    MaxMoves,         \* bound: changes of the issue's state in the tracker
    MaxRestarts       \* bound: restarts of the daemon

Runs   == 1..MaxRuns
States == ActiveStates \cup TerminalStates \cup OtherStates
Agents == RawProviders \cup CliProviders \cup {"app_server"}
Hooks  == {"after_create", "before_run", "after_run"}
Config == [agent: [ActiveStates -> Agents], hooks: SUBSET Hooks,
           maxTurns: Nat, reaping: BOOLEAN, replies: SUBSET Responses,
           missing: SUBSET Missing]

ASSUME AttemptBounds ==
    /\ MaxRuns \in Nat \ {0} /\ MaxIterations \in Nat \ {0}
    /\ MaxLines \in Nat /\ MaxBacklog \in Nat \ {0}
    /\ MaxMoves \in Nat /\ MaxRestarts \in Nat /\ MaxDirs \in Nat
ASSUME AttemptConfigs ==
    /\ Configs \subseteq Config
    /\ \A c \in Configs : c.maxTurns > 0
    /\ ActiveStates \cap TerminalStates = {}
ASSUME AttemptResponses ==
    \A m \in Responses :
        /\ m.text \in BOOLEAN /\ m.metered \in BOOLEAN
        /\ m.body \in {"full", "hollow", "error"}
        /\ m.calls \in Seq([tool: Tools, args: Arguments])

VARIABLES
    cfg,              \* the configuration the runs were given
    issue,            \* the issue's state in the tracker
    moves, restarts,  \* how much of the bounds is used up
    run,              \* the attempts
    entry,            \* OrchestratorState.running of the issue
    backlog,          \* the channel of agent events
    exits,            \* the channel of exit reports
    timer,            \* a retry timer is set
    totals,           \* codex_totals
    spent,            \* history: tokens the agents consumed
    told,             \* history: tokens of the SessionCompleted events sent
    missed,           \* history: tokens of events that found no running entry
    cut,              \* history: events may be counted for another run (below)
    why               \* history: what the entry's run has gone through

counts == <<totals, spent, told, missed>>
vars == <<dir, sweep, cfg, issue, moves, restarts, run, entry, backlog, exits,
          timer, totals, spent, told, missed, cut, why>>

NoRun == 0
Entry == [run: 0..MaxRuns, base: Nat]
NoEntry == [run |-> NoRun, base |-> 0]

\* Session pcs: between SessionStarted and the end of the after_run hook.
InTurn     == {"turn", "call", "tools", "write", "stdin", "stream", "refresh"}
InSession  == InTurn \cup {"after_run"}
Preparing  == {"ensure", "after_create", "before_run", "build", "start"}
Live       == Preparing \cup InSession
Over       == {"over", "gone"}

Idle == [pc |-> "idle", st |-> "none", agent |-> "none", at |-> 0, turn |-> 0,
         iter |-> 0, hist |-> <<>>, todo |-> <<>>, fin |-> FALSE, use |-> 0,
         sess |-> 0, started |-> FALSE, thread |-> "none",
         named |-> FALSE, stuck |-> FALSE, orphan |-> FALSE]

Current(r) == entry.run = r

AttemptInit ==
    /\ WorkspacesInit
    /\ cfg \in Configs
    /\ issue \in ActiveStates
    /\ moves = 0 /\ restarts = 0
    /\ run = [r \in Runs |-> Idle]
    /\ entry = NoEntry
    /\ backlog = <<>> /\ exits = {} /\ timer = FALSE
    /\ totals = 0 /\ spent = 0 /\ told = 0 /\ missed = 0
    /\ cut = FALSE /\ why = {}

(***************************************************************************)
(* Pieces.                                                                 *)
(***************************************************************************)
Step(r, new)  == run' = [run EXCEPT ![r] = new]
At(r, pc)     == run[r].pc = pc
Room(n)       == Len(backlog) + n <= MaxBacklog
Started       == [kind |-> "started", n |-> NoUsage]
Progress(n)   == [kind |-> "progress", n |-> n]
Completed(n)  == [kind |-> "completed", n |-> n]

\* What the runner leaves alone while it works on its own.
Aside == UNCHANGED <<sweep, cfg, issue, moves, restarts, entry, timer, totals, missed, why>>
Quiet == Aside /\ UNCHANGED <<backlog, exits, spent, told, cut>>

\* The attempt returns before it has a session.
Leave(r) ==
    /\ Step(r, [Idle EXCEPT !.pc = "over"])
    /\ exits' = exits \cup {r}

\* The turn loop is left, for whatever reason: stop_session, then after_run.
Stop(rec) == [rec EXCEPT !.pc = "after_run", !.todo = <<>>, !.hist = <<>>,
                         !.iter = 0, !.turn = 0, !.fin = FALSE, !.st = "none",
                         !.thread = "none", !.named = FALSE]

(***************************************************************************)
(* Dispatch, and the preparation of the workspace.                         *)
(***************************************************************************)
\* A plausible bug: starting a run over another one's entry.
DispatchOver(r) ==
    /\ At(r, "idle")
    /\ \A q \in Runs : q < r => ~At(q, "idle")
    /\ issue \in ActiveStates
    /\ timer \/ sweep = "idle"
    /\ timer' = FALSE
    /\ Step(r, [Idle EXCEPT !.pc = "ensure", !.st = issue])
    /\ entry' = [run |-> r, base |-> 0]
    /\ why' = {} /\ cut' = TRUE
    /\ UNCHANGED <<dir, sweep, cfg, issue, moves, restarts, backlog, exits, counts>>

\* The end of dispatch_one and the start of run_worker, for a candidate of
\* the poll task or for a retry timer, which does not wait for that task.
Dispatch(r) ==
    /\ At(r, "idle")
    /\ \A q \in Runs : q < r => ~At(q, "idle")
    /\ entry = NoEntry
    /\ issue \in ActiveStates
    /\ timer \/ sweep = "idle"
    /\ timer' = FALSE
    /\ Step(r, [Idle EXCEPT !.pc = "ensure", !.st = issue])
    /\ entry' = [run |-> r, base |-> 0]
    /\ why' = IF sweep \in {"drop", "listed", "loose"} THEN {"late"} ELSE {}
    /\ cut' = (cut \/ backlog # <<>>)
    /\ UNCHANGED <<dir, sweep, cfg, issue, moves, restarts, backlog, exits, counts>>

Ensure(r) ==
    /\ At(r, "ensure")
    /\ \/ /\ dir.here \/ dir.gen < MaxDirs
          /\ EnsureForIssue("after_create" \in cfg.hooks)
          /\ Step(r, [run[r] EXCEPT
                !.at = dir'.gen,
                !.pc = IF CreatedNow /\ "after_create" \in cfg.hooks
                       THEN "after_create" ELSE "before_run"])
          /\ UNCHANGED exits
       \/ Leave(r) /\ UNCHANGED dir
    /\ Aside /\ UNCHANGED <<backlog, spent, told, cut>>

\* run_hook: exit code 0, or anything else (spawn failure, other code, timeout).
AfterCreate(r) ==
    /\ At(r, "after_create")
    /\ LET mine == dir.here /\ dir.gen = run[r].at IN
       \/ /\ Step(r, [run[r] EXCEPT !.pc = "before_run"])
          /\ dir' = IF mine /\ ~dir.spoiled THEN [dir EXCEPT !.ready = TRUE] ELSE dir
          /\ UNCHANGED exits
       \/ /\ Leave(r)
          /\ dir' = IF mine THEN [dir EXCEPT !.spoiled = TRUE] ELSE dir
    /\ Aside /\ UNCHANGED <<backlog, spent, told, cut>>

BeforeRun(r) ==
    /\ At(r, "before_run")
    /\ \/ Step(r, [run[r] EXCEPT !.pc = "build"]) /\ UNCHANGED exits
       \/ "before_run" \in cfg.hooks /\ Leave(r)
    /\ Aside /\ UNCHANGED <<dir, backlog, spent, told, cut>>

\* effective_llm_for_state and build_for.
BuildFor(r) ==
    /\ At(r, "build")
    /\ LET agent == cfg.agent[run[r].st] IN
       IF Builds(agent, cfg.missing)
       THEN Step(r, [run[r] EXCEPT !.pc = "start", !.agent = agent]) /\ UNCHANGED exits
       ELSE Leave(r)
    /\ Aside /\ UNCHANGED <<dir, backlog, spent, told, cut>>

\* A raw provider starts its thread here, a CLI in its first turn; the stub
\* of the app server fails, which skips the turns and SessionCompleted.
StartRaw(rec)  == [rec EXCEPT !.hist = <<System>>, !.thread = "real"]
StartCli(rec)  == [rec EXCEPT !.thread = "pending"]
StartStub(rec) == Stop(rec)

StartSession(r) ==
    /\ At(r, "start")
    /\ LET opened == [run[r] EXCEPT !.pc = "turn", !.turn = 1, !.started = TRUE] IN
       Step(r, CASE run[r].agent \in RawProviders -> StartRaw(opened)
                 [] run[r].agent \in CliProviders -> StartCli(opened)
                 [] run[r].agent = "app_server"   -> StartStub(run[r]))
    /\ Quiet /\ UNCHANGED dir

(***************************************************************************)
(* A turn of a raw provider: run_provider_turn.                            *)
(***************************************************************************)
Raw(r) == run[r].agent \in RawProviders

\* The prompt template is rendered for the first turn only and may fail.
PromptFails(r) ==
    /\ At(r, "turn") /\ run[r].turn = 1
    /\ Step(r, Stop(run[r]))
    /\ Quiet /\ UNCHANGED dir

RawBegin(r) ==
    /\ At(r, "turn") /\ Raw(r) /\ Room(1)
    /\ Step(r, [run[r] EXCEPT !.pc = "call", !.hist = Append(@, Prompt),
                              !.iter = 0, !.use = 0])
    /\ backlog' = Append(backlog, Started)
    /\ Aside /\ UNCHANGED <<dir, exits, spent, told, cut>>

\* TurnCompleted goes out and the outcome is Completed with the same usage.
CompleteTurn(r, rec, usage) ==
    /\ Room(1)
    /\ Step(r, [rec EXCEPT !.pc = "refresh", !.todo = <<>>, !.use = 0,
                           !.sess = @ + (IF usage = NoUsage THEN 0 ELSE usage)])
    /\ backlog' = Append(backlog, Completed(usage))

\* The deadline is looked at between two iterations only.
DeadlinePassed(r) ==
    /\ At(r, "call") /\ run[r].iter > 0
    /\ Step(r, Stop(run[r]))
    /\ Quiet /\ UNCHANGED dir

CallLlm(r) ==
    /\ At(r, "call")
    /\ \E resp \in cfg.replies :
        LET reply == Parse(run[r].agent, resp)
            n     == Len(run[r].hist)
            calls == [k \in DOMAIN reply.calls |->
                        [id |-> <<n, k>>, tool |-> reply.calls[k].tool,
                                          args |-> reply.calls[k].args]]
            rec   == [run[r] EXCEPT
                        !.hist = Append(@, Assistant([text |-> reply.text, calls |-> calls])),
                        !.use = @ + reply.tokens, !.todo = calls, !.fin = FALSE]
        IN  \/ /\ reply = Failure
               /\ Step(r, Stop(run[r]))
               /\ UNCHANGED <<backlog, spent>>
            \/ /\ reply # Failure
               /\ spent' = spent + reply.tokens
               /\ IF calls = <<>> THEN CompleteTurn(r, rec, rec.use)
                  ELSE Step(r, [rec EXCEPT !.pc = "tools"]) /\ UNCHANGED backlog
    /\ Aside /\ UNCHANGED <<dir, exits, told, cut>>

\* After an answered call: the next one, the end of the turn, or the next
\* iteration.  A final call does not keep the calls after it from running.
Next1(r, rec) ==
    IF rec.todo # <<>> THEN Step(r, [rec EXCEPT !.pc = "tools"]) /\ UNCHANGED backlog
    ELSE IF rec.fin THEN CompleteTurn(r, rec, rec.use)
    ELSE IF rec.iter + 1 < MaxIterations
         THEN Step(r, [rec EXCEPT !.pc = "call", !.iter = @ + 1]) /\ UNCHANGED backlog
         ELSE Step(r, Stop(rec)) /\ UNCHANGED backlog

\* A plausible bug: the loop over the calls stops at the final one.
NextStopsAtFinal(r, rec) ==
    IF rec.fin THEN CompleteTurn(r, rec, rec.use)
    ELSE IF rec.todo # <<>> THEN Step(r, [rec EXCEPT !.pc = "tools"]) /\ UNCHANGED backlog
    ELSE IF rec.iter + 1 < MaxIterations
         THEN Step(r, [rec EXCEPT !.pc = "call", !.iter = @ + 1]) /\ UNCHANGED backlog
         ELSE Step(r, Stop(rec)) /\ UNCHANGED backlog

AfterAnswer(r, rec) == Next1(r, rec)

Answer(rec) ==
    [rec EXCEPT !.hist = Append(@, ToolAnswer(Head(rec.todo))), !.todo = Tail(@),
                !.fin = @ \/ Head(rec.todo).tool = "finish"]

RunTool(r) ==
    /\ At(r, "tools")
    /\ LET result == DispatchTool(Head(run[r].todo), dir.here) IN
       CASE result = "abort"    -> Step(r, Stop(run[r])) /\ UNCHANGED backlog
         [] result = "resolved" -> Step(r, [run[r] EXCEPT !.pc = "write"]) /\ UNCHANGED backlog
         [] result = "answer"   -> AfterAnswer(r, Answer(run[r]))
    /\ Aside /\ UNCHANGED <<dir, exits, spent, told, cut>>

\* The second half of run_write_file: create_dir_all and write.  The path
\* was resolved before; by now the directory may be gone, and comes back.
WriteFile(r) ==
    /\ At(r, "write")
    /\ \/ dir.here /\ dir' = [dir EXCEPT !.old = FALSE]
       \/ dir.here /\ UNCHANGED dir
       \/ ~dir.here /\ dir.gen < MaxDirs /\ CreateDir(FALSE, TRUE)
       \/ ~dir.here /\ dir.gen = MaxDirs /\ UNCHANGED dir
    /\ AfterAnswer(r, Answer(run[r]))
    /\ Aside /\ UNCHANGED <<exits, spent, told, cut>>

(***************************************************************************)
(* A turn of a CLI backend: run_turn of cli.rs and of opencode.rs.         *)
(***************************************************************************)
\* TurnStarted, then the spawn: it fails when the directory is gone.
SpawnChild(r) ==
    /\ At(r, "turn") /\ Room(1)
    /\ backlog' = Append(backlog, Started)
    /\ \/ /\ dir.here
          /\ Step(r, [run[r] EXCEPT !.pc = "stdin", !.use = 0])
       \/ Step(r, Stop(run[r]))
    /\ Aside /\ UNCHANGED <<dir, exits, spent, told, cut>>

Cli(r)      == run[r].agent \in {"claude_code", "codex"}
OpenCode(r) == run[r].agent = "opencode"

\* The child is told to go on with a thread only when its id is known.
Resumes(rec) == rec.thread = "real"

CliSpawn(r)      == Cli(r) /\ SpawnChild(r)
OpenCodeSpawn(r) == OpenCode(r) /\ SpawnChild(r)

\* The prompt is written outside of the turn's timeout: a child that never
\* reads keeps the attempt where it is.
WriteStdin(r) ==
    /\ At(r, "stdin") /\ ~run[r].stuck
    /\ \/ Step(r, [run[r] EXCEPT !.pc = "stream"])
       \/ Step(r, [run[r] EXCEPT !.stuck = TRUE])
       \/ Step(r, Stop(run[r]))
    /\ Quiet /\ UNCHANGED dir

CliStdin(r)      == Cli(r) /\ WriteStdin(r)
OpenCodeStdin(r) == OpenCode(r) /\ WriteStdin(r)

\* One line of output: tokens were spent, an id may be seen, and the usage,
\* where the flavor reports it, goes out as the total of the turn so far.
StreamLine(r) ==
    /\ run[r].use < MaxLines
    /\ spent' = spent + 1
    /\ IF StreamUsage(run[r].agent) = NoUsage THEN UNCHANGED backlog
       ELSE Room(1) /\ backlog' = Append(backlog, Progress(run[r].use + 1))

CliStream(r) ==
    /\ At(r, "stream") /\ Cli(r)
    /\ StreamLine(r)
    /\ \E sees \in BOOLEAN :
        Step(r, [run[r] EXCEPT !.use = @ + 1, !.named = @ \/ sees])
    /\ Aside /\ UNCHANGED <<dir, exits, told, cut>>

\* Every line of OpenCode carries the session id.
OpenCodeStream(r) ==
    /\ At(r, "stream") /\ OpenCode(r)
    /\ StreamLine(r)
    /\ Step(r, [run[r] EXCEPT !.use = @ + 1, !.named = TRUE])
    /\ Aside /\ UNCHANGED <<dir, exits, told, cut>>

\* A plausible bug: the id is taken from the terminal parser alone.
LearnThreadAtEnd(rec, parsed) == IF parsed THEN "real" ELSE rec.thread

\* The id the parser found, or the one the stream saw before.
LearnThread(rec, parsed) == IF parsed \/ rec.named THEN "real" ELSE rec.thread

FinishChild(r) ==
    /\ At(r, "stream")
    /\ \E usage \in TerminalUsage(run[r].agent, run[r].use), parsed \in BOOLEAN :
        CompleteTurn(r, [run[r] EXCEPT !.thread = LearnThread(run[r], parsed),
                                       !.named = @ \/ parsed], usage)
    /\ Aside /\ UNCHANGED <<dir, exits, spent, told, cut>>

CliFinish(r)      == Cli(r) /\ FinishChild(r)
OpenCodeFinish(r) == OpenCode(r) /\ FinishChild(r)

\* An exit code other than 0.
ChildFails(r) ==
    /\ At(r, "stream")
    /\ Step(r, Stop(run[r]))
    /\ Quiet /\ UNCHANGED dir

\* A timeout, or an error while waiting.  start_kill reaches bash; what it
\* started may run on, and the task that reads its output with it.
ChildTimesOut(r) ==
    /\ At(r, "stream")
    /\ \E survives \in BOOLEAN :
        /\ Step(r, [Stop(run[r]) EXCEPT !.orphan = survives])
        /\ cut' = (cut \/ survives)
    /\ Aside /\ UNCHANGED <<dir, backlog, exits, spent, told>>

CliFails(r)         == Cli(r) /\ ChildFails(r)
OpenCodeFails(r)    == OpenCode(r) /\ ChildFails(r)
CliTimesOut(r)      == Cli(r) /\ ChildTimesOut(r)
OpenCodeTimesOut(r) == OpenCode(r) /\ ChildTimesOut(r)

LateStream(r) ==
    /\ run[r].orphan /\ run[r].pc \in {"after_run", "over"}
    /\ StreamLine(r)
    /\ Step(r, [run[r] EXCEPT !.use = @ + 1])
    /\ Aside /\ UNCHANGED <<dir, exits, told, cut>>

OrphanEnds(r) ==
    /\ run[r].orphan /\ run[r].pc \in {"after_run", "over"}
    /\ Step(r, [run[r] EXCEPT !.orphan = FALSE])
    /\ Quiet /\ UNCHANGED dir

(***************************************************************************)
(* Between two turns, and the end of the attempt.                          *)
(***************************************************************************)
\* A plausible bug: the agent is built once, whatever the state becomes.
HandsOffNever(r, st) == FALSE

\* The next state's agent is another one: the worker ends, the next
\* dispatch builds the right one.
HandsOff(r, st) == st # run[r].st /\ cfg.agent[st] # run[r].agent

\* The refresh may fail, and an issue missing from it keeps its state.
Refresh(r) ==
    /\ At(r, "refresh")
    /\ \/ Step(r, Stop(run[r]))
       \/ \E st \in {issue, run[r].st} :
            IF st \notin ActiveStates \/ HandsOff(r, st) \/ run[r].turn >= cfg.maxTurns
            THEN Step(r, Stop(run[r]))
            ELSE Step(r, [run[r] EXCEPT !.pc = "turn", !.turn = @ + 1, !.st = st])
    /\ Quiet /\ UNCHANGED dir

\* The hook, whatever comes of it; SessionCompleted; the exit report.
AfterRun(r) ==
    /\ At(r, "after_run")
    /\ Step(r, [Idle EXCEPT !.pc = "over", !.orphan = run[r].orphan, !.use = run[r].use,
                            !.agent = IF run[r].orphan THEN run[r].agent ELSE "none"])
    /\ told' = IF run[r].started THEN told + run[r].sess ELSE told
    /\ exits' = exits \cup {r}
    /\ Aside /\ UNCHANGED <<dir, backlog, spent, cut>>

(***************************************************************************)
(* The orchestrator's side.                                                *)
(***************************************************************************)
Outside == UNCHANGED <<dir, sweep, cfg, issue, moves, restarts, run, spent, told, why>>

\* The baseline of the deltas starts over with the turn.
BaseKept(e)  == entry.base        \* a plausible bug: it does not
BaseReset(e) == IF e.kind = "started" THEN 0 ELSE entry.base

\* A plausible bug: the baseline moves at the end of the turn only.
BaseLate(e) == IF e.kind = "completed" /\ e.n # NoUsage THEN e.n ELSE BaseReset(e)

\* A plausible bug: an event without usage counts as one.
NextBaseBlind(e) == e.n

NextBase(e) == IF e.n = NoUsage THEN BaseReset(e) ELSE e.n

\* One event is attributed to whatever entry the issue has now.
ConsumeEvent ==
    /\ backlog # <<>>
    /\ LET e == Head(backlog) IN
       IF entry = NoEntry
       THEN missed' = (IF e.n = NoUsage THEN missed ELSE missed + e.n)
            /\ UNCHANGED <<entry, totals>>
       ELSE /\ totals' = IF e.n > BaseReset(e) THEN totals + (e.n - BaseReset(e)) ELSE totals
            /\ entry' = [entry EXCEPT !.base = NextBase(e)]
            /\ UNCHANGED missed
    /\ backlog' = Tail(backlog)
    /\ Outside /\ UNCHANGED <<exits, timer, cut>>

Forget == entry' = NoEntry
Orphaned == entry # NoEntry /\ run[entry.run].pc \in Live

\* on_worker_exit removes the issue's entry, whichever run made it.
ConsumeExit(r) ==
    /\ r \in exits
    /\ exits' = exits \ {r}
    /\ Forget
    /\ timer' = TRUE
    /\ cut' = (cut \/ Orphaned)
    /\ Outside /\ UNCHANGED <<backlog, totals, missed>>

\* reconcile_running_issues: no event for stall_timeout_ms.
Stall ==
    /\ sweep = "idle" /\ entry # NoEntry
    /\ Forget
    /\ timer' = TRUE
    /\ cut' = (cut \/ Orphaned)
    /\ Outside /\ UNCHANGED <<backlog, exits, totals, missed>>

\* terminate_running_issue: the issue is terminal, parked or not returned.
Terminate ==
    /\ sweep = "idle" /\ entry # NoEntry
    /\ Forget
    /\ timer' = FALSE
    /\ cut' = (cut \/ Orphaned)
    /\ sweep' = IF issue \in TerminalStates THEN "drop" ELSE "idle"
    /\ UNCHANGED <<dir, cfg, issue, moves, restarts, run, backlog, exits, counts, why>>

\* Someone moves the issue.
MoveIssue ==
    /\ moves < MaxMoves /\ moves' = moves + 1
    /\ \E st \in States \ {issue} :
        /\ issue' = st
        /\ why' = IF entry # NoEntry /\ st \in TerminalStates THEN why \cup {"ended"} ELSE why
    /\ UNCHANGED <<dir, sweep, cfg, restarts, run, entry, backlog, exits, timer, counts, cut>>

\* The removals of the poll task.
Housekeeping ==
    /\ \/ Drop
       \/ BeginSweep
       \/ FetchTerminal(issue \in TerminalStates)
       \/ RemoveListed
       \/ ReadKeys(cfg.reaping, entry # NoEntry)
       \/ Reap
       \/ Age
    /\ UNCHANGED <<cfg, issue, moves, restarts, run, entry, backlog, exits, timer,
                   counts, cut, why>>

\* Nothing but the directories outlives the process.
Restart ==
    /\ restarts < MaxRestarts /\ restarts' = restarts + 1
    /\ run' = [r \in Runs |-> IF At(r, "idle") THEN Idle ELSE [Idle EXCEPT !.pc = "gone"]]
    /\ dir' = [dir EXCEPT !.spoiled = @ \/ \E r \in Runs :
                    At(r, "after_create") /\ dir.here /\ run[r].at = dir.gen]
    /\ sweep' = "fetch"
    /\ entry' = NoEntry /\ backlog' = <<>> /\ exits' = {} /\ timer' = FALSE
    /\ totals' = 0 /\ spent' = 0 /\ told' = 0 /\ missed' = 0
    /\ cut' = FALSE /\ why' = {}
    /\ UNCHANGED <<cfg, issue, moves>>

RunnerStep(r) ==
    \/ Ensure(r) \/ AfterCreate(r) \/ BeforeRun(r) \/ BuildFor(r) \/ StartSession(r)
    \/ PromptFails(r) \/ RawBegin(r) \/ DeadlinePassed(r) \/ CallLlm(r)
    \/ RunTool(r) \/ WriteFile(r)
    \/ CliSpawn(r) \/ CliStdin(r) \/ CliFinish(r) \/ CliFails(r) \/ CliTimesOut(r)
    \/ OpenCodeSpawn(r) \/ OpenCodeStdin(r) \/ OpenCodeFinish(r)
    \/ OpenCodeFails(r) \/ OpenCodeTimesOut(r)
    \/ Refresh(r) \/ AfterRun(r)

Output(r) == CliStream(r) \/ OpenCodeStream(r) \/ LateStream(r) \/ OrphanEnds(r)

Next ==
    \/ \E r \in Runs : Dispatch(r) \/ RunnerStep(r) \/ Output(r) \/ ConsumeExit(r)
    \/ ConsumeEvent \/ Stall \/ Terminate \/ MoveIssue \/ Housekeeping \/ Restart

Spec == AttemptInit /\ [][Next]_vars

(***************************************************************************)
(* Properties.                                                             *)
(***************************************************************************)
Calls    == [id: Seq(Nat), tool: Tools, args: Arguments]
Messages == [role: {"system", "user", "assistant", "tool"}, text: BOOLEAN,
             calls: Seq(Calls), answers: Seq(Calls)]
RunRecord ==
    [pc: Live \cup Over \cup {"idle"}, st: States \cup {"none"}, agent: Agents \cup {"none"},
     at: 0..MaxDirs, turn: Nat, iter: Nat, hist: Seq(Messages), todo: Seq(Calls),
     fin: BOOLEAN, use: Nat, sess: Nat, started: BOOLEAN, thread: {"none", "pending", "real"},
     named: BOOLEAN, stuck: BOOLEAN, orphan: BOOLEAN]
Event == [kind: {"started", "progress", "completed"}, n: Nat \cup {NoUsage}]

\* Every variable keeps to its type.
AttemptTypeOK ==
    /\ WorkspacesTypeOK
    /\ cfg \in Configs /\ issue \in States
    /\ moves \in 0..MaxMoves /\ restarts \in 0..MaxRestarts
    /\ run \in [Runs -> RunRecord]
    /\ entry \in Entry
    /\ backlog \in Seq(Event) /\ exits \subseteq Runs
    /\ timer \in BOOLEAN /\ cut \in BOOLEAN /\ why \subseteq {"late", "ended"}
    /\ totals \in Nat /\ spent \in Nat /\ told \in Nat /\ missed \in Nat

\* Every request to a provider carries an answer to each call of its history,
\* in the order and in the form that provider asks for, however the turn and
\* the turns before it went (turn.rs:90-149, anthropic.rs:174, openai.rs:163,
\* google.rs:67, ollama.rs:60).
CallsAnswered ==
    \A r \in Runs : At(r, "call") =>
        CASE run[r].agent = "anthropic" -> AnsweredAtOnce(CollapseToAnthropic(run[r].hist))
          [] run[r].agent = "openai"    -> Answered(OpenAiMessages(run[r].hist))
          [] run[r].agent = "ollama"    -> Answered(OllamaMessages(run[r].hist))
          [] run[r].agent = "google"    -> Answered(GoogleContents(run[r].hist))

\* A run that works in its own directory finds the after_create hook done,
\* unless that directory's preparation was broken off, a removal tore it, a
\* late write brought it back, or the run that made it is still at the hook
\* (manager.rs:39, runner.rs:76).
SessionPrepared ==
    \A r \in Runs :
        (/\ run[r].pc \in Live \ {"ensure", "after_create"}
         /\ dir.here /\ run[r].at = dir.gen)
        => \/ dir.ready \/ dir.spoiled
           \/ \E q \in Runs \ {r} : At(q, "after_create") /\ run[q].at = dir.gen

\* The poll task takes the directory from under the issue's current run only
\* when the issue became terminal during that run, or when the run was
\* dispatched after the poll task had read what it acts on (mod.rs:725, :771).
WorkspaceKept ==
    [][ (/\ entry # NoEntry /\ run[entry.run].pc \in Live \ {"ensure"}
         /\ entry' = entry /\ sweep' # sweep /\ dir' # dir)
        => why # {} ]_vars

\* The dashboard never counts tokens that no agent consumed, while every
\* event is attributed to the run that sent it (mod.rs:507-550).
NoOvercount == ~cut => totals <= spent

\* Nothing that a session reports to the bridge is missing in the dashboard,
\* except what arrived when the issue had no entry (mod.rs:507, runner.rs:250).
DashboardCoversBridge == (~cut /\ backlog = <<>>) => totals + missed >= told

\* A turn runs with the agent of the state the run last saw (runner.rs:207).  An
\* agent is one name here; the code hands a run off when the provider or the model
\* differs, so nothing is said of two states that differ only in command or endpoint.
RightAgent ==
    \A r \in Runs : run[r].pc \in InTurn => run[r].agent = cfg.agent[run[r].st]

\* Once an id of the thread was seen, a continuation turn resumes that thread
\* and so finds the task description it refers to (cli.rs:133, :297).
ContinuationHasThread ==
    \A r \in Runs :
        (At(r, "turn") /\ run[r].turn > 1 /\ run[r].named) => Resumes(run[r])

Protocol == INSTANCE RunProtocol
    WITH Issues   <- {"issue"},
         holder   <- [i \in {"issue"} |-> {entry.run} \ {NoRun}],
         live     <- [i \in {"issue"} |-> {r \in Runs : run[r].pc \in Live}],
         reported <- [i \in {"issue"} |-> exits]

\* The attempts of an issue and what this module says of the orchestrator keep the
\* protocol that Scheduler implements: a run reports when its task ends and only
\* once, and a successor starts only where no entry is left (mod.rs run_worker).
KeepsProtocol == Protocol!Spec
===============================================================================
