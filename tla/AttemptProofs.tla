----------------------------- MODULE AttemptProofs -----------------------------
(***************************************************************************)
(* Attempt, for every number of runs, every configuration and every bound: *)
(* its types, the agent of a turn, the thread of a continuation, the       *)
(* preparation of a workspace, what the poll task removes, what the        *)
(* dashboard counts, and what the requests to a provider answer.           *)
(***************************************************************************)
EXTENDS Attempt, BackendsProofs

-----------------------------------------------------------------------------
(* What the poll task removes.                                             *)

\* The issue became terminal, or the removals decided, before there was an
\* entry or with a reason on record.
Warned ==
    /\ entry # NoEntry /\ issue \in TerminalStates => why # {}
    /\ entry # NoEntry /\ sweep \in {"drop", "listed", "loose"} => why # {}

\* A runner and its output are aside of all this.
LEMMA RunnerAside ==
    ASSUME NEW r \in Runs, RunnerStep(r) \/ Output(r)
    PROVE  UNCHANGED <<sweep, cfg, issue, moves, restarts, entry, timer, totals, missed, why>>
  BY DEF RunnerStep, Output, Ensure, AfterCreate, BeforeRun, BuildFor, StartSession,
         PromptFails, RawBegin, DeadlinePassed, CallLlm, RunTool, WriteFile, CliSpawn,
         CliStdin, CliFinish, CliFails, CliTimesOut, OpenCodeSpawn, OpenCodeStdin,
         OpenCodeFinish, OpenCodeFails, OpenCodeTimesOut, SpawnChild, WriteStdin,
         FinishChild, ChildFails, ChildTimesOut, Refresh, AfterRun, CliStream,
         OpenCodeStream, LateStream, OrphanEnds, Quiet, Aside

\* The removals read the entry and the issue, and write neither.
LEMMA HousekeepingWarned == Warned /\ Housekeeping => Warned'
  <1> SUFFICES ASSUME Warned, Housekeeping PROVE Warned'
    OBVIOUS
  <1>1. UNCHANGED <<entry, issue, why>>
    BY DEF Housekeeping
  <1>2. entry # NoEntry /\ sweep' \in {"drop", "listed", "loose"} =>
           \/ issue \in TerminalStates
           \/ sweep \in {"drop", "listed", "loose"}
    BY DEF Housekeeping, Drop, BeginSweep, FetchTerminal, RemoveListed, ReadKeys, Reap, Age
  <1> QED
    BY <1>1, <1>2 DEF Warned

LEMMA NextWarned == Warned /\ [Next]_vars => Warned'
  <1> SUFFICES ASSUME Warned, [Next]_vars PROVE Warned'
    OBVIOUS
  <1>1. ASSUME NEW r \in Runs, Dispatch(r) PROVE Warned'
    BY <1>1, AttemptConfigs DEF Dispatch, Warned
  <1>2. ASSUME NEW r \in Runs, RunnerStep(r) \/ Output(r) PROVE Warned'
    BY <1>2, RunnerAside DEF Warned
  <1>3. ASSUME NEW r \in Runs, ConsumeExit(r) PROVE Warned'
    BY <1>3 DEF ConsumeExit, Forget, Warned
  <1>4. CASE ConsumeEvent
    <2>1. UNCHANGED <<issue, sweep, why>> /\ (entry' # NoEntry => entry # NoEntry)
      BY <1>4 DEF ConsumeEvent, Outside
    <2> QED
      BY <2>1 DEF Warned
  <1>5. CASE Stall \/ Terminate \/ Restart
    BY <1>5 DEF Stall, Terminate, Restart, Forget, Warned
  <1>6. CASE MoveIssue
    BY <1>6 DEF MoveIssue, Warned
  <1>7. CASE UNCHANGED vars
    BY <1>7 DEF vars, Warned
  <1> QED
    BY <1>1, <1>2, <1>3, <1>4, <1>5, <1>6, <1>7, HousekeepingWarned DEF Next

\* A removal that takes something under a kept entry has its reason.
LEMMA RemovalWarned ==
    ASSUME Warned, [Next]_vars, entry # NoEntry, entry' = entry, sweep' # sweep, dir' # dir
    PROVE  why # {}
  <1>1. Housekeeping
    <2>1. \A r \in Runs : ~(RunnerStep(r) \/ Output(r))
      BY RunnerAside
    <2> QED
      BY <2>1 DEF Next, vars, Dispatch, ConsumeExit, ConsumeEvent, Stall, Terminate, MoveIssue,
                  Restart, Outside, Forget
  <1>2. sweep \in {"drop", "listed", "loose"}
    BY <1>1 DEF Housekeeping, Drop, BeginSweep, FetchTerminal, RemoveListed, ReadKeys, Reap,
                Age, SelectStale
  <1> QED
    BY <1>2 DEF Warned

\* The poll task takes the directory from under the issue's current run only
\* when the issue became terminal during that run, or the run was dispatched
\* behind the poll task's back (mod.rs:725, :771).
THEOREM WorkspacesKept == Spec => WorkspaceKept
  <1>1. AttemptInit => Warned
    BY DEF AttemptInit, Warned
  <1>2. Warned /\ [Next]_vars =>
          [(/\ entry # NoEntry /\ run[entry.run].pc \in Live \ {"ensure"}
            /\ entry' = entry /\ sweep' # sweep /\ dir' # dir)
           => why # {}]_vars
    BY RemovalWarned
  <1> QED
    BY <1>1, <1>2, NextWarned, PTL DEF Spec, WorkspaceKept

-----------------------------------------------------------------------------
(* Types, and what an attempt's own record says about it.                  *)

\* The attempt has the agent of the state it last saw, of the kind its turn
\* needs; tools are run for calls that wait; and but for the time in which a
\* child prints, an id that was seen is the thread's.
Fit(rec) ==
    /\ rec.pc \in Preparing \cup InTurn => rec.st \in ActiveStates
    /\ rec.pc \in InTurn \cup {"start"} => rec.agent = cfg.agent[rec.st]
    /\ rec.pc \in {"call", "tools", "write"} => rec.agent \in RawProviders
    /\ rec.pc \in {"stdin", "stream"} => rec.agent \in CliProviders
    /\ rec.pc \in {"turn", "refresh"} => rec.agent \in RawProviders \cup CliProviders
    /\ rec.pc \in {"tools", "write"} => rec.todo # <<>>
    /\ rec.pc \in Preparing => ~rec.named
    /\ rec.pc \in InTurn \ {"stream"} => (rec.named => rec.thread = "real")

Fitting == \A r \in Runs : Fit(run[r])

\* Attempt r takes a step to a record that fits, and the others none.
Fits(r) == \E rec \in RunRecord : Step(r, rec) /\ Fit(rec)

\* Everything but the attempts.
RestOK ==
    /\ WorkspacesTypeOK
    /\ cfg \in Configs /\ issue \in States
    /\ moves \in 0..MaxMoves /\ restarts \in 0..MaxRestarts
    /\ entry \in Entry
    /\ backlog \in Seq(Event) /\ exits \subseteq Runs
    /\ timer \in BOOLEAN /\ cut \in BOOLEAN /\ why \subseteq {"late", "ended"}
    /\ totals \in Nat /\ spent \in Nat /\ told \in Nat /\ missed \in Nat

\* An attempt that is not in a turn and not on its way to one.
LEMMA IdleType ==
    ASSUME NEW pc \in {"idle", "over", "gone"}
    PROVE  /\ [Idle EXCEPT !.pc = pc] \in RunRecord
           /\ Fit([Idle EXCEPT !.pc = pc])
  <1>1. Idle \in RunRecord
    BY AttemptBounds DEF Idle, RunRecord
  <1>2. [Idle EXCEPT !.pc = pc].pc = pc
    BY DEF Idle
  <1>3. [Idle EXCEPT !.pc = pc] \in RunRecord
    BY <1>1 DEF RunRecord, Over
  <1> QED
    BY <1>2, <1>3 DEF Fit, Preparing, InTurn

\* The end of the turns.
LEMMA StopType ==
    ASSUME NEW rec \in RunRecord
    PROVE  Stop(rec) \in RunRecord /\ Fit(Stop(rec)) /\ Stop(rec).pc = "after_run"
  <1>1. Stop(rec) \in RunRecord
    <2>1. <<>> \in Seq(Messages) /\ <<>> \in Seq(Calls) /\ 0 \in Nat
      OBVIOUS
    <2>2. "after_run" \in Live
      BY DEF Live, InSession
    <2> QED
      BY <2>1, <2>2 DEF Stop, RunRecord
  <1>2. Stop(rec).pc = "after_run"
    BY DEF Stop, RunRecord
  <1> QED
    BY <1>1, <1>2 DEF Fit, Preparing, InTurn

\* One attempt steps.
LEMMA FitsType ==
    ASSUME run \in [Runs -> RunRecord], Fitting, NEW r \in Runs, Fits(r), cfg' = cfg
    PROVE  run' \in [Runs -> RunRecord] /\ Fitting'
  <1>1. PICK rec \in RunRecord : run' = [run EXCEPT ![r] = rec] /\ Fit(rec)
    BY DEF Fits, Step
  <1>2. run' \in [Runs -> RunRecord]
    BY <1>1
  <1>3. \A q \in Runs : run'[q] = IF q = r THEN rec ELSE run[q]
    BY <1>1
  <1>4. ASSUME NEW q \in Runs PROVE Fit(run[q])'
    <2>1. Fit(run'[q])
      BY <1>1, <1>3 DEF Fitting
    <2> QED
      BY <2>1 DEF Fit
  <1> QED
    BY <1>2, <1>4 DEF Fitting

LEMMA StopFits ==
    ASSUME NEW r, NEW rec \in RunRecord, Step(r, Stop(rec))
    PROVE  Fits(r)
  BY StopType DEF Fits

LEMMA LeaveFits ==
    ASSUME NEW r \in Runs, exits \subseteq Runs, Leave(r)
    PROVE  Fits(r) /\ exits' \subseteq Runs
  BY IdleType DEF Leave, Fits

\* The events of an attempt.
LEMMA EventType ==
    ASSUME NEW n \in Nat \cup {NoUsage}
    PROVE  Started \in Event /\ Progress(n) \in Event /\ Completed(n) \in Event
  BY DEF Started, Progress, Completed, Event, NoUsage

\* The configuration of an attempt.
LEMMA ConfigType ==
    ASSUME cfg \in Configs
    PROVE  /\ cfg.replies \subseteq Responses /\ cfg.missing \subseteq Missing
           /\ \A s \in ActiveStates : cfg.agent[s] \in Agents
  BY AttemptConfigs DEF Config

Sound == RestOK /\ run \in [Runs -> RunRecord] /\ Fitting

\* What a step of an attempt leaves to check.
LEMMA AsideRest ==
    ASSUME RestOK, Aside, WorkspacesTypeOK', backlog' \in Seq(Event), exits' \subseteq Runs,
           spent' \in Nat, told' \in Nat, cut' \in BOOLEAN
    PROVE  RestOK'
  BY DEF RestOK, Aside

LEMMA SameDir ==
    ASSUME WorkspacesTypeOK, UNCHANGED <<dir, sweep>>
    PROVE  WorkspacesTypeOK'
  BY DEF WorkspacesTypeOK

LEMMA QuietRest ==
    ASSUME RestOK, Quiet, UNCHANGED dir
    PROVE  RestOK'
  BY SameDir, AsideRest DEF RestOK, Quiet, Aside

LEMMA RecordOf ==
    ASSUME Sound, NEW r \in Runs
    PROVE  run[r] \in RunRecord /\ Fit(run[r])
  BY DEF Sound, Fitting

\* A new directory.
LEMMA CreateDirType ==
    ASSUME WorkspacesTypeOK, dir.gen < MaxDirs, sweep' = sweep,
           NEW ready \in BOOLEAN, NEW spoiled \in BOOLEAN, CreateDir(ready, spoiled)
    PROVE  WorkspacesTypeOK'
  BY AttemptBounds DEF WorkspacesTypeOK, CreateDir, Dir

\* On the way to a session.
LEMMA PrepareSound ==
    ASSUME Sound, NEW r \in Runs,
           Ensure(r) \/ AfterCreate(r) \/ BeforeRun(r) \/ BuildFor(r) \/ StartSession(r)
    PROVE  Fits(r) /\ RestOK'
  <1>1. /\ run[r] \in RunRecord /\ Fit(run[r]) /\ RestOK /\ WorkspacesTypeOK
        /\ exits \subseteq Runs
    BY RecordOf DEF Sound, RestOK
  <1>2. ASSUME Aside, UNCHANGED <<backlog, spent, told, cut>>, exits' \subseteq Runs,
               WorkspacesTypeOK'
        PROVE  RestOK'
    BY <1>1, <1>2, AsideRest DEF RestOK
  <1>3. ASSUME Leave(r), Aside, UNCHANGED <<dir, backlog, spent, told, cut>>
        PROVE  Fits(r) /\ RestOK'
    BY <1>1, <1>2, <1>3, LeaveFits, SameDir DEF Aside
  <1>4. ASSUME NEW pc \in {"after_create", "before_run", "build"}, NEW n \in 0..MaxDirs,
               At(r, "ensure") \/ At(r, "after_create") \/ At(r, "before_run"),
               Step(r, [run[r] EXCEPT !.at = n, !.pc = pc])
        PROVE  Fits(r)
    <2> DEFINE rec == [run[r] EXCEPT !.at = n, !.pc = pc]
    <2>1. rec \in RunRecord /\ rec.pc = pc /\ rec.st = run[r].st /\ rec.named = run[r].named
      BY <1>1 DEF RunRecord, Live, Preparing
    <2>2. Fit(rec)
      BY <1>1, <1>4, <2>1 DEF Fit, At, Preparing, InTurn
    <2> QED
      BY <1>4, <2>1, <2>2 DEF Fits
  <1>5. ASSUME NEW pc, Step(r, [run[r] EXCEPT !.pc = pc])
        PROVE  Step(r, [run[r] EXCEPT !.at = run[r].at, !.pc = pc])
    <2>1. [run[r] EXCEPT !.at = run[r].at, !.pc = pc] = [run[r] EXCEPT !.pc = pc]
      BY <1>1 DEF RunRecord
    <2> QED
      BY <1>5, <2>1
  <1>6. CASE Ensure(r)
    <2>1. Aside /\ UNCHANGED <<backlog, spent, told, cut>>
      BY <1>6 DEF Ensure
    <2>2. CASE Leave(r) /\ UNCHANGED dir
      BY <1>3, <2>1, <2>2
    <2>3. CASE /\ dir.here \/ dir.gen < MaxDirs
               /\ EnsureForIssue("after_create" \in cfg.hooks)
               /\ Step(r, [run[r] EXCEPT
                     !.at = dir'.gen,
                     !.pc = IF CreatedNow /\ "after_create" \in cfg.hooks
                            THEN "after_create" ELSE "before_run"])
               /\ UNCHANGED exits
      <3>1. WorkspacesTypeOK'
        <4>1. CASE dir.here
          BY <1>1, <2>1, <2>3, <4>1, SameDir DEF EnsureForIssue, Aside
        <4>2. CASE ~dir.here
          <5>1. dir.gen < MaxDirs /\ CreateDir(~("after_create" \in cfg.hooks), FALSE)
            BY <2>3, <4>2 DEF EnsureForIssue
          <5>2. PICK ready \in BOOLEAN : ready = ~("after_create" \in cfg.hooks)
            OBVIOUS
          <5>3. CreateDir(ready, FALSE)
            BY <5>1, <5>2 DEF CreateDir
          <5> QED
            BY <1>1, <2>1, <5>1, <5>3, CreateDirType DEF Aside
        <4> QED
          BY <4>1, <4>2
      <3>2. dir'.gen \in 0..MaxDirs
        BY <3>1 DEF WorkspacesTypeOK, Dir
      <3>3. PICK n \in 0..MaxDirs, pc \in {"after_create", "before_run"} :
               /\ n = dir'.gen
               /\ pc = IF CreatedNow /\ "after_create" \in cfg.hooks
                       THEN "after_create" ELSE "before_run"
        BY <3>2
      <3>4. Fits(r)
        BY <1>4, <1>6, <2>3, <3>3 DEF Ensure
      <3> QED
        BY <1>1, <1>2, <2>1, <2>3, <3>1, <3>4
    <2> QED
      BY <1>6, <2>2, <2>3 DEF Ensure
  <1>7. CASE AfterCreate(r)
    <2>1. Aside /\ UNCHANGED <<backlog, spent, told, cut>> /\ At(r, "after_create")
      BY <1>7 DEF AfterCreate
    <2>2. WorkspacesTypeOK'
      BY <1>1, <1>7, <2>1 DEF AfterCreate, WorkspacesTypeOK, Dir, Aside
    <2>3. Leave(r) \/ (Step(r, [run[r] EXCEPT !.pc = "before_run"]) /\ UNCHANGED exits)
      BY <1>7 DEF AfterCreate
    <2>4. run[r].at \in 0..MaxDirs
      BY <1>1 DEF RunRecord
    <2> QED
      BY <1>1, <1>2, <1>4, <1>5, <2>1, <2>2, <2>3, <2>4, LeaveFits
  <1>8. CASE BeforeRun(r)
    <2>1. /\ Aside /\ UNCHANGED <<dir, backlog, spent, told, cut>> /\ At(r, "before_run")
          /\ run[r].at \in 0..MaxDirs
      BY <1>1, <1>8 DEF BeforeRun, RunRecord
    <2>2. Leave(r) \/ (Step(r, [run[r] EXCEPT !.pc = "build"]) /\ UNCHANGED exits)
      BY <1>8 DEF BeforeRun
    <2>3. WorkspacesTypeOK'
      BY <1>1, <2>1, SameDir DEF Aside
    <2> QED
      BY <1>1, <1>2, <1>3, <1>4, <1>5, <2>1, <2>2, <2>3
  <1>9. CASE BuildFor(r)
    <2> DEFINE agent == cfg.agent[run[r].st]
               rec   == [run[r] EXCEPT !.pc = "start", !.agent = agent]
    <2>1. Aside /\ UNCHANGED <<dir, backlog, spent, told, cut>> /\ At(r, "build")
      BY <1>9 DEF BuildFor
    <2>2. run[r].st \in ActiveStates /\ ~run[r].named
      BY <1>1, <2>1 DEF Fit, At, Preparing
    <2>3. agent \in Agents
      BY <1>1, <2>2, ConfigType DEF RestOK
    <2>4. Leave(r) \/ (Step(r, rec) /\ UNCHANGED exits)
      BY <1>9 DEF BuildFor
    <2>5. rec \in RunRecord /\ rec.pc = "start" /\ rec.agent = agent /\ rec.st = run[r].st
          /\ rec.named = run[r].named
      BY <1>1, <2>3 DEF RunRecord, Live, Preparing
    <2>6. Fit(rec)
      BY <2>2, <2>5 DEF Fit, Preparing, InTurn
    <2>7. WorkspacesTypeOK'
      BY <1>1, <2>1, SameDir DEF Aside
    <2> HIDE DEF rec
    <2> QED
      BY <1>1, <1>2, <1>3, <2>1, <2>4, <2>5, <2>6, <2>7 DEF Fits
  <1>10. CASE StartSession(r)
    <2>1. Quiet /\ UNCHANGED dir /\ At(r, "start")
      BY <1>10 DEF StartSession
    <2>2. run[r].st \in ActiveStates /\ run[r].agent = cfg.agent[run[r].st] /\ ~run[r].named
      BY <1>1, <2>1 DEF Fit, At, Preparing
    <2>3. run[r].agent \in Agents
      BY <1>1, <2>2, ConfigType DEF RestOK
    <2> DEFINE opened == [run[r] EXCEPT !.pc = "turn", !.turn = 1, !.started = TRUE]
    <2>4. /\ opened \in RunRecord /\ opened.pc = "turn" /\ opened.agent = run[r].agent
          /\ opened.st = run[r].st /\ opened.named = run[r].named
      BY <1>1 DEF RunRecord, Live, InSession, InTurn
    <2>5. \/ run[r].agent \in RawProviders /\ Step(r, StartRaw(opened))
          \/ run[r].agent \in CliProviders /\ Step(r, StartCli(opened))
          \/ Step(r, Stop(run[r]))
      BY <1>10, <2>3 DEF StartSession, StartStub, Agents, RawProviders, CliProviders
    <2> HIDE DEF opened
    <2>6. ASSUME run[r].agent \in RawProviders, Step(r, StartRaw(opened)) PROVE Fits(r)
      <3> DEFINE rec == StartRaw(opened)
      <3>1. <<System>> \in Seq(Messages)
        BY DEF System, Message, Messages
      <3>2. /\ rec \in RunRecord /\ rec.pc = "turn" /\ rec.agent = run[r].agent
            /\ rec.st = run[r].st /\ rec.named = run[r].named
        BY <2>4, <3>1 DEF StartRaw, RunRecord
      <3>3. Fit(rec)
        BY <2>2, <2>6, <3>2 DEF Fit, Preparing, InTurn
      <3> QED
        BY <2>6, <3>2, <3>3 DEF Fits
    <2>7. ASSUME run[r].agent \in CliProviders, Step(r, StartCli(opened)) PROVE Fits(r)
      <3> DEFINE rec == StartCli(opened)
      <3>1. /\ rec \in RunRecord /\ rec.pc = "turn" /\ rec.agent = run[r].agent
            /\ rec.st = run[r].st /\ rec.named = run[r].named
        BY <2>4 DEF StartCli, RunRecord
      <3>2. Fit(rec)
        BY <2>2, <2>7, <3>1 DEF Fit, Preparing, InTurn
      <3> QED
        BY <2>7, <3>1, <3>2 DEF Fits
    <2> QED
      BY <1>1, <2>1, <2>5, <2>6, <2>7, StopFits, QuietRest
  <1> QED
    BY <1>6, <1>7, <1>8, <1>9, <1>10

\* An attempt in a turn of a raw provider, between two calls of the endpoint.
Chatting(rec) ==
    /\ rec \in RunRecord
    /\ rec.st \in ActiveStates /\ rec.agent = cfg.agent[rec.st]
    /\ rec.named => rec.thread = "real"

LEMMA ChattingOf ==
    ASSUME Sound, NEW r \in Runs, run[r].pc \in InTurn \ {"stream"}
    PROVE  Chatting(run[r])
  BY RecordOf DEF Chatting, Fit

\* The end of a turn, of whichever backend.
LEMMA CompleteFits ==
    ASSUME Sound, NEW r \in Runs, NEW rec, Chatting(rec),
           rec.agent \in RawProviders \cup CliProviders,
           NEW usage \in Nat \cup {NoUsage}, CompleteTurn(r, rec, usage)
    PROVE  Fits(r) /\ backlog' \in Seq(Event)
  <1> DEFINE more == IF usage = NoUsage THEN 0 ELSE usage
             new  == [rec EXCEPT !.pc = "refresh", !.todo = <<>>, !.use = 0,
                                 !.sess = @ + more]
  <1>1. more \in Nat
    BY DEF NoUsage
  <1> HIDE DEF more
  <1>2. rec.sess + more \in Nat /\ <<>> \in Seq(Calls) /\ "refresh" \in Live
    BY <1>1 DEF Chatting, RunRecord, Live, InSession, InTurn
  <1>3. /\ new \in RunRecord /\ new.pc = "refresh" /\ new.st = rec.st
        /\ new.agent = rec.agent /\ new.named = rec.named /\ new.thread = rec.thread
    BY <1>2 DEF Chatting, RunRecord
  <1>4. Fit(new)
    BY <1>3 DEF Fit, Chatting, Preparing, InTurn
  <1>5. Step(r, new)
    BY DEF CompleteTurn, more
  <1>6. backlog' = Append(backlog, Completed(usage)) /\ Completed(usage) \in Event
    BY EventType DEF CompleteTurn
  <1> HIDE DEF new
  <1> QED
    BY <1>3, <1>4, <1>5, <1>6 DEF Fits, Sound, RestOK

\* The next call, the end of the turn, or the next iteration.
LEMMA NextFits ==
    ASSUME Sound, NEW r \in Runs, NEW rec, Chatting(rec), rec.agent \in RawProviders,
           AfterAnswer(r, rec)
    PROVE  Fits(r) /\ backlog' \in Seq(Event)
  <1>1. /\ rec \in RunRecord /\ rec.use \in Nat /\ rec.iter + 1 \in Nat
        /\ backlog \in Seq(Event)
    BY DEF Chatting, RunRecord, Sound, RestOK
  <1>2. ASSUME rec.todo # <<>>, Step(r, [rec EXCEPT !.pc = "tools"]) PROVE Fits(r)
    <2> DEFINE new == [rec EXCEPT !.pc = "tools"]
    <2>1. /\ new \in RunRecord /\ new.pc = "tools" /\ new.st = rec.st /\ new.todo = rec.todo
          /\ new.agent = rec.agent /\ new.named = rec.named /\ new.thread = rec.thread
      BY <1>1 DEF RunRecord, Live, InSession, InTurn
    <2>2. Fit(new)
      BY <1>2, <2>1 DEF Fit, Chatting, Preparing, InTurn
    <2> QED
      BY <1>2, <2>1, <2>2 DEF Fits
  <1>3. ASSUME Step(r, [rec EXCEPT !.pc = "call", !.iter = @ + 1]) PROVE Fits(r)
    <2> DEFINE new == [rec EXCEPT !.pc = "call", !.iter = @ + 1]
    <2>1. /\ new \in RunRecord /\ new.pc = "call" /\ new.st = rec.st
          /\ new.agent = rec.agent /\ new.named = rec.named /\ new.thread = rec.thread
      BY <1>1 DEF RunRecord, Live, InSession, InTurn
    <2>2. Fit(new)
      BY <2>1 DEF Fit, Chatting, Preparing, InTurn
    <2> QED
      BY <1>3, <2>1, <2>2 DEF Fits
  <1>4. \/ rec.todo # <<>> /\ Step(r, [rec EXCEPT !.pc = "tools"]) /\ UNCHANGED backlog
        \/ CompleteTurn(r, rec, rec.use)
        \/ Step(r, [rec EXCEPT !.pc = "call", !.iter = @ + 1]) /\ UNCHANGED backlog
        \/ Step(r, Stop(rec)) /\ UNCHANGED backlog
    BY DEF AfterAnswer, Next1
  <1> QED
    BY <1>1, <1>2, <1>3, <1>4, CompleteFits, StopFits

\* An answered call.
LEMMA AnswerChats ==
    ASSUME NEW rec, Chatting(rec), rec.todo # <<>>
    PROVE  Chatting(Answer(rec)) /\ Answer(rec).agent = rec.agent
  <1>1. /\ rec \in RunRecord /\ rec.todo \in Seq(Calls) /\ rec.hist \in Seq(Messages)
        /\ rec.fin \in BOOLEAN
    BY DEF Chatting, RunRecord
  <1>2. Head(rec.todo) \in Calls /\ Tail(rec.todo) \in Seq(Calls)
    BY <1>1
  <1>3. ToolAnswer(Head(rec.todo)) \in Messages
    BY <1>2 DEF ToolAnswer, Message, Messages
  <1>4. Append(rec.hist, ToolAnswer(Head(rec.todo))) \in Seq(Messages)
    BY <1>1, <1>3
  <1>5. PICK fin \in BOOLEAN : fin = (rec.fin \/ Head(rec.todo).tool = "finish")
    OBVIOUS
  <1>6. Answer(rec) = [rec EXCEPT !.hist = Append(rec.hist, ToolAnswer(Head(rec.todo))),
                                  !.todo = Tail(rec.todo), !.fin = fin]
    BY <1>1, <1>5 DEF Answer, RunRecord
  <1>7. /\ Answer(rec) \in RunRecord /\ Answer(rec).agent = rec.agent
        /\ Answer(rec).st = rec.st /\ Answer(rec).named = rec.named
        /\ Answer(rec).thread = rec.thread
    BY <1>1, <1>2, <1>4, <1>6 DEF RunRecord
  <1> QED
    BY <1>7 DEF Chatting

\* A response becomes an error or a message with calls.
LEMMA ParseType ==
    ASSUME NEW provider \in RawProviders, NEW resp \in Responses,
           Parse(provider, resp) # Failure
    PROVE  /\ Parse(provider, resp).text \in BOOLEAN
           /\ Parse(provider, resp).calls \in Seq([tool: Tools, args: Arguments])
           /\ Parse(provider, resp).tokens \in Nat
  <1> DEFINE Made == [tool: Tools, args: Arguments]
  <1>1. resp.text \in BOOLEAN /\ resp.metered \in BOOLEAN /\ resp.calls \in Seq(Made)
    BY AttemptResponses
  <1> HIDE DEF Made
  <1>0. \A k \in DOMAIN resp.calls : resp.calls[k] \in Made
    BY <1>1
  <1> DEFINE fixed == [k \in DOMAIN resp.calls |->
                         IF resp.calls[k].args = "garbled"
                         THEN [resp.calls[k] EXCEPT !.args = "missing"] ELSE resp.calls[k]]
  <1>2. fixed \in Seq(Made)
    <2>1. DOMAIN resp.calls = 1..Len(resp.calls) /\ Len(resp.calls) \in Nat
      BY <1>1
    <2>2. ASSUME NEW k \in DOMAIN resp.calls PROVE fixed[k] \in Made
      <3>1. resp.calls[k] \in Made
        BY <1>0, <2>2
      <3>2. [resp.calls[k] EXCEPT !.args = "missing"] \in Made
        BY <3>1 DEF Made, Arguments
      <3> QED
        BY <2>2, <3>1, <3>2
    <2>3. fixed \in [1..Len(resp.calls) -> Made]
      BY <2>1, <2>2
    <2> HIDE DEF fixed
    <2> QED
      BY <2>1, <2>3, SeqDef
  <1> HIDE DEF fixed
  <1>3. ASSUME NEW calls \in Seq(Made)
        PROVE  /\ Parsed(resp, calls).text \in BOOLEAN
               /\ Parsed(resp, calls).calls \in Seq(Made)
               /\ Parsed(resp, calls).tokens \in Nat
    <2>1. <<>> \in Seq(Made)
      OBVIOUS
    <2>2. (resp.text /\ resp.body = "full") \in BOOLEAN
      OBVIOUS
    <2>3. Parsed(resp, calls).text \in BOOLEAN
      BY <2>2, Zenon DEF Parsed
    <2> QED
      BY <2>1, <2>3 DEF Parsed
  <1>4. \/ Parse(provider, resp) = Parsed(resp, resp.calls)
        \/ Parse(provider, resp) = Parsed(resp, fixed)
    BY DEF RawProviders, Parse, ParseAnthropic, ParseOpenAi, ParseGoogle, ParseOllama, fixed
  <1> QED
    BY <1>1, <1>2, <1>3, <1>4 DEF Made

\* A turn of a raw provider.
LEMMA RawSound ==
    ASSUME Sound, NEW r \in Runs,
           \/ PromptFails(r) \/ RawBegin(r) \/ DeadlinePassed(r) \/ CallLlm(r)
           \/ RunTool(r) \/ WriteFile(r)
    PROVE  Fits(r) /\ RestOK'
  <1>1. /\ run[r] \in RunRecord /\ Fit(run[r]) /\ RestOK /\ WorkspacesTypeOK
        /\ exits \subseteq Runs /\ backlog \in Seq(Event) /\ spent \in Nat
        /\ told \in Nat /\ cut \in BOOLEAN
    BY RecordOf DEF Sound, RestOK
  <1>2. CASE PromptFails(r) \/ DeadlinePassed(r)
    BY <1>1, <1>2, StopFits, QuietRest DEF PromptFails, DeadlinePassed
  <1>3. CASE RawBegin(r)
    <2> DEFINE new == [run[r] EXCEPT !.pc = "call", !.hist = Append(@, Prompt),
                                     !.iter = 0, !.use = 0]
    <2>1. /\ At(r, "turn") /\ Raw(r) /\ Step(r, new) /\ backlog' = Append(backlog, Started)
          /\ Aside /\ UNCHANGED <<dir, exits, spent, told, cut>>
      BY <1>3 DEF RawBegin
    <2>2. Chatting(run[r])
      BY <2>1, ChattingOf DEF At, InTurn
    <2>3. Prompt \in Messages
      BY DEF Prompt, Message, Messages
    <2>4. Append(run[r].hist, Prompt) \in Seq(Messages)
      BY <1>1, <2>3 DEF RunRecord
    <2>5. /\ new \in RunRecord /\ new.pc = "call" /\ new.st = run[r].st
          /\ new.agent = run[r].agent /\ new.named = run[r].named
          /\ new.thread = run[r].thread
      BY <1>1, <2>4 DEF RunRecord, Live, InSession, InTurn
    <2>6. Fit(new)
      BY <2>1, <2>2, <2>5 DEF Fit, Chatting, Raw, Preparing, InTurn
    <2>7. Started \in Event
      BY EventType
    <2>8. backlog' \in Seq(Event)
      BY <1>1, <2>1, <2>7
    <2>9. WorkspacesTypeOK'
      BY <1>1, <2>1, SameDir DEF Aside
    <2>10. RestOK'
      BY <1>1, <2>1, <2>8, <2>9, AsideRest
    <2> HIDE DEF new
    <2> QED
      BY <2>1, <2>5, <2>6, <2>10 DEF Fits
  <1>4. CASE CallLlm(r)
    <2>1. PICK resp \in cfg.replies :
            LET reply == Parse(run[r].agent, resp)
                n     == Len(run[r].hist)
                calls == [k \in DOMAIN reply.calls |->
                            [id |-> <<n, k>>, tool |-> reply.calls[k].tool,
                                              args |-> reply.calls[k].args]]
                rec   == [run[r] EXCEPT
                            !.hist = Append(@, Assistant([text |-> reply.text, calls |-> calls])),
                            !.use = @ + reply.tokens, !.todo = calls, !.fin = FALSE]
            IN  \/ /\ reply = Failure
                   /\ Step(r, Stop(run[r]))
                   /\ UNCHANGED <<backlog, spent>>
                \/ /\ reply # Failure
                   /\ spent' = spent + reply.tokens
                   /\ IF calls = <<>> THEN CompleteTurn(r, rec, rec.use)
                      ELSE Step(r, [rec EXCEPT !.pc = "tools"]) /\ UNCHANGED backlog
      BY <1>4 DEF CallLlm
    <2> DEFINE reply == Parse(run[r].agent, resp)
               n     == Len(run[r].hist)
               calls == [k \in DOMAIN reply.calls |->
                           [id |-> <<n, k>>, tool |-> reply.calls[k].tool,
                                             args |-> reply.calls[k].args]]
               mess  == Assistant([text |-> reply.text, calls |-> calls])
               rec   == [run[r] EXCEPT !.hist = Append(@, mess), !.use = @ + reply.tokens,
                                       !.todo = calls, !.fin = FALSE]
    <2>2. At(r, "call") /\ Aside /\ UNCHANGED <<dir, exits, told, cut>>
      BY <1>4 DEF CallLlm
    <2>3. Chatting(run[r]) /\ run[r].agent \in RawProviders
      BY <1>1, <2>2, ChattingOf DEF At, InTurn, Fit
    <2>4. WorkspacesTypeOK'
      BY <1>1, <2>2, SameDir DEF Aside
    <2>5. ASSUME backlog' \in Seq(Event), spent' \in Nat PROVE RestOK'
      BY <1>1, <2>2, <2>4, <2>5, AsideRest
    <2>6. CASE reply = Failure
      BY <1>1, <2>1, <2>5, <2>6, StopFits
    <2>7. CASE reply # Failure
      <3>1. /\ spent' = spent + reply.tokens
            /\ IF calls = <<>> THEN CompleteTurn(r, rec, rec.use)
               ELSE Step(r, [rec EXCEPT !.pc = "tools"]) /\ UNCHANGED backlog
        BY <2>1, <2>7
      <3>2. resp \in Responses
        BY <1>1, <2>1, ConfigType DEF RestOK
      <3> DEFINE Made == [tool: Tools, args: Arguments]
      <3>3. reply.text \in BOOLEAN /\ reply.calls \in Seq(Made) /\ reply.tokens \in Nat
        BY <2>3, <2>7, <3>2, ParseType
      <3>4. calls \in Seq(Calls)
        <4> PICK said : said = reply.calls
          OBVIOUS
        <4> HIDE DEF Made, reply
        <4>1. DOMAIN said = 1..Len(said) /\ Len(said) \in Nat
          BY <3>3
        <4>2. \A k \in DOMAIN said : said[k] \in Made /\ k \in Nat
          BY <3>3, <4>1
        <4>3. n \in Nat
          BY <1>1 DEF RunRecord
        <4> HIDE DEF n
        <4>4. ASSUME NEW k \in DOMAIN said
              PROVE  [id |-> <<n, k>>, tool |-> said[k].tool, args |-> said[k].args] \in Calls
          <5>1. <<n, k>> \in Seq(Nat)
            BY <4>2, <4>3
          <5> QED
            BY <4>2, <5>1 DEF Calls, Made
        <4>5. calls \in [1..Len(said) -> Calls]
          BY <4>1, <4>4
        <4> HIDE DEF calls
        <4> QED
          BY <4>1, <4>5, SeqDef
      <3> HIDE DEF calls, reply, Made
      <3>5. mess \in Messages
        BY <3>3, <3>4 DEF Assistant, Message, Messages
      <3> HIDE DEF mess
      <3>6. Append(run[r].hist, mess) \in Seq(Messages) /\ run[r].use + reply.tokens \in Nat
        <4>1. run[r].hist \in Seq(Messages) /\ run[r].use \in Nat
          BY <1>1 DEF RunRecord
        <4>2. Append(run[r].hist, mess) \in Seq(Messages)
          BY <3>5, <4>1
        <4>3. reply.tokens \in Nat
          BY <3>3
        <4> QED
          BY <4>1, <4>2, <4>3
      <3>7. /\ rec \in RunRecord /\ rec.st = run[r].st /\ rec.todo = calls
            /\ rec.agent = run[r].agent /\ rec.named = run[r].named
            /\ rec.thread = run[r].thread /\ rec.use \in Nat
        BY <1>1, <3>4, <3>6 DEF RunRecord
      <3> HIDE DEF rec
      <3>8. Chatting(rec)
        BY <2>3, <3>7 DEF Chatting
      <3>9. spent' \in Nat
        BY <1>1, <3>1, <3>3
      <3>10. CASE CompleteTurn(r, rec, rec.use)
        <4>1. Fits(r) /\ backlog' \in Seq(Event)
          BY <2>3, <3>7, <3>8, <3>10, CompleteFits
        <4> QED
          BY <2>5, <3>9, <4>1
      <3>11. CASE calls # <<>> /\ Step(r, [rec EXCEPT !.pc = "tools"]) /\ UNCHANGED backlog
        <4> DEFINE new == [rec EXCEPT !.pc = "tools"]
        <4>1. /\ new \in RunRecord /\ new.pc = "tools" /\ new.st = rec.st
              /\ new.todo = rec.todo /\ new.agent = rec.agent /\ new.named = rec.named
              /\ new.thread = rec.thread
          BY <3>7 DEF RunRecord, Live, InSession, InTurn
        <4>2. Fit(new)
          BY <2>3, <3>7, <3>8, <3>11, <4>1 DEF Fit, Chatting, Preparing, InTurn
        <4> QED
          BY <1>1, <2>5, <3>9, <3>11, <4>1, <4>2 DEF Fits
      <3> QED
        BY <3>1, <3>10, <3>11
    <2> QED
      BY <2>6, <2>7
  <1>5. ASSUME At(r, "tools") \/ At(r, "write"), AfterAnswer(r, Answer(run[r]))
        PROVE  Fits(r) /\ backlog' \in Seq(Event)
    <2>1. Chatting(run[r]) /\ run[r].agent \in RawProviders /\ run[r].todo # <<>>
      BY <1>1, <1>5, ChattingOf DEF At, InTurn, Fit
    <2>2. Chatting(Answer(run[r])) /\ Answer(run[r]).agent = run[r].agent
      BY <2>1, AnswerChats
    <2> QED
      BY <1>5, <2>1, <2>2, NextFits
  <1>6. CASE RunTool(r)
    <2>1. At(r, "tools") /\ Aside /\ UNCHANGED <<dir, exits, spent, told, cut>>
      BY <1>6 DEF RunTool
    <2>2. \/ Step(r, Stop(run[r])) /\ UNCHANGED backlog
          \/ Step(r, [run[r] EXCEPT !.pc = "write"]) /\ UNCHANGED backlog
          \/ AfterAnswer(r, Answer(run[r]))
      <3>1. DispatchTool(Head(run[r].todo), dir.here) \in {"abort", "resolved", "answer"}
        BY DEF DispatchTool, RunShell, RunReadFile, RunWriteFile, RunEditFile, RunListDir,
               RunFileTool, ResolveInWorkspace
      <3> QED
        BY <1>6, <3>1 DEF RunTool
    <2>3. ASSUME Step(r, [run[r] EXCEPT !.pc = "write"]) PROVE Fits(r)
      <3> DEFINE new == [run[r] EXCEPT !.pc = "write"]
      <3>1. /\ new \in RunRecord /\ new.pc = "write" /\ new.st = run[r].st
            /\ new.todo = run[r].todo /\ new.agent = run[r].agent
            /\ new.named = run[r].named /\ new.thread = run[r].thread
        BY <1>1 DEF RunRecord, Live, InSession, InTurn
      <3>2. Fit(new)
        BY <1>1, <2>1, <3>1 DEF Fit, At, Preparing, InTurn
      <3> QED
        BY <2>3, <3>1, <3>2 DEF Fits
    <2>4. Fits(r) /\ backlog' \in Seq(Event)
      BY <1>1, <1>5, <2>1, <2>2, <2>3, StopFits
    <2>5. WorkspacesTypeOK'
      BY <1>1, <2>1, SameDir DEF Aside
    <2> QED
      BY <1>1, <2>1, <2>4, <2>5, AsideRest
  <1>7. CASE WriteFile(r)
    <2>1. /\ At(r, "write") /\ Aside /\ UNCHANGED <<exits, spent, told, cut>>
          /\ AfterAnswer(r, Answer(run[r]))
      BY <1>7 DEF WriteFile
    <2>2. ASSUME UNCHANGED dir \/ dir' = [dir EXCEPT !.old = FALSE] PROVE WorkspacesTypeOK'
      BY <1>1, <2>1, <2>2 DEF WorkspacesTypeOK, Dir, Aside
    <2>3. ASSUME dir.gen < MaxDirs, CreateDir(FALSE, TRUE) PROVE WorkspacesTypeOK'
      BY <1>1, <2>1, <2>3, CreateDirType DEF Aside
    <2>4. WorkspacesTypeOK'
      BY <1>7, <2>2, <2>3 DEF WriteFile
    <2> QED
      BY <1>1, <1>5, <2>1, <2>4, AsideRest
  <1> QED
    BY <1>2, <1>3, <1>4, <1>6, <1>7

\* A turn of a subprocess.
Child(r) == Cli(r) \/ OpenCode(r)

LEMMA ChildSound ==
    ASSUME Sound, NEW r \in Runs, Child(r),
           SpawnChild(r) \/ WriteStdin(r) \/ FinishChild(r) \/ ChildFails(r) \/ ChildTimesOut(r)
    PROVE  Fits(r) /\ RestOK'
  <1>1. /\ run[r] \in RunRecord /\ Fit(run[r]) /\ RestOK /\ WorkspacesTypeOK
        /\ exits \subseteq Runs /\ backlog \in Seq(Event) /\ spent \in Nat
        /\ told \in Nat /\ cut \in BOOLEAN
    BY RecordOf DEF Sound, RestOK
  <1>2. run[r].agent \in CliProviders
    BY DEF Child, Cli, OpenCode, CliProviders
  <1>3. ASSUME Aside, UNCHANGED dir PROVE WorkspacesTypeOK'
    BY <1>1, <1>3, SameDir DEF Aside
  <1>4. CASE SpawnChild(r)
    <2> DEFINE new == [run[r] EXCEPT !.pc = "stdin", !.use = 0]
    <2>1. /\ At(r, "turn") /\ Aside /\ UNCHANGED <<dir, exits, spent, told, cut>>
          /\ backlog' = Append(backlog, Started)
          /\ Step(r, new) \/ Step(r, Stop(run[r]))
      BY <1>4 DEF SpawnChild
    <2>2. Chatting(run[r])
      BY <2>1, ChattingOf DEF At, InTurn
    <2>3. /\ new \in RunRecord /\ new.pc = "stdin" /\ new.st = run[r].st
          /\ new.agent = run[r].agent /\ new.named = run[r].named
          /\ new.thread = run[r].thread
      BY <1>1 DEF RunRecord, Live, InSession, InTurn
    <2>4. Fit(new)
      BY <1>2, <2>2, <2>3 DEF Fit, Chatting, Preparing, InTurn
    <2>5. Started \in Event
      BY EventType
    <2>6. backlog' \in Seq(Event)
      BY <1>1, <2>1, <2>5
    <2> HIDE DEF new
    <2>7. Fits(r)
      BY <1>1, <2>1, <2>3, <2>4, StopFits DEF Fits
    <2> QED
      BY <1>1, <1>3, <2>1, <2>6, <2>7, AsideRest
  <1>5. CASE WriteStdin(r)
    <2> DEFINE read  == [run[r] EXCEPT !.pc = "stream"]
               stuck == [run[r] EXCEPT !.stuck = TRUE]
    <2>1. /\ At(r, "stdin") /\ Quiet /\ UNCHANGED dir
          /\ Step(r, read) \/ Step(r, stuck) \/ Step(r, Stop(run[r]))
      BY <1>5 DEF WriteStdin
    <2>2. Chatting(run[r])
      BY <2>1, ChattingOf DEF At, InTurn
    <2>3. /\ read \in RunRecord /\ read.pc = "stream" /\ read.st = run[r].st
          /\ read.agent = run[r].agent /\ read.named = run[r].named
      BY <1>1 DEF RunRecord, Live, InSession, InTurn
    <2>4. /\ stuck \in RunRecord /\ stuck.pc = "stdin" /\ stuck.st = run[r].st
          /\ stuck.agent = run[r].agent /\ stuck.named = run[r].named
          /\ stuck.thread = run[r].thread
      BY <1>1, <2>1 DEF RunRecord, At
    <2>5. Fit(read)
      BY <1>2, <2>2, <2>3 DEF Fit, Chatting, Preparing, InTurn
    <2>6. Fit(stuck)
      BY <1>2, <2>2, <2>4 DEF Fit, Chatting, Preparing, InTurn
    <2> HIDE DEF read, stuck
    <2> QED
      BY <1>1, <2>1, <2>3, <2>4, <2>5, <2>6, StopFits, QuietRest DEF Fits
  <1>6. CASE FinishChild(r)
    <2>1. At(r, "stream") /\ Aside /\ UNCHANGED <<dir, exits, spent, told, cut>>
      BY <1>6 DEF FinishChild
    <2>2. PICK usage \in TerminalUsage(run[r].agent, run[r].use), parsed \in BOOLEAN :
            CompleteTurn(r, [run[r] EXCEPT !.thread = LearnThread(run[r], parsed),
                                           !.named = @ \/ parsed], usage)
      BY <1>6 DEF FinishChild
    <2>3. usage \in Nat \cup {NoUsage}
      BY <1>1 DEF TerminalUsage, OpenCodeUsage, CliUsage, NoUsage, RunRecord
    <2>4. PICK named \in BOOLEAN : named = (run[r].named \/ parsed)
      OBVIOUS
    <2>5. PICK thread \in {"none", "pending", "real"} :
             thread = LearnThread(run[r], parsed) /\ (named => thread = "real")
      BY <1>1, <2>4 DEF LearnThread, RunRecord
    <2> DEFINE rec == [run[r] EXCEPT !.thread = thread, !.named = named]
    <2>6. CompleteTurn(r, rec, usage)
      BY <1>1, <2>2, <2>4, <2>5 DEF RunRecord
    <2>7. /\ rec \in RunRecord /\ rec.st = run[r].st /\ rec.agent = run[r].agent
          /\ rec.named = named /\ rec.thread = thread
      BY <1>1 DEF RunRecord
    <2> HIDE DEF rec
    <2>8. Chatting(rec)
      BY <1>1, <2>1, <2>5, <2>7 DEF Chatting, Fit, At, InTurn
    <2>9. Fits(r) /\ backlog' \in Seq(Event)
      BY <1>2, <2>3, <2>6, <2>7, <2>8, CompleteFits
    <2> QED
      BY <1>1, <1>3, <2>1, <2>9, AsideRest
  <1>7. CASE ChildFails(r)
    BY <1>1, <1>7, StopFits, QuietRest DEF ChildFails
  <1>8. CASE ChildTimesOut(r)
    <2>1. PICK survives \in BOOLEAN :
             /\ Step(r, [Stop(run[r]) EXCEPT !.orphan = survives])
             /\ cut' = (cut \/ survives)
      BY <1>8 DEF ChildTimesOut
    <2>2. Aside /\ UNCHANGED <<dir, backlog, exits, spent, told>>
      BY <1>8 DEF ChildTimesOut
    <2>3. PICK s \in RunRecord : s = Stop(run[r]) /\ s.pc = "after_run"
      BY <1>1, StopType
    <2> DEFINE new == [s EXCEPT !.orphan = survives]
    <2>4. new \in RunRecord /\ new.pc = "after_run" /\ Step(r, new)
      BY <2>1, <2>3 DEF RunRecord
    <2>5. Fit(new)
      BY <2>4 DEF Fit, Preparing, InTurn
    <2>6. cut' \in BOOLEAN
      BY <2>1
    <2> HIDE DEF new
    <2> QED
      BY <1>1, <1>3, <2>2, <2>4, <2>5, <2>6, AsideRest DEF Fits
  <1> QED
    BY <1>4, <1>5, <1>6, <1>7, <1>8

\* What a child prints, during its turn and after it.
LEMMA LineType ==
    ASSUME Sound, NEW r \in Runs, StreamLine(r)
    PROVE  /\ spent' \in Nat /\ backlog' \in Seq(Event) /\ run[r].use + 1 \in Nat
  <1>1. run[r].use \in Nat /\ spent \in Nat /\ backlog \in Seq(Event)
    BY RecordOf DEF RunRecord, Sound, RestOK
  <1>2. run[r].use + 1 \in Nat /\ Progress(run[r].use + 1) \in Event
    BY <1>1, EventType
  <1> QED
    BY <1>1, <1>2 DEF StreamLine

LEMMA OutputSound ==
    ASSUME Sound, NEW r \in Runs, Output(r)
    PROVE  Fits(r) /\ RestOK'
  <1>1. /\ run[r] \in RunRecord /\ Fit(run[r]) /\ RestOK /\ WorkspacesTypeOK
        /\ exits \subseteq Runs /\ told \in Nat /\ cut \in BOOLEAN
    BY RecordOf DEF Sound, RestOK
  <1>2. ASSUME StreamLine(r), Aside, UNCHANGED <<dir, exits, told, cut>> PROVE RestOK'
    <2>1. WorkspacesTypeOK'
      BY <1>1, <1>2, SameDir DEF Aside
    <2> QED
      BY <1>1, <1>2, <2>1, LineType, AsideRest
  <1>3. ASSUME At(r, "stream"), StreamLine(r), NEW named \in BOOLEAN,
               Step(r, [run[r] EXCEPT !.use = @ + 1, !.named = named])
        PROVE  Fits(r)
    <2> DEFINE new == [run[r] EXCEPT !.use = @ + 1, !.named = named]
    <2>1. run[r].use + 1 \in Nat
      BY <1>3, LineType
    <2>2. /\ new \in RunRecord /\ new.pc = "stream" /\ new.st = run[r].st
          /\ new.agent = run[r].agent
      BY <1>1, <1>3, <2>1 DEF RunRecord, At
    <2>3. Fit(new)
      BY <1>1, <1>3, <2>2 DEF Fit, At, Preparing, InTurn
    <2> QED
      BY <1>3, <2>2, <2>3 DEF Fits
  <1>4. CASE CliStream(r)
    <2>1. PICK sees \in BOOLEAN :
            Step(r, [run[r] EXCEPT !.use = @ + 1, !.named = @ \/ sees])
      BY <1>4 DEF CliStream
    <2>2. PICK named \in BOOLEAN : named = (run[r].named \/ sees)
      OBVIOUS
    <2>3. Step(r, [run[r] EXCEPT !.use = @ + 1, !.named = named])
      BY <1>1, <2>1, <2>2 DEF RunRecord
    <2> QED
      BY <1>2, <1>3, <1>4, <2>3 DEF CliStream
  <1>5. CASE OpenCodeStream(r)
    BY <1>2, <1>3, <1>5 DEF OpenCodeStream
  <1>6. CASE LateStream(r)
    <2> DEFINE new == [run[r] EXCEPT !.use = @ + 1]
    <2>1. run[r].use + 1 \in Nat
      BY <1>6, LineType DEF LateStream
    <2>2. new \in RunRecord /\ new.pc \in {"after_run", "over"}
      BY <1>1, <1>6, <2>1 DEF RunRecord, LateStream
    <2>3. Fit(new)
      BY <2>2 DEF Fit, Preparing, InTurn
    <2> QED
      BY <1>2, <1>6, <2>2, <2>3 DEF LateStream, Fits
  <1>7. CASE OrphanEnds(r)
    <2> DEFINE new == [run[r] EXCEPT !.orphan = FALSE]
    <2>1. new \in RunRecord /\ new.pc \in {"after_run", "over"}
      BY <1>1, <1>7 DEF RunRecord, OrphanEnds
    <2>2. Fit(new)
      BY <2>1 DEF Fit, Preparing, InTurn
    <2> QED
      BY <1>1, <1>7, <2>1, <2>2, QuietRest DEF OrphanEnds, Fits
  <1> QED
    BY <1>4, <1>5, <1>6, <1>7 DEF Output

\* Between two turns, and the end.
LEMMA RefreshSound ==
    ASSUME Sound, NEW r \in Runs, Refresh(r)
    PROVE  Fits(r) /\ RestOK'
  <1>1. /\ run[r] \in RunRecord /\ Fit(run[r]) /\ RestOK
        /\ At(r, "refresh") /\ Quiet /\ UNCHANGED dir
    BY RecordOf DEF Sound, Refresh
  <1>2. ASSUME NEW st \in ActiveStates, ~HandsOff(r, st),
               Step(r, [run[r] EXCEPT !.pc = "turn", !.turn = @ + 1, !.st = st])
        PROVE  Fits(r)
    <2> DEFINE new == [run[r] EXCEPT !.pc = "turn", !.turn = @ + 1, !.st = st]
    <2>1. /\ new \in RunRecord /\ new.pc = "turn" /\ new.st = st
          /\ new.agent = run[r].agent /\ new.named = run[r].named
          /\ new.thread = run[r].thread
      <3>1. /\ run[r].turn + 1 \in Nat /\ "turn" \in Live \cup Over \cup {"idle"}
            /\ st \in States \cup {"none"}
        BY <1>1 DEF RunRecord, Live, InSession, InTurn, States
      <3> QED
        BY <1>1, <3>1 DEF RunRecord
    <2>2. /\ cfg.agent[st] = run[r].agent
          /\ run[r].agent \in RawProviders \cup CliProviders
          /\ run[r].named => run[r].thread = "real"
      BY <1>1, <1>2 DEF HandsOff, Fit, At, InTurn
    <2>3. Fit(new)
      BY <2>1, <2>2 DEF Fit, Preparing, InTurn
    <2> QED
      BY <1>2, <2>1, <2>3 DEF Fits
  <1>3. \/ Step(r, Stop(run[r]))
        \/ \E st \in ActiveStates :
             ~HandsOff(r, st) /\ Step(r, [run[r] EXCEPT !.pc = "turn", !.turn = @ + 1, !.st = st])
    BY DEF Refresh
  <1> QED
    BY <1>1, <1>2, <1>3, StopFits, QuietRest

LEMMA AfterRunSound ==
    ASSUME Sound, NEW r \in Runs, AfterRun(r)
    PROVE  Fits(r) /\ RestOK'
  <1>1. /\ run[r] \in RunRecord /\ RestOK /\ WorkspacesTypeOK
        /\ Aside /\ UNCHANGED <<dir, backlog, spent, cut>>
    BY RecordOf DEF Sound, RestOK, AfterRun
  <1> DEFINE over  == [Idle EXCEPT !.pc = "over"]
             agent == IF run[r].orphan THEN run[r].agent ELSE "none"
             new   == [over EXCEPT !.orphan = run[r].orphan, !.use = run[r].use, !.agent = agent]
  <1>2. over \in RunRecord /\ over.pc = "over"
    BY IdleType DEF Idle
  <1>3. agent \in Agents \cup {"none"} /\ run[r].orphan \in BOOLEAN /\ run[r].use \in Nat
    BY <1>1 DEF RunRecord
  <1> HIDE DEF agent
  <1>4. Step(r, new)
    BY DEF AfterRun, Idle, agent
  <1> HIDE DEF over
  <1>5. new \in RunRecord /\ new.pc = "over"
    BY <1>2, <1>3 DEF RunRecord
  <1>6. Fit(new)
    BY <1>5 DEF Fit, Preparing, InTurn
  <1>7. exits' \subseteq Runs /\ told' \in Nat
    <2>1. run[r].sess \in Nat /\ told \in Nat /\ exits \subseteq Runs
      BY <1>1 DEF RunRecord, RestOK
    <2> QED
      BY <2>1 DEF AfterRun
  <1>8. WorkspacesTypeOK'
    BY <1>1, SameDir DEF Aside
  <1> HIDE DEF new
  <1> QED
    BY <1>1, <1>4, <1>5, <1>6, <1>7, <1>8, AsideRest DEF Fits, RestOK

\* The orchestrator's side, and the removals.
LEMMA OrchestratorSound ==
    ASSUME Sound,
           \/ \E r \in Runs : ConsumeExit(r)
           \/ ConsumeEvent \/ Stall \/ Terminate \/ MoveIssue
    PROVE  RestOK' /\ UNCHANGED <<run, cfg>>
  <1>1. RestOK /\ WorkspacesTypeOK
    BY DEF Sound, RestOK
  <1>2. NoEntry \in Entry
    BY AttemptBounds DEF NoEntry, NoRun, Entry
  <1>3. ASSUME NEW r \in Runs, ConsumeExit(r) PROVE RestOK' /\ UNCHANGED <<run, cfg>>
    <2>1. cut' \in BOOLEAN /\ exits' \subseteq Runs
      BY <1>1, <1>3 DEF ConsumeExit, RestOK
    <2>2. WorkspacesTypeOK'
      BY <1>1, <1>3, SameDir DEF ConsumeExit, Outside
    <2> QED
      BY <1>1, <1>2, <1>3, <2>1, <2>2 DEF ConsumeExit, Forget, Outside, RestOK
  <1>4. CASE ConsumeEvent
    <2> DEFINE e == Head(backlog)
    <2>1. backlog # <<>> /\ backlog' = Tail(backlog) /\ backlog \in Seq(Event)
      BY <1>1, <1>4 DEF ConsumeEvent, RestOK
    <2>2. e \in Event /\ backlog' \in Seq(Event)
      BY <2>1
    <2>3. e.n \in Nat \cup {NoUsage} /\ NoUsage = -1
      BY <2>2 DEF Event, NoUsage
    <2>4. entry.base \in Nat /\ entry \in Entry /\ totals \in Nat /\ missed \in Nat
      BY <1>1 DEF RestOK, Entry
    <2>5. /\ IF entry = NoEntry
             THEN missed' = (IF e.n = NoUsage THEN missed ELSE missed + e.n)
                  /\ UNCHANGED <<entry, totals>>
             ELSE /\ totals' = IF e.n > BaseReset(e) THEN totals + (e.n - BaseReset(e)) ELSE totals
                  /\ entry' = [entry EXCEPT !.base = NextBase(e)]
                  /\ UNCHANGED missed
          /\ Outside /\ UNCHANGED <<exits, timer, cut>>
      BY <1>4 DEF ConsumeEvent
    <2> HIDE DEF e
    <2>6. BaseReset(e) \in Nat
      BY <2>4 DEF BaseReset
    <2>7. NextBase(e) \in Nat
      BY <2>3, <2>6 DEF NextBase
    <2>8. totals' \in Nat /\ missed' \in Nat
      BY <2>3, <2>4, <2>5, <2>6
    <2>9. entry' \in Entry
      BY <2>4, <2>5, <2>7 DEF Entry
    <2>10. WorkspacesTypeOK'
      BY <1>1, <2>5, SameDir DEF Outside
    <2> QED
      BY <1>1, <2>2, <2>5, <2>8, <2>9, <2>10 DEF RestOK, Outside
  <1>5. CASE Stall
    <2>1. cut' \in BOOLEAN
      BY <1>1, <1>5 DEF Stall, RestOK
    <2>2. WorkspacesTypeOK'
      BY <1>1, <1>5, SameDir DEF Stall, Outside
    <2> QED
      BY <1>1, <1>2, <1>5, <2>1, <2>2 DEF Stall, Forget, Outside, RestOK
  <1>6. CASE Terminate
    <2>1. cut' \in BOOLEAN
      BY <1>1, <1>6 DEF Terminate, RestOK
    <2>2. WorkspacesTypeOK'
      BY <1>1, <1>6 DEF Terminate, WorkspacesTypeOK, Sweeping
    <2> QED
      BY <1>1, <1>2, <1>6, <2>1, <2>2 DEF Terminate, Forget, counts, RestOK
  <1>7. CASE MoveIssue
    <2>1. WorkspacesTypeOK'
      BY <1>1, <1>7, SameDir DEF MoveIssue
    <2>2. moves' \in 0..MaxMoves
      BY <1>1, <1>7, AttemptBounds DEF MoveIssue, RestOK
    <2>3. why' \subseteq {"late", "ended"} /\ issue' \in States
      BY <1>1, <1>7 DEF MoveIssue, RestOK
    <2> QED
      BY <1>1, <1>7, <2>1, <2>2, <2>3 DEF MoveIssue, counts, RestOK
  <1> QED
    BY <1>3, <1>4, <1>5, <1>6, <1>7

LEMMA HousekeepingSound ==
    ASSUME Sound, Housekeeping
    PROVE  RestOK' /\ UNCHANGED <<run, cfg>>
  <1>1. RestOK /\ WorkspacesTypeOK
    BY DEF Sound, RestOK
  <1>2. sweep' \in Sweeping
    BY <1>1
      DEF Housekeeping, Drop, BeginSweep, FetchTerminal, RemoveListed, ReadKeys, Reap, Age,
          WorkspacesTypeOK, Sweeping
  <1>3. UNCHANGED dir \/ RemoveDir \/ dir' = [dir EXCEPT !.old = TRUE]
    BY DEF Housekeeping, Drop, BeginSweep, FetchTerminal, RemoveListed, ReadKeys, Reap, Age
  <1>4. dir' \in Dir
    BY <1>1, <1>3 DEF RemoveDir, WorkspacesTypeOK, Dir
  <1> QED
    BY <1>1, <1>2, <1>4 DEF Housekeeping, counts, RestOK, WorkspacesTypeOK

LEMMA RestartSound ==
    ASSUME Sound, Restart
    PROVE  Sound'
  <1>1. RestOK /\ WorkspacesTypeOK /\ run \in [Runs -> RunRecord]
    BY DEF Sound, RestOK
  <1>2. ASSUME NEW r \in Runs PROVE run'[r] \in RunRecord /\ Fit(run'[r])
    <2>1. /\ [Idle EXCEPT !.pc = "idle"] = Idle
          /\ [Idle EXCEPT !.pc = "gone"] \in RunRecord /\ Fit([Idle EXCEPT !.pc = "gone"])
          /\ [Idle EXCEPT !.pc = "idle"] \in RunRecord /\ Fit([Idle EXCEPT !.pc = "idle"])
      BY IdleType DEF Idle
    <2> QED
      BY <2>1 DEF Restart
  <1>3. run' \in [Runs -> RunRecord]
    BY <1>2 DEF Restart
  <1>4. Fitting'
    BY <1>2 DEF Restart, Fitting, Fit
  <1>5. WorkspacesTypeOK'
    <2>1. PICK spoiled \in BOOLEAN : dir' = [dir EXCEPT !.spoiled = spoiled]
      <3>1. PICK broken \in BOOLEAN : broken = \E r \in Runs :
                    At(r, "after_create") /\ dir.here /\ run[r].at = dir.gen
        OBVIOUS
      <3>2. PICK spoiled \in BOOLEAN : spoiled = (dir.spoiled \/ broken)
        OBVIOUS
      <3>3. dir' = [dir EXCEPT !.spoiled = spoiled]
        BY <1>1, <3>1, <3>2 DEF Restart, WorkspacesTypeOK, Dir
      <3> QED
        BY <3>3
    <2>2. dir' \in Dir
      BY <1>1, <2>1 DEF WorkspacesTypeOK, Dir
    <2> QED
      BY <2>2 DEF Restart, WorkspacesTypeOK, Sweeping
  <1>6. NoEntry \in Entry /\ <<>> \in Seq(Event)
    BY AttemptBounds DEF NoEntry, NoRun, Entry
  <1>7. restarts' \in 0..MaxRestarts
    BY <1>1, AttemptBounds DEF Restart, RestOK
  <1>8. RestOK'
    BY <1>1, <1>5, <1>6, <1>7 DEF Restart, RestOK
  <1> QED
    BY <1>3, <1>4, <1>8 DEF Sound

LEMMA DispatchSound ==
    ASSUME Sound, NEW r \in Runs, Dispatch(r)
    PROVE  Fits(r) /\ RestOK'
  <1>1. RestOK /\ WorkspacesTypeOK /\ issue \in ActiveStates
    BY DEF Sound, RestOK, Dispatch
  <1> DEFINE idle == [Idle EXCEPT !.pc = "idle"]
             new  == [idle EXCEPT !.pc = "ensure", !.st = issue]
  <1>2. idle \in RunRecord /\ ~idle.named
    BY IdleType DEF Idle
  <1>3. Step(r, new)
    BY DEF Dispatch, Idle
  <1> HIDE DEF idle
  <1>4. new \in RunRecord /\ new.pc = "ensure" /\ new.st = issue /\ ~new.named
    BY <1>1, <1>2 DEF RunRecord, Live, Preparing, States
  <1>5. Fit(new)
    BY <1>1, <1>4 DEF Fit, Preparing, InTurn
  <1>6. [run |-> r, base |-> 0] \in Entry
    BY AttemptBounds DEF Entry, Runs
  <1>7. cut' \in BOOLEAN /\ WorkspacesTypeOK'
    BY <1>1, SameDir DEF Dispatch, RestOK
  <1>8. RestOK'
    BY <1>1, <1>6, <1>7 DEF Dispatch, counts, RestOK
  <1> HIDE DEF new
  <1> QED
    BY <1>3, <1>4, <1>5, <1>8 DEF Fits

LEMMA InitSound == AttemptInit => Sound
  <1> SUFFICES ASSUME AttemptInit PROVE Sound
    OBVIOUS
  <1>1. [Idle EXCEPT !.pc = "idle"] = Idle
    BY DEF Idle
  <1>2. Idle \in RunRecord /\ Fit(Idle)
    BY <1>1, IdleType
  <1>3. run \in [Runs -> RunRecord] /\ Fitting
    BY <1>2 DEF AttemptInit, Fitting
  <1>4. NoEntry \in Entry /\ <<>> \in Seq(Event)
    BY AttemptBounds DEF NoEntry, NoRun, Entry
  <1>5. WorkspacesTypeOK
    BY AttemptBounds
      DEF AttemptInit, WorkspacesInit, WorkspacesTypeOK, NoDir, Dir, Sweeping
  <1>6. RestOK
    <2>1. moves \in 0..MaxMoves /\ restarts \in 0..MaxRestarts /\ issue \in States
      BY AttemptBounds DEF AttemptInit, States
    <2>2. totals \in Nat /\ spent \in Nat /\ told \in Nat /\ missed \in Nat
      BY DEF AttemptInit
    <2>3. entry \in Entry /\ backlog \in Seq(Event) /\ exits \subseteq Runs /\ cfg \in Configs
      BY <1>4 DEF AttemptInit
    <2>4. timer \in BOOLEAN /\ cut \in BOOLEAN /\ why \subseteq {"late", "ended"}
      BY DEF AttemptInit
    <2> QED
      BY <1>5, <2>1, <2>2, <2>3, <2>4 DEF RestOK
  <1> QED
    BY <1>3, <1>6 DEF Sound

LEMMA NextSound == Sound /\ [Next]_vars => Sound'
  <1> SUFFICES ASSUME Sound, [Next]_vars PROVE Sound'
    OBVIOUS
  <1>1. ASSUME NEW r \in Runs, Fits(r), RestOK', cfg' = cfg PROVE Sound'
    BY <1>1, FitsType DEF Sound
  <1>2. ASSUME RestOK', UNCHANGED <<run, cfg>> PROVE Sound'
    BY <1>2 DEF Sound, Fitting, Fit
  <1>3. ASSUME NEW r \in Runs, Dispatch(r) PROVE Sound'
    BY <1>1, <1>3, DispatchSound DEF Dispatch
  <1>4. ASSUME NEW r \in Runs, RunnerStep(r) PROVE Sound'
    <2>1. cfg' = cfg
      BY <1>4, RunnerAside
    <2>2. Fits(r) /\ RestOK'
      BY <1>4, PrepareSound, RawSound, ChildSound, RefreshSound, AfterRunSound
        DEF RunnerStep, Child, CliSpawn, CliStdin, CliFinish, CliFails, CliTimesOut,
            OpenCodeSpawn, OpenCodeStdin, OpenCodeFinish, OpenCodeFails, OpenCodeTimesOut
    <2> QED
      BY <1>1, <2>1, <2>2
  <1>5. ASSUME NEW r \in Runs, Output(r) PROVE Sound'
    BY <1>1, <1>5, RunnerAside, OutputSound
  <1>6. CASE UNCHANGED vars
    <2>1. RestOK' /\ UNCHANGED <<run, cfg>>
      BY <1>6, SameDir DEF vars, counts, Sound, RestOK
    <2> QED
      BY <1>2, <2>1
  <1> QED
    BY <1>2, <1>3, <1>4, <1>5, <1>6, OrchestratorSound, HousekeepingSound, RestartSound
      DEF Next

LEMMA SpecSound == Spec => []Sound
  BY InitSound, NextSound, PTL DEF Spec

\* Every record, channel and count keeps to its type, for every number of runs
\* and every configuration.
THEOREM AttemptTypeCorrect == Spec => []AttemptTypeOK
  <1>1. Sound => AttemptTypeOK
    BY DEF Sound, RestOK, AttemptTypeOK
  <1> QED
    BY <1>1, SpecSound, PTL

\* Whatever the issue's states do between two turns, a turn runs with the agent
\* of the state its attempt last saw (runner.rs:207).
THEOREM TurnsHaveTheRightAgent == Spec => []RightAgent
  <1>1. Sound => RightAgent
    BY DEF Sound, Fitting, Fit, RightAgent
  <1> QED
    BY <1>1, SpecSound, PTL

\* Once an id was seen, on whichever line or by the parser, every continuation
\* turn resumes the thread (cli.rs:133, :297).
THEOREM ContinuationsResume == Spec => []ContinuationHasThread
  <1>1. Sound => ContinuationHasThread
    BY DEF Sound, Fitting, Fit, ContinuationHasThread, At, Resumes, InTurn
  <1> QED
    BY <1>1, SpecSound, PTL

-----------------------------------------------------------------------------
(* The preparation of a workspace.                                         *)

\* A directory that no hook has prepared and nothing has spoiled has an attempt
\* at its hook, whether or not anyone works in it.
Prepared ==
    dir.here => \/ dir.ready \/ dir.spoiled
                \/ \E q \in Runs : At(q, "after_create") /\ run[q].at = dir.gen

\* The attempts at the hook stay there.
LEMMA PreparedKept ==
    ASSUME Sound, Prepared, NEW r \in Runs, Fits(r), ~At(r, "after_create"),
           UNCHANGED dir \/ dir' = [dir EXCEPT !.old = FALSE]
    PROVE  Prepared'
  <1>1. PICK rec \in RunRecord : run' = [run EXCEPT ![r] = rec]
    BY DEF Fits, Step
  <1>2. \A q \in Runs : At(q, "after_create") => run'[q] = run[q]
    BY <1>1 DEF Sound, At
  <1>3. /\ dir'.here = dir.here /\ dir'.ready = dir.ready
        /\ dir'.spoiled = dir.spoiled /\ dir'.gen = dir.gen
    BY DEF Sound, RestOK, WorkspacesTypeOK, Dir
  <1> QED
    BY <1>2, <1>3 DEF Prepared, At

LEMMA EnsurePrepared ==
    ASSUME Sound, Prepared, NEW r \in Runs, Ensure(r)
    PROVE  Prepared'
  <1>1. run \in [Runs -> RunRecord] /\ run[r] \in RunRecord /\ dir \in Dir
    BY RecordOf DEF Sound, RestOK, WorkspacesTypeOK
  <1>2. CASE UNCHANGED dir
    BY <1>2, PrepareSound, PreparedKept DEF Ensure, At
  <1>3. CASE ~UNCHANGED dir
    <2>1. ~dir.here /\ CreateDir(~("after_create" \in cfg.hooks), FALSE)
      BY <1>3 DEF Ensure, EnsureForIssue
    <2>2. Step(r, [run[r] EXCEPT
                     !.at = dir'.gen,
                     !.pc = IF CreatedNow /\ "after_create" \in cfg.hooks
                            THEN "after_create" ELSE "before_run"])
      BY <1>3 DEF Ensure
    <2>3. CASE "after_create" \in cfg.hooks
      <3>1. run' = [run EXCEPT ![r] = [run[r] EXCEPT !.at = dir'.gen, !.pc = "after_create"]]
        BY <2>1, <2>2, <2>3 DEF Step, CreatedNow
      <3>2. run'[r].at = dir'.gen /\ run'[r].pc = "after_create"
        BY <1>1, <3>1 DEF RunRecord
      <3> QED
        BY <3>2 DEF Prepared, At
    <2>4. CASE "after_create" \notin cfg.hooks
      <3>1. dir'.ready
        BY <2>1, <2>4 DEF CreateDir
      <3> QED
        BY <3>1 DEF Prepared
    <2> QED
      BY <2>3, <2>4
  <1> QED
    BY <1>2, <1>3

LEMMA HookPrepared ==
    ASSUME Sound, Prepared, NEW r \in Runs, AfterCreate(r)
    PROVE  Prepared'
  <1>1. dir \in Dir
    BY DEF Sound, RestOK, WorkspacesTypeOK
  <1>2. Fits(r)
    BY PrepareSound
  <1>3. PICK rec \in RunRecord : run' = [run EXCEPT ![r] = rec]
    BY <1>2 DEF Fits, Step
  <1>4. \A q \in Runs \ {r} : run'[q] = run[q]
    BY <1>3 DEF Sound
  <1>5. CASE dir.here /\ dir.gen = run[r].at
    <2>1. \/ dir' = IF ~dir.spoiled THEN [dir EXCEPT !.ready = TRUE] ELSE dir
          \/ dir' = [dir EXCEPT !.spoiled = TRUE]
      BY <1>5 DEF AfterCreate
    <2>2. dir'.ready \/ dir'.spoiled
      BY <1>1, <2>1 DEF Dir
    <2> QED
      BY <2>2 DEF Prepared
  <1>6. CASE ~(dir.here /\ dir.gen = run[r].at)
    <2>1. UNCHANGED dir
      BY <1>6 DEF AfterCreate
    <2> QED
      BY <1>4, <1>6, <2>1 DEF Prepared, At
  <1> QED
    BY <1>5, <1>6

LEMMA RunnerPrepared ==
    ASSUME Sound, Prepared, NEW r \in Runs, RunnerStep(r) \/ Output(r)
    PROVE  Prepared'
  <1>1. CASE Ensure(r) \/ AfterCreate(r)
    BY <1>1, EnsurePrepared, HookPrepared
  <1>2. CASE WriteFile(r)
    <2>1. Fits(r) /\ ~At(r, "after_create")
      BY <1>2, RawSound DEF WriteFile, At
    <2>2. \/ UNCHANGED dir \/ dir' = [dir EXCEPT !.old = FALSE]
          \/ CreateDir(FALSE, TRUE)
      BY <1>2 DEF WriteFile
    <2>3. CASE CreateDir(FALSE, TRUE)
      BY <2>3 DEF CreateDir, Prepared
    <2> QED
      BY <2>1, <2>2, <2>3, PreparedKept
  <1>3. CASE BeforeRun(r) \/ BuildFor(r) \/ StartSession(r)
    <2>1. Fits(r)
      BY <1>3, PrepareSound
    <2>2. UNCHANGED dir /\ ~At(r, "after_create")
      BY <1>3 DEF BeforeRun, BuildFor, StartSession, At
    <2> QED
      BY <2>1, <2>2, PreparedKept
  <1>4. CASE PromptFails(r) \/ RawBegin(r) \/ DeadlinePassed(r) \/ CallLlm(r) \/ RunTool(r)
    <2>1. Fits(r)
      BY <1>4, RawSound
    <2>2. UNCHANGED dir /\ ~At(r, "after_create")
      BY <1>4 DEF PromptFails, RawBegin, DeadlinePassed, CallLlm, RunTool, At
    <2> QED
      BY <2>1, <2>2, PreparedKept
  <1>5. CASE /\ Child(r)
             /\ SpawnChild(r) \/ WriteStdin(r) \/ FinishChild(r) \/ ChildFails(r)
                  \/ ChildTimesOut(r)
    <2>1. Fits(r)
      BY <1>5, ChildSound
    <2>2. UNCHANGED dir /\ ~At(r, "after_create")
      BY <1>5 DEF SpawnChild, WriteStdin, FinishChild, ChildFails, ChildTimesOut, At
    <2> QED
      BY <2>1, <2>2, PreparedKept
  <1>6. CASE Refresh(r) \/ AfterRun(r)
    <2>1. Fits(r)
      BY <1>6, RefreshSound, AfterRunSound
    <2>2. UNCHANGED dir /\ ~At(r, "after_create")
      BY <1>6 DEF Refresh, AfterRun, At
    <2> QED
      BY <2>1, <2>2, PreparedKept
  <1>7. CASE Output(r)
    <2>1. Fits(r)
      BY <1>7, OutputSound
    <2>2. UNCHANGED dir /\ ~At(r, "after_create")
      BY <1>7 DEF Output, CliStream, OpenCodeStream, LateStream, OrphanEnds, At
    <2> QED
      BY <2>1, <2>2, PreparedKept
  <1> QED
    BY <1>1, <1>2, <1>3, <1>4, <1>5, <1>6, <1>7
      DEF RunnerStep, Child, CliSpawn, CliStdin, CliFinish, CliFails, CliTimesOut,
          OpenCodeSpawn, OpenCodeStdin, OpenCodeFinish, OpenCodeFails, OpenCodeTimesOut

LEMMA NextPrepared == Sound /\ Prepared /\ [Next]_vars => Prepared'
  <1> SUFFICES ASSUME Sound, Prepared, [Next]_vars PROVE Prepared'
    OBVIOUS
  <1>1. dir \in Dir
    BY DEF Sound, RestOK, WorkspacesTypeOK
  <1>2. ASSUME NEW r \in Runs, Dispatch(r) PROVE Prepared'
    BY <1>2, DispatchSound, PreparedKept DEF Dispatch, At
  <1>3. CASE UNCHANGED <<run, dir>>
    BY <1>3 DEF Prepared, At
  <1>4. CASE Housekeeping
    <2>1. UNCHANGED dir \/ RemoveDir \/ dir' = [dir EXCEPT !.old = TRUE]
      BY <1>4 DEF Housekeeping, Drop, BeginSweep, FetchTerminal, RemoveListed, ReadKeys, Reap, Age
    <2>2. CASE RemoveDir
      <3>1. ~dir'.here \/ dir'.spoiled
        BY <1>1, <2>2 DEF RemoveDir, Dir
      <3> QED
        BY <3>1 DEF Prepared
    <2>3. CASE dir' = [dir EXCEPT !.old = TRUE]
      <3>1. /\ dir'.here = dir.here /\ dir'.ready = dir.ready
            /\ dir'.spoiled = dir.spoiled /\ dir'.gen = dir.gen
        BY <1>1, <2>3 DEF Dir
      <3> QED
        BY <1>4, <3>1 DEF Housekeeping, Prepared, At
    <2> QED
      BY <1>3, <1>4, <2>1, <2>2, <2>3 DEF Housekeeping
  <1>5. CASE Restart
    <2>1. /\ dir'.here = dir.here /\ dir'.ready = dir.ready
          /\ dir.spoiled \/ (\E r \in Runs : At(r, "after_create") /\ dir.here
                                                /\ run[r].at = dir.gen)
               => dir'.spoiled
      BY <1>1, <1>5 DEF Restart, Dir
    <2> QED
      BY <2>1 DEF Prepared
  <1> QED
    BY <1>2, <1>3, <1>4, <1>5, RunnerPrepared
      DEF Next, vars, ConsumeExit, ConsumeEvent, Stall, Terminate, MoveIssue, Outside

\* A run in its own directory finds the after_create hook done, unless something
\* spoiled the directory or the run that made it is at the hook still, however
\* removals, late writes and restarts fall between (manager.rs:39, runner.rs:76).
THEOREM SessionsArePrepared == Spec => []SessionPrepared
  <1>1. AttemptInit => Prepared
    BY DEF AttemptInit, WorkspacesInit, NoDir, Prepared
  <1>2. Prepared => SessionPrepared
    BY DEF Prepared, SessionPrepared, At
  <1> QED
    BY <1>1, <1>2, SpecSound, NextPrepared, PTL DEF Spec

-----------------------------------------------------------------------------
(* What the dashboard counts.                                              *)

\* The baseline after an event, and what the event adds to the total.
ResetBy(b, e) == IF e.kind = "started" THEN 0 ELSE b
After(b, e)   == IF e.n = NoUsage THEN ResetBy(b, e) ELSE e.n
Gain(b, e)    == IF e.n > ResetBy(b, e) THEN e.n - ResetBy(b, e) ELSE 0

End == Len(backlog) + 1

\* The baselines and the totals the orchestrator goes through as it reads the
\* events that wait.
Ledger(base, gain) ==
    /\ base \in [1..End -> Nat] /\ gain \in [1..End -> Nat]
    /\ gain[1] = totals
    /\ entry # NoEntry => base[1] = entry.base
    /\ \A k \in 1..Len(backlog) : /\ base[k + 1] = After(base[k], backlog[k])
                                  /\ gain[k + 1] = gain[k] + Gain(base[k], backlog[k])
    /\ \A j, k \in 1..End : j <= k => gain[j] <= gain[k]

Open == {"call", "tools", "write", "stdin", "stream"}

\* When the orchestrator has read everything, at baseline b with total g: the
\* turn's own tokens beyond the baseline were consumed and not counted, and what
\* the session adds up is in the total, or was missed.
Level(rec, b, g, consumed, reported, lost) ==
    /\ rec.pc \in Open => /\ b <= rec.use /\ g + rec.use <= consumed + b
                          /\ reported + rec.sess + b <= g + lost
    /\ reported + rec.sess <= g + lost

Balanced ==
    /\ \A r \in Runs : ~run[r].orphan /\ (run[r].pc \in Live => entry.run = r)
    /\ \E base, gain \in [1..End -> Nat] :
          /\ Ledger(base, gain)
          /\ \A k \in 1..End : gain[k] <= spent
          /\ told <= gain[End] + missed
          /\ \A r \in Runs : run[r].pc \in Live =>
                Level(run[r], base[End], gain[End], spent, told, missed)

LEMMA GainType ==
    ASSUME NEW b \in Nat, NEW e \in Event
    PROVE  After(b, e) \in Nat /\ Gain(b, e) \in Nat
  BY DEF After, Gain, ResetBy, Event, NoUsage

\* One more event at the end.
Extends(base, gain, e) ==
    \E b, g \in [1..End' -> Nat] :
       /\ Ledger(b, g)'
       /\ b[End'] = After(base[End], e)
       /\ g[End'] = gain[End] + Gain(base[End], e)
       /\ \A k \in 1..End : g[k] = gain[k]

LEMMA LedgerAppend ==
    ASSUME Sound, NEW base, NEW gain, Ledger(base, gain), NEW e \in Event,
           backlog' = Append(backlog, e), UNCHANGED <<entry, totals>>
    PROVE  Extends(base, gain, e)
  <1>1. backlog \in Seq(Event) /\ Len(backlog) \in Nat
    BY DEF Sound, RestOK
  <1>2. PICK n \in Nat : n = Len(backlog)
    BY <1>1
  <1>3. /\ End = n + 1 /\ End' = n + 2 /\ Len(backlog') = n + 1
        /\ \A k \in 1..n : backlog'[k] = backlog[k]
        /\ backlog'[n + 1] = e
    BY <1>1, <1>2 DEF End
  <1>4. base \in [1..(n + 1) -> Nat] /\ gain \in [1..(n + 1) -> Nat]
    BY <1>3 DEF Ledger
  <1>5. After(base[n + 1], e) \in Nat /\ gain[n + 1] + Gain(base[n + 1], e) \in Nat
    <2>1. base[n + 1] \in Nat /\ gain[n + 1] \in Nat
      BY <1>2, <1>4
    <2>2. PICK b1 \in Nat : b1 = base[n + 1]
      BY <2>1
    <2>3. After(b1, e) \in Nat /\ Gain(b1, e) \in Nat
      BY GainType
    <2>4. After(base[n + 1], e) \in Nat /\ Gain(base[n + 1], e) \in Nat
      BY <2>2, <2>3
    <2> QED
      BY <2>1, <2>4
  <1> DEFINE b == [k \in 1..(n + 2) |-> IF k = n + 2 THEN After(base[n + 1], e) ELSE base[k]]
             g == [k \in 1..(n + 2) |-> IF k = n + 2 THEN gain[n + 1] + Gain(base[n + 1], e)
                                        ELSE gain[k]]
  <1>6. b \in [1..(n + 2) -> Nat] /\ g \in [1..(n + 2) -> Nat]
    BY <1>2, <1>4, <1>5
  <1>7. /\ \A k \in 1..(n + 1) : b[k] = base[k] /\ g[k] = gain[k]
        /\ b[n + 2] = After(base[n + 1], e)
        /\ g[n + 2] = gain[n + 1] + Gain(base[n + 1], e)
    BY <1>2
  <1> HIDE DEF b, g
  <1>8. ASSUME NEW k \in 1..(n + 1)
        PROVE  /\ b[k + 1] = After(b[k], backlog'[k])
               /\ g[k + 1] = g[k] + Gain(b[k], backlog'[k])
    <2>1. CASE k = n + 1
      BY <1>2, <1>3, <1>7, <2>1
    <2>2. CASE k \in 1..n
      <3>1. b[k + 1] = base[k + 1] /\ g[k + 1] = gain[k + 1] /\ b[k] = base[k] /\ g[k] = gain[k]
        BY <1>2, <1>7, <2>2
      <3>2. /\ base[k + 1] = After(base[k], backlog[k])
            /\ gain[k + 1] = gain[k] + Gain(base[k], backlog[k])
        BY <1>2, <2>2 DEF Ledger
      <3> QED
        BY <1>3, <2>2, <3>1, <3>2
    <2> QED
      BY <1>2, <2>1, <2>2
  <1>9. g[1] = totals' /\ (entry' # NoEntry => b[1] = entry'.base)
    BY <1>2, <1>7 DEF Ledger
  <1>10. PICK bb, gg : bb = b /\ gg = g
    OBVIOUS
  <1>13. ASSUME NEW j \in 1..(n + 2), NEW k \in 1..(n + 2), j <= k
         PROVE  gg[j] <= gg[k]
    <2>1. CASE k \in 1..(n + 1)
      <3>1. j \in 1..(n + 1) /\ gg[j] = gain[j] /\ gg[k] = gain[k]
        BY <1>2, <1>7, <1>10, <1>13, <2>1
      <3> QED
        BY <1>3, <1>13, <2>1, <3>1 DEF Ledger
    <2>2. CASE k = n + 2 /\ j = n + 2
      <3>1. gg[j] \in Nat
        BY <1>6, <1>10
      <3> QED
        BY <2>2, <3>1
    <2>3. CASE k = n + 2 /\ j # n + 2
      <3>1. j \in 1..(n + 1) /\ n + 1 \in 1..(n + 1) /\ gg[j] = gain[j]
        BY <1>2, <1>7, <1>10, <1>13, <2>3
      <3>2. gain[j] <= gain[n + 1]
        BY <1>2, <1>3, <3>1 DEF Ledger
      <3>3. PICK b1 \in Nat : b1 = base[n + 1]
        BY <1>2, <1>4
      <3>4. PICK more \in Nat : more = Gain(base[n + 1], e)
        BY <3>3, GainType
      <3>5. gain[j] \in Nat /\ gain[n + 1] \in Nat
        BY <1>4, <3>1
      <3>6. gg[k] = gain[n + 1] + more
        BY <1>7, <1>10, <2>3, <3>4
      <3> QED
        BY <3>1, <3>2, <3>5, <3>6
    <2> QED
      BY <1>2, <2>1, <2>2, <2>3
  <1>11. Ledger(bb, gg)'
    BY <1>3, <1>6, <1>8, <1>9, <1>10, <1>13 DEF Ledger, After, Gain, ResetBy
  <1>12. bb \in [1..End' -> Nat] /\ gg \in [1..End' -> Nat]
    BY <1>3, <1>6, <1>10
  <1> QED
    BY <1>2, <1>3, <1>7, <1>10, <1>11, <1>12 DEF Extends

\* An attempt's own part of a step, with an event or without.
Carries(r, consumed, reported) ==
    \E rec \in RunRecord :
        /\ Step(r, rec) /\ ~rec.orphan
        /\ rec.pc \in Live => run[r].pc \in Live
        /\ \A b, g \in Nat :
              (run[r].pc \in Live => Level(run[r], b, g, spent, told, missed))
              /\ g <= spent /\ told <= g + missed
              => /\ rec.pc \in Live => Level(rec, b, g, consumed, reported, missed)
                 /\ reported <= g + missed

CarriesEvent(r, e, consumed) ==
    \E rec \in RunRecord :
        /\ Step(r, rec) /\ ~rec.orphan
        /\ run[r].pc \in Live
        /\ \A b, g \in Nat :
              Level(run[r], b, g, spent, told, missed) /\ g <= spent /\ told <= g + missed
              => /\ Level(rec, After(b, e), g + Gain(b, e), consumed, told, missed)
                 /\ g + Gain(b, e) <= consumed

\* The other attempts are not live, or do not change.
LEMMA OthersRest ==
    ASSUME Sound, Balanced, NEW r \in Runs, NEW rec \in RunRecord, Step(r, rec), ~rec.orphan,
           rec.pc \in Live => run[r].pc \in Live, entry' = entry
    PROVE  /\ run'[r] = rec
           /\ \A q \in Runs : ~run'[q].orphan /\ (run'[q].pc \in Live => entry'.run = q)
           /\ \A q \in Runs \ {r} : run'[q] = run[q]
  BY DEF Sound, Balanced, Step

LEMMA CarriesBalanced ==
    ASSUME Sound, Balanced, NEW r \in Runs, Carries(r, spent', told'),
           spent' \in Nat, told' \in Nat, spent <= spent', told' = told \/ run[r].pc \in Live,
           UNCHANGED <<backlog, entry, totals, missed>>
    PROVE  Balanced'
  <1>1. PICK rec \in RunRecord :
          /\ Step(r, rec) /\ ~rec.orphan
          /\ rec.pc \in Live => run[r].pc \in Live
          /\ \A b, g \in Nat :
                (run[r].pc \in Live => Level(run[r], b, g, spent, told, missed))
                /\ g <= spent /\ told <= g + missed
                => /\ rec.pc \in Live => Level(rec, b, g, spent', told', missed)
                   /\ told' <= g + missed
    BY DEF Carries
  <1>2. /\ run'[r] = rec
        /\ \A q \in Runs : ~run'[q].orphan /\ (run'[q].pc \in Live => entry'.run = q)
        /\ \A q \in Runs \ {r} : run'[q] = run[q]
    BY <1>1, OthersRest
  <1>3. PICK base, gain \in [1..End -> Nat] :
          /\ Ledger(base, gain)
          /\ \A k \in 1..End : gain[k] <= spent
          /\ told <= gain[End] + missed
          /\ \A q \in Runs : run[q].pc \in Live =>
                Level(run[q], base[End], gain[End], spent, told, missed)
    BY DEF Balanced
  <1>4. End \in Nat \ {0} /\ End' = End /\ spent \in Nat /\ missed \in Nat
    BY DEF End, Sound, RestOK
  <1>5. base[End] \in Nat /\ gain[End] \in Nat /\ gain[End] <= spent
    BY <1>3, <1>4
  <1>6. /\ rec.pc \in Live => Level(rec, base[End], gain[End], spent', told', missed)
        /\ told' <= gain[End] + missed
    BY <1>1, <1>3, <1>5
  <1>7. ASSUME NEW q \in Runs, run'[q].pc \in Live
        PROVE  Level(run'[q], base[End], gain[End], spent', told', missed)
    <2>1. CASE q = r
      BY <1>2, <1>6, <1>7, <2>1
    <2>2. CASE q # r
      <3>1. run'[q] = run[q] /\ run[q].pc \in Live
        BY <1>2, <1>7, <2>2
      <3>2. entry.run = q
        BY <3>1 DEF Balanced
      <3>3. run[r].pc \notin Live
        BY <2>2, <3>2 DEF Balanced
      <3>4. told' = told
        BY <3>3
      <3>5. Level(run[q], base[End], gain[End], spent, told, missed)
        BY <1>3, <3>1
      <3>6. run[q].use \in Nat
        BY RecordOf DEF RunRecord
      <3> QED
        BY <1>4, <1>5, <3>1, <3>4, <3>5, <3>6 DEF Level
    <2> QED
      BY <2>1, <2>2
  <1>8. Ledger(base, gain)'
    BY <1>3, <1>4 DEF Ledger, End
  <1>9. \A k \in 1..End : gain[k] <= spent'
    BY <1>3, <1>4
  <1> QED
    BY <1>2, <1>3, <1>4, <1>6, <1>7, <1>8, <1>9 DEF Balanced

LEMMA CarriesEventBalanced ==
    ASSUME Sound, Balanced, NEW r \in Runs, NEW e \in Event, CarriesEvent(r, e, spent'),
           spent' \in Nat, spent <= spent', backlog' = Append(backlog, e),
           UNCHANGED <<entry, totals, missed, told>>
    PROVE  Balanced'
  <1>1. PICK rec \in RunRecord :
          /\ Step(r, rec) /\ ~rec.orphan
          /\ run[r].pc \in Live
          /\ \A b, g \in Nat :
                Level(run[r], b, g, spent, told, missed) /\ g <= spent /\ told <= g + missed
                => /\ Level(rec, After(b, e), g + Gain(b, e), spent', told, missed)
                   /\ g + Gain(b, e) <= spent'
    BY DEF CarriesEvent
  <1>2. /\ run'[r] = rec
        /\ \A q \in Runs : ~run'[q].orphan /\ (run'[q].pc \in Live => entry'.run = q)
        /\ \A q \in Runs \ {r} : run'[q] = run[q]
    BY <1>1, OthersRest
  <1>3. PICK base, gain \in [1..End -> Nat] :
          /\ Ledger(base, gain)
          /\ \A k \in 1..End : gain[k] <= spent
          /\ told <= gain[End] + missed
          /\ \A q \in Runs : run[q].pc \in Live =>
                Level(run[q], base[End], gain[End], spent, told, missed)
    BY DEF Balanced
  <1>4. /\ End \in Nat \ {0} /\ spent \in Nat /\ missed \in Nat /\ told \in Nat
        /\ End' = End + 1
    BY DEF End, Sound, RestOK
  <1>5. PICK b \in Nat, g \in Nat : b = base[End] /\ g = gain[End] /\ g <= spent
    BY <1>3, <1>4
  <1>6. PICK b2, g2 \in [1..End' -> Nat] :
              /\ Ledger(b2, g2)'
              /\ b2[End'] = After(base[End], e)
              /\ g2[End'] = gain[End] + Gain(base[End], e)
              /\ \A k \in 1..End : g2[k] = gain[k]
    <2>1. Extends(base, gain, e)
      BY <1>3, LedgerAppend
    <2> QED
      BY <2>1 DEF Extends
  <1>7. b2[End'] = After(b, e) /\ g2[End'] = g + Gain(b, e)
    BY <1>5, <1>6
  <1>8. /\ Level(rec, After(b, e), g + Gain(b, e), spent', told, missed)
        /\ g + Gain(b, e) <= spent' /\ Gain(b, e) \in Nat /\ After(b, e) \in Nat
    BY <1>1, <1>3, <1>5, GainType
  <1>9. \A q \in Runs : run'[q].pc \in Live => q = r
    BY <1>1, <1>2 DEF Balanced
  <1>10. PICK bn \in Nat, gn \in Nat : bn = After(b, e) /\ gn = g + Gain(b, e)
    BY <1>5, <1>8
  <1>11. Level(rec, bn, gn, spent', told, missed) /\ bn = b2[End'] /\ gn = g2[End']
    BY <1>7, <1>8, <1>10
  <1>12. \A q \in Runs : run'[q].pc \in Live =>
            Level(run'[q], b2[End'], g2[End'], spent', told', missed')
    BY <1>2, <1>9, <1>11
  <1>13. \A k \in 1..End' : g2[k] <= spent'
    <2>1. \A k \in 1..End : g2[k] \in Nat /\ g2[k] <= spent
      BY <1>3, <1>4, <1>6
    <2>2. g2[End'] <= spent'
      BY <1>7, <1>8
    <2>3. ASSUME NEW k \in 1..End' PROVE g2[k] <= spent'
      <3>1. k \in 1..End \/ k = End'
        BY <1>4
      <3>2. CASE k \in 1..End
        <4>1. g2[k] \in Nat /\ g2[k] <= spent
          BY <2>1, <3>2
        <4> QED
          BY <1>4, <4>1
      <3> QED
        BY <2>2, <3>1, <3>2
    <2> QED
      BY <2>3
  <1>14. told' <= g2[End'] + missed'
    <2>1. PICK more \in Nat : more = Gain(b, e)
      BY <1>8
    <2>2. told <= g + missed
      BY <1>3, <1>5
    <2>3. PICK reported \in Nat, lost \in Nat : reported = told /\ lost = missed
      BY <1>4
    <2>4. reported <= (g + more) + lost
      <3>1. reported <= g + lost
        BY <2>2, <2>3
      <3> QED
        BY <3>1
    <2> QED
      BY <1>7, <2>1, <2>3, <2>4
  <1> QED
    BY <1>2, <1>6, <1>12, <1>13, <1>14 DEF Balanced

\* The record an attempt has after its step.
LEMMA TookStep ==
    ASSUME Sound, NEW r \in Runs, Fits(r)
    PROVE  run'[r] \in RunRecord /\ Step(r, run'[r])
  <1>1. PICK rec \in RunRecord : Step(r, rec)
    BY DEF Fits
  <1>2. run'[r] = rec
    BY <1>1 DEF Step, Sound
  <1> QED
    BY <1>1, <1>2

\* Outside of a turn there is nothing the orchestrator has yet to hear of.
LEMMA SettledBalanced ==
    ASSUME Sound, Balanced, NEW r \in Runs, Fits(r), ~run'[r].orphan,
           run'[r].pc \in Live => run[r].pc \in Live,
           run'[r].pc \notin Open, run'[r].sess <= run[r].sess,
           UNCHANGED <<backlog, entry, totals, missed, spent, told>>
    PROVE  Balanced'
  <1>1. PICK rec \in RunRecord : rec = run'[r] /\ Step(r, rec)
    BY TookStep
  <1>2. /\ run[r].sess \in Nat /\ rec.sess \in Nat /\ spent \in Nat /\ told \in Nat
        /\ missed \in Nat
    BY RecordOf DEF RunRecord, Sound, RestOK
  <1>3. ASSUME NEW b \in Nat, NEW g \in Nat, rec.pc \in Live,
               run[r].pc \in Live => Level(run[r], b, g, spent, told, missed)
        PROVE  Level(rec, b, g, spent, told, missed)
    BY <1>1, <1>2, <1>3 DEF Level
  <1>4. Carries(r, spent, told)
    BY <1>1, <1>3 DEF Carries
  <1> QED
    BY <1>2, <1>4, CarriesBalanced

\* A turn starts, and its baseline with it.
LEMMA StartedBalanced ==
    ASSUME Sound, Balanced, NEW r \in Runs, Fits(r), ~run'[r].orphan, run[r].pc \in Live,
           run'[r].pc \in Open => run'[r].use = 0, run'[r].sess = run[r].sess,
           backlog' = Append(backlog, Started),
           UNCHANGED <<entry, totals, missed, spent, told>>
    PROVE  Balanced'
  <1>1. PICK rec \in RunRecord : rec = run'[r] /\ Step(r, rec)
    BY TookStep
  <1>2. /\ run[r].sess \in Nat /\ spent \in Nat /\ told \in Nat /\ missed \in Nat
        /\ rec.sess = run[r].sess
    BY <1>1, RecordOf DEF RunRecord, Sound, RestOK
  <1>3. \A b \in Nat : After(b, Started) = 0 /\ Gain(b, Started) = 0
    BY DEF After, Gain, ResetBy, Started, NoUsage
  <1>4. ASSUME NEW b \in Nat, NEW g \in Nat, g <= spent,
               Level(run[r], b, g, spent, told, missed)
        PROVE  /\ Level(rec, After(b, Started), g + Gain(b, Started), spent, told, missed)
               /\ g + Gain(b, Started) <= spent
    <2>1. Level(rec, 0, g, spent, told, missed)
      BY <1>1, <1>2, <1>4 DEF Level
    <2>2. g + 0 = g
      BY <1>4
    <2> QED
      BY <1>3, <1>4, <2>1, <2>2
  <1>5. CarriesEvent(r, Started, spent)
    BY <1>1, <1>4 DEF CarriesEvent
  <1>6. Started \in Event
    BY EventType
  <1> QED
    BY <1>2, <1>5, <1>6, CarriesEventBalanced

\* Tokens are consumed, and not told of yet.
LEMMA ConsumedBalanced ==
    ASSUME Sound, Balanced, NEW r \in Runs, Fits(r), ~run'[r].orphan,
           run[r].pc \in Open, NEW extra \in Nat, run'[r].use = run[r].use + extra,
           run'[r].sess = run[r].sess, spent' = spent + extra,
           UNCHANGED <<backlog, entry, totals, missed, told>>
    PROVE  Balanced'
  <1>1. PICK rec \in RunRecord : rec = run'[r] /\ Step(r, rec)
    BY TookStep
  <1>2. /\ run[r].sess \in Nat /\ run[r].use \in Nat /\ spent \in Nat /\ told \in Nat
        /\ missed \in Nat /\ rec.sess = run[r].sess /\ rec.use = run[r].use + extra
        /\ run[r].pc \in Live
    BY <1>1, RecordOf DEF RunRecord, Sound, RestOK, Live, InSession, InTurn, Open
  <1>3. ASSUME NEW b \in Nat, NEW g \in Nat, Level(run[r], b, g, spent, told, missed)
        PROVE  Level(rec, b, g, spent', told, missed)
    BY <1>2, <1>3 DEF Level
  <1>4. Carries(r, spent', told')
    BY <1>1, <1>2, <1>3 DEF Carries
  <1> QED
    BY <1>2, <1>4, CarriesBalanced

\* The sums behind an event that tells of n tokens, `use` of them consumed before.
LEMMA Sums ==
    ASSUME NEW b \in Nat, NEW g \in Nat, NEW use \in Nat, NEW extra \in Nat, NEW n \in Nat,
           NEW consumed \in Nat, NEW reported \in Nat, NEW lost \in Nat, NEW sess \in Nat,
           g <= consumed, b <= use, g + use <= consumed + b,
           reported + sess + b <= g + lost, n <= use + extra
    PROVE  /\ n > b => /\ g + (n - b) <= consumed + extra
                       /\ reported + sess + n <= g + (n - b) + lost
           /\ ~(n > b) => reported + sess + n <= g + lost
  OBVIOUS

\* A line tells how much the turn has consumed.
LEMMA ProgressBalanced ==
    ASSUME Sound, Balanced, NEW r \in Runs, Fits(r), ~run'[r].orphan,
           run[r].pc \in Open, run'[r].use = run[r].use + 1,
           run'[r].sess = run[r].sess, spent' = spent + 1,
           backlog' = Append(backlog, Progress(run[r].use + 1)),
           UNCHANGED <<entry, totals, missed, told>>
    PROVE  Balanced'
  <1>1. PICK rec \in RunRecord : rec = run'[r] /\ Step(r, rec)
    BY TookStep
  <1>2. /\ run[r].sess \in Nat /\ run[r].use \in Nat /\ spent \in Nat /\ told \in Nat
        /\ missed \in Nat /\ rec.sess = run[r].sess /\ rec.use = run[r].use + 1
        /\ run[r].pc \in Live
    BY <1>1, RecordOf DEF RunRecord, Sound, RestOK, Live, InSession, InTurn, Open
  <1>3. PICK n \in Nat : n = run[r].use + 1
    BY <1>2
  <1>4. PICK e \in Event : e = Progress(n)
    BY EventType
  <1>5. e.n = n /\ e.kind = "progress" /\ n # NoUsage
    BY <1>4 DEF Progress, NoUsage
  <1>6. ASSUME NEW b \in Nat, NEW g \in Nat, Level(run[r], b, g, spent, told, missed)
        PROVE  /\ Level(rec, After(b, e), g + Gain(b, e), spent', told, missed)
               /\ g + Gain(b, e) <= spent'
    <2>1. b <= run[r].use
      BY <1>6 DEF Level
    <2>2. After(b, e) = n /\ Gain(b, e) = n - b
      BY <1>2, <1>3, <1>5, <2>1 DEF After, Gain, ResetBy
    <2>3. /\ g + run[r].use <= spent + b
          /\ told + run[r].sess + b <= g + missed
      BY <1>6 DEF Level
    <2>8. PICK use \in Nat, sess \in Nat, consumed \in Nat, reported \in Nat, lost \in Nat :
             /\ use = run[r].use /\ sess = run[r].sess /\ consumed = spent
             /\ reported = told /\ lost = missed
      BY <1>2
    <2>9. g + (n - b) <= consumed + 1 /\ reported + sess + n <= g + (n - b) + lost
      <3>1. n = use + 1
        BY <1>3, <2>8
      <3>2. g + use <= consumed + b
        BY <2>3, <2>8
      <3>3. b <= use
        BY <2>1, <2>8
      <3>4. reported + sess + b <= g + lost
        BY <2>3, <2>8
      <3>5. g + (n - b) <= consumed + 1
        BY <3>1, <3>2
      <3>6. reported + sess + n <= g + (n - b) + lost
        BY <3>4
      <3> QED
        BY <3>5, <3>6
    <2>4. PICK gn \in Nat : gn = g + (n - b)
      BY <1>2, <1>3, <2>1
    <2>5. gn <= spent' /\ gn + n <= spent' + n /\ told + rec.sess + n <= gn + missed
      BY <1>2, <1>3, <2>4, <2>8, <2>9
    <2>6. told + rec.sess <= gn + missed
      BY <1>2, <2>5
    <2>7. Level(rec, n, gn, spent', told, missed)
      BY <1>2, <1>3, <2>5, <2>6 DEF Level
    <2> QED
      BY <2>2, <2>4, <2>5, <2>7
  <1>7. CarriesEvent(r, e, spent')
    BY <1>1, <1>2, <1>6 DEF CarriesEvent
  <1>8. backlog' = Append(backlog, e)
    BY <1>3, <1>4
  <1> QED
    BY <1>2, <1>7, <1>8, CarriesEventBalanced

\* A turn ends with a usage that is at most what it has consumed, or with none.
LEMMA CompletedBalanced ==
    ASSUME Sound, Balanced, NEW r \in Runs, Fits(r), ~run'[r].orphan,
           run[r].pc \in Open, NEW extra \in Nat, NEW usage \in Nat \cup {NoUsage},
           usage <= run[r].use + extra, run'[r].pc \notin Open, spent' = spent + extra,
           run'[r].sess = run[r].sess + (IF usage = NoUsage THEN 0 ELSE usage),
           backlog' = Append(backlog, Completed(usage)),
           UNCHANGED <<entry, totals, missed, told>>
    PROVE  Balanced'
  <1>1. PICK rec \in RunRecord : rec = run'[r] /\ Step(r, rec)
    BY TookStep
  <1>2. /\ run[r].sess \in Nat /\ run[r].use \in Nat /\ spent \in Nat /\ told \in Nat
        /\ missed \in Nat /\ run[r].pc \in Live /\ rec.pc \notin Open
        /\ rec.sess = run[r].sess + (IF usage = NoUsage THEN 0 ELSE usage)
    BY <1>1, RecordOf DEF RunRecord, Sound, RestOK, Live, InSession, InTurn, Open
  <1>3. PICK e \in Event : e = Completed(usage)
    BY EventType
  <1>4. e.n = usage /\ e.kind = "completed" /\ NoUsage = -1
    BY <1>3 DEF Completed, NoUsage
  <1>5. ASSUME NEW b \in Nat, NEW g \in Nat, Level(run[r], b, g, spent, told, missed),
               g <= spent
        PROVE  /\ Level(rec, After(b, e), g + Gain(b, e), spent', told, missed)
               /\ g + Gain(b, e) <= spent'
    <2>1. Gain(b, e) = IF usage > b THEN usage - b ELSE 0
      BY <1>4 DEF Gain, ResetBy
    <2>2. /\ b <= run[r].use /\ g + run[r].use <= spent + b
          /\ told + run[r].sess + b <= g + missed
      BY <1>5 DEF Level
    <2>3. PICK gain \in Nat : gain = Gain(b, e)
      BY <1>4, GainType
    <2>6. PICK use \in Nat, sess \in Nat, consumed \in Nat, reported \in Nat, lost \in Nat :
             /\ use = run[r].use /\ sess = run[r].sess /\ consumed = spent
             /\ reported = told /\ lost = missed
      BY <1>2
    <2>7. /\ b <= use /\ g + use <= consumed + b /\ reported + sess + b <= g + lost
          /\ g <= consumed /\ usage <= use + extra
      BY <1>5, <2>2, <2>6
    <2>4. g + gain <= spent + extra /\ told + rec.sess <= g + gain + missed
      <3>1. CASE usage = NoUsage
        <4>1. gain = 0 /\ rec.sess = run[r].sess
          BY <1>2, <1>4, <2>1, <2>3, <3>1
        <4>2. reported + sess <= g + lost /\ g <= consumed + extra
          <5>1. reported + sess <= g + lost
            BY <2>7
          <5>2. g <= consumed + extra
            BY <2>7
          <5> QED
            BY <5>1, <5>2
        <4>3. rec.sess = sess
          BY <2>6, <4>1
        <4>4. g + gain = g /\ reported + rec.sess = reported + sess
          BY <4>1, <4>3
        <4> QED
          BY <2>6, <4>2, <4>4
      <3>2. CASE usage # NoUsage /\ usage > b
        <4>1. gain = usage - b /\ rec.sess = run[r].sess + usage /\ usage \in Nat
          BY <1>2, <2>1, <2>3, <3>2
        <4>2. PICK n \in Nat : n = usage /\ n > b
          BY <3>2, <4>1
        <4>3. /\ g + (n - b) <= consumed + extra
              /\ reported + sess + n <= g + (n - b) + lost
          BY <1>5, <2>7, <4>2, Sums
        <4>4. gain = n - b /\ rec.sess = sess + n
          BY <2>6, <4>1, <4>2
        <4>5. reported + rec.sess = reported + sess + n
          BY <4>4
        <4> QED
          BY <2>6, <4>3, <4>4, <4>5
      <3>3. CASE usage # NoUsage /\ ~(usage > b)
        <4>1. gain = 0 /\ rec.sess = run[r].sess + usage /\ usage \in Nat
          BY <1>2, <2>1, <2>3, <3>3
        <4> QED
          <5>1. PICK n \in Nat : n = usage /\ ~(n > b)
            BY <3>3, <4>1
          <5>2. reported + sess + n <= g + lost
            BY <1>5, <2>7, <5>1, Sums
          <5>3. reported + rec.sess = reported + sess + n
            BY <2>6, <4>1, <5>1
          <5>4. told + rec.sess <= g + missed
            BY <2>6, <5>2, <5>3
          <5>5. g + gain = g /\ g <= consumed + extra
            BY <2>7, <4>1
          <5> QED
            BY <2>6, <5>4, <5>5
      <3> QED
        BY <3>1, <3>2, <3>3
    <2>5. g + gain <= spent'
      BY <2>4
    <2> QED
      BY <1>2, <2>3, <2>4, <2>5 DEF Level
  <1>6. CarriesEvent(r, e, spent')
    BY <1>1, <1>2, <1>5 DEF CarriesEvent
  <1>7. spent' \in Nat /\ spent <= spent'
    BY <1>2
  <1> QED
    BY <1>3, <1>6, <1>7, CarriesEventBalanced

\* What has been counted stays in balance, whatever an attempt does.
LEMMA RunnerBalanced ==
    ASSUME Sound, Balanced, ~cut', NEW r \in Runs, RunnerStep(r) \/ Output(r)
    PROVE  Balanced'
  <1>1. /\ run \in [Runs -> RunRecord] /\ run[r] \in RunRecord /\ ~run[r].orphan
        /\ run[r].sess \in Nat /\ run[r].use \in Nat /\ spent \in Nat
    BY RecordOf DEF Sound, Balanced, RestOK, RunRecord
  <1>2. UNCHANGED <<entry, totals, missed>>
    BY RunnerAside
  <1>3. ASSUME NEW rec, Step(r, rec) PROVE run'[r] = rec
    BY <1>1, <1>3 DEF Step
  <1>4. ASSUME Leave(r), Fits(r), UNCHANGED <<backlog, spent, told>> PROVE Balanced'
    <2>1. run'[r] = [Idle EXCEPT !.pc = "over"]
      BY <1>1, <1>4 DEF Leave, Step
    <2>2. /\ run'[r].pc = "over" /\ ~run'[r].orphan /\ run'[r].sess = 0
          /\ "over" \notin Live /\ "over" \notin Open
      BY <2>1 DEF Idle, Live, Preparing, InSession, InTurn, Open
    <2> QED
      BY <1>1, <1>2, <1>4, <2>2, SettledBalanced
  <1>5. ASSUME NEW rec \in RunRecord, rec.sess = run[r].sess, rec.orphan = run[r].orphan,
               run[r].pc \in Live, Step(r, Stop(rec)), UNCHANGED <<backlog, spent, told>>
        PROVE  Balanced'
    <2>1. run'[r] = Stop(rec)
      BY <1>1, <1>5 DEF Step
    <2>2. /\ run'[r].pc = "after_run" /\ run'[r].orphan = rec.orphan
          /\ run'[r].sess = rec.sess /\ "after_run" \notin Open
      BY <1>5, <2>1 DEF Stop, RunRecord, Open
    <2>3. Fits(r)
      BY <1>5, StopFits
    <2> QED
      BY <1>1, <1>2, <1>5, <2>2, <2>3, SettledBalanced
  <1>6. CASE Ensure(r) \/ AfterCreate(r) \/ BeforeRun(r) \/ BuildFor(r) \/ StartSession(r)
    <2>1. Fits(r) /\ UNCHANGED <<backlog, spent, told>> /\ run[r].pc \in Live
      BY <1>6, PrepareSound
        DEF Ensure, AfterCreate, BeforeRun, BuildFor, StartSession, Quiet, At, Live, Preparing
    <2>2. \/ Leave(r)
          \/ Step(r, Stop(run[r]))
          \/ /\ run'[r].pc \notin Open
             /\ run'[r].orphan = run[r].orphan /\ run'[r].sess = run[r].sess
      <3>1. CASE Ensure(r)
        <4>1. PICK pc \in {"after_create", "before_run"} :
                 pc = IF CreatedNow /\ "after_create" \in cfg.hooks
                      THEN "after_create" ELSE "before_run"
          OBVIOUS
        <4> DEFINE new == [run[r] EXCEPT !.at = dir'.gen, !.pc = pc]
        <4>2. Leave(r) \/ Step(r, new)
          BY <3>1, <4>1 DEF Ensure
        <4>3. new.pc \notin Open /\ new.orphan = run[r].orphan /\ new.sess = run[r].sess
          BY <1>1 DEF RunRecord, Open
        <4> HIDE DEF new
        <4> QED
          BY <1>3, <4>2, <4>3
      <3>2. CASE AfterCreate(r)
        BY <1>1, <1>3, <3>2 DEF AfterCreate, RunRecord, Open
      <3>3. CASE BeforeRun(r)
        BY <1>1, <1>3, <3>3 DEF BeforeRun, RunRecord, Open
      <3>4. CASE BuildFor(r)
        <4> DEFINE new == [run[r] EXCEPT !.pc = "start", !.agent = cfg.agent[run[r].st]]
        <4>1. Leave(r) \/ Step(r, new)
          BY <3>4 DEF BuildFor
        <4>2. new.pc \notin Open /\ new.orphan = run[r].orphan /\ new.sess = run[r].sess
          BY <1>1 DEF RunRecord, Open
        <4> HIDE DEF new
        <4> QED
          BY <1>3, <4>1, <4>2
      <3>5. CASE StartSession(r)
        <4>1. run[r].agent \in Agents
          <5>1. run[r].st \in ActiveStates /\ run[r].agent = cfg.agent[run[r].st]
            BY <3>5, RecordOf DEF StartSession, At, Fit, Preparing
          <5> QED
            BY <5>1, ConfigType DEF Sound, RestOK
        <4> DEFINE opened == [run[r] EXCEPT !.pc = "turn", !.turn = 1, !.started = TRUE]
        <4>2. \/ Step(r, StartRaw(opened)) \/ Step(r, StartCli(opened))
              \/ Step(r, Stop(run[r]))
          BY <3>5, <4>1 DEF StartSession, StartStub, Agents, RawProviders, CliProviders
        <4>3. CASE Step(r, StartRaw(opened)) \/ Step(r, StartCli(opened))
          <5>1. run'[r] = StartRaw(opened) \/ run'[r] = StartCli(opened)
            BY <1>3, <4>3
          <5>2. opened.pc = "turn" /\ opened.orphan = run[r].orphan /\ opened.sess = run[r].sess
            BY <1>1 DEF RunRecord
          <5> HIDE DEF opened
          <5>3. /\ StartRaw(opened).pc = opened.pc /\ StartCli(opened).pc = opened.pc
                /\ StartRaw(opened).orphan = opened.orphan
                /\ StartCli(opened).orphan = opened.orphan
                /\ StartRaw(opened).sess = opened.sess /\ StartCli(opened).sess = opened.sess
            BY DEF StartRaw, StartCli
          <5> QED
            BY <5>1, <5>2, <5>3 DEF Open
        <4> QED
          BY <4>2, <4>3
      <3> QED
        BY <1>6, <3>1, <3>2, <3>3, <3>4, <3>5
    <2> QED
      BY <1>1, <1>2, <1>4, <1>5, <2>1, <2>2, SettledBalanced
  <1>7. CASE PromptFails(r) \/ DeadlinePassed(r) \/ (Child(r) /\ ChildFails(r))
    <2>1. Step(r, Stop(run[r])) /\ UNCHANGED <<backlog, spent, told>> /\ run[r].pc \in Live
      BY <1>7 DEF PromptFails, DeadlinePassed, ChildFails, Quiet, At, Live, InSession, InTurn
    <2> QED
      BY <1>1, <1>5, <2>1
  <1>8. CASE RawBegin(r)
    <2>1. Fits(r)
      BY <1>8, RawSound
    <2>2. /\ backlog' = Append(backlog, Started) /\ UNCHANGED <<spent, told>>
          /\ run[r].pc \in Live
      BY <1>8 DEF RawBegin, At, Live, InSession, InTurn
    <2>3. /\ run'[r].use = 0 /\ run'[r].orphan = run[r].orphan
          /\ run'[r].sess = run[r].sess
      BY <1>1, <1>3, <1>8 DEF RawBegin, RunRecord
    <2> QED
      BY <1>1, <1>2, <2>1, <2>2, <2>3, StartedBalanced
  <1>9. CASE Child(r) /\ SpawnChild(r)
    <2>1. Fits(r)
      BY <1>9, ChildSound
    <2>2. /\ backlog' = Append(backlog, Started) /\ UNCHANGED <<spent, told>>
          /\ run[r].pc \in Live
      BY <1>9 DEF SpawnChild, At, Live, InSession, InTurn
    <2>3. /\ run'[r].pc \in Open => run'[r].use = 0
          /\ run'[r].orphan = run[r].orphan /\ run'[r].sess = run[r].sess
      <3>1. CASE Step(r, [run[r] EXCEPT !.pc = "stdin", !.use = 0])
        BY <1>1, <1>3, <3>1 DEF RunRecord
      <3>2. CASE Step(r, Stop(run[r]))
        <4>1. run'[r] = Stop(run[r])
          BY <1>3, <3>2
        <4> QED
          BY <1>1, <4>1 DEF Stop, RunRecord, Open
      <3> QED
        BY <1>9, <3>1, <3>2 DEF SpawnChild
    <2> QED
      BY <1>1, <1>2, <2>1, <2>2, <2>3, StartedBalanced
  <1>10. ASSUME NEW rec \in RunRecord, rec.sess = run[r].sess, rec.orphan = run[r].orphan,
                rec.use = run[r].use, run[r].pc \in Open, AfterAnswer(r, rec), Fits(r),
                UNCHANGED <<spent, told>>
         PROVE  Balanced'
    <2>1. run[r].pc \in Live
      BY <1>10 DEF Open, Live, InSession, InTurn
    <2>2. CASE CompleteTurn(r, rec, rec.use)
      <3>1. /\ backlog' = Append(backlog, Completed(rec.use))
            /\ rec.use \in Nat /\ rec.use # NoUsage
        BY <1>1, <1>10, <2>2 DEF CompleteTurn, NoUsage
      <3>2. /\ run'[r].pc = "refresh" /\ run'[r].orphan = rec.orphan
            /\ run'[r].sess = rec.sess + (IF rec.use = NoUsage THEN 0 ELSE rec.use)
        BY <1>3, <1>10, <2>2 DEF CompleteTurn, RunRecord
      <3>3. PICK usage \in Nat \cup {NoUsage} : usage = rec.use
        BY <3>1
      <3>4. /\ run'[r].sess = run[r].sess + (IF usage = NoUsage THEN 0 ELSE usage)
            /\ usage <= run[r].use + 0 /\ spent' = spent + 0 /\ 0 \in Nat
        BY <1>1, <1>10, <3>2, <3>3
      <3>5. /\ backlog' = Append(backlog, Completed(usage)) /\ run'[r].pc \notin Open
            /\ ~run'[r].orphan
        BY <1>1, <1>10, <3>1, <3>2, <3>3 DEF Open
      <3> QED
        BY <1>2, <1>10, <3>4, <3>5, CompletedBalanced
    <2>3. CASE Step(r, [rec EXCEPT !.pc = "tools"]) /\ UNCHANGED backlog
      <3>1. /\ run'[r].use = run[r].use + 0 /\ run'[r].orphan = run[r].orphan
            /\ run'[r].sess = run[r].sess
        BY <1>1, <1>3, <1>10, <2>3 DEF RunRecord
      <3>2. spent' = spent + 0 /\ 0 \in Nat
        BY <1>1, <1>10
      <3> QED
        BY <1>1, <1>2, <1>10, <2>3, <3>1, <3>2, ConsumedBalanced
    <2>4. CASE Step(r, [rec EXCEPT !.pc = "call", !.iter = @ + 1]) /\ UNCHANGED backlog
      <3> DEFINE new == [rec EXCEPT !.pc = "call", !.iter = @ + 1]
      <3>3. new.use = rec.use /\ new.orphan = rec.orphan /\ new.sess = rec.sess
        BY <1>10 DEF RunRecord
      <3>4. run'[r] = new
        BY <1>3, <2>4
      <3> HIDE DEF new
      <3>5. run'[r].use = run[r].use
        BY <1>10, <3>3, <3>4
      <3>1. /\ run'[r].use = run[r].use + 0 /\ run'[r].orphan = run[r].orphan
            /\ run'[r].sess = run[r].sess
        BY <1>1, <1>10, <3>3, <3>4, <3>5
      <3>2. spent' = spent + 0 /\ 0 \in Nat
        BY <1>1, <1>10
      <3> QED
        BY <1>1, <1>2, <1>10, <2>4, <3>1, <3>2, ConsumedBalanced
    <2>5. CASE Step(r, Stop(rec)) /\ UNCHANGED backlog
      BY <1>5, <1>10, <2>1, <2>5
    <2> QED
      BY <1>10, <2>2, <2>3, <2>4, <2>5 DEF AfterAnswer, Next1
  <1>11. ASSUME At(r, "tools") \/ At(r, "write"), AfterAnswer(r, Answer(run[r])), Fits(r),
                UNCHANGED <<spent, told>>
         PROVE  Balanced'
    <2>1. Chatting(run[r]) /\ run[r].todo # <<>> /\ run[r].pc \in Open
      BY <1>11, ChattingOf, RecordOf DEF At, InTurn, Fit, Open
    <2>2. Answer(run[r]) \in RunRecord
      BY <2>1, AnswerChats DEF Chatting
    <2>3. /\ Answer(run[r]).sess = run[r].sess /\ Answer(run[r]).orphan = run[r].orphan
          /\ Answer(run[r]).use = run[r].use
      BY <1>1 DEF Answer, RunRecord
    <2>4. PICK rec \in RunRecord : rec = Answer(run[r])
      BY <2>2
    <2>5. AfterAnswer(r, rec)
      BY <1>11, <2>4
    <2> QED
      BY <1>10, <1>11, <2>1, <2>3, <2>4, <2>5
  <1>12. CASE RunTool(r)
    <2>1. /\ At(r, "tools") /\ UNCHANGED <<spent, told>> /\ Fits(r)
          /\ run[r].pc \in Live /\ run[r].pc \in Open
      BY <1>12, RawSound DEF RunTool, At, Live, InSession, InTurn, Open
    <2>2. \/ Step(r, Stop(run[r])) /\ UNCHANGED backlog
          \/ Step(r, [run[r] EXCEPT !.pc = "write"]) /\ UNCHANGED backlog
          \/ AfterAnswer(r, Answer(run[r]))
      <3>1. DispatchTool(Head(run[r].todo), dir.here) \in {"abort", "resolved", "answer"}
        BY DEF DispatchTool, RunShell, RunReadFile, RunWriteFile, RunEditFile, RunListDir,
               RunFileTool, ResolveInWorkspace
      <3> QED
        BY <1>12, <3>1 DEF RunTool
    <2>3. CASE Step(r, [run[r] EXCEPT !.pc = "write"]) /\ UNCHANGED backlog
      <3>1. /\ run'[r].use = run[r].use + 0 /\ run'[r].orphan = run[r].orphan
            /\ run'[r].sess = run[r].sess
        BY <1>1, <1>3, <2>3 DEF RunRecord
      <3>2. spent' = spent + 0 /\ 0 \in Nat
        BY <1>1, <2>1
      <3> QED
        BY <1>1, <1>2, <2>1, <2>3, <3>1, <3>2, ConsumedBalanced
    <2> QED
      BY <1>1, <1>5, <1>11, <2>1, <2>2, <2>3
  <1>13. CASE WriteFile(r)
    BY <1>11, <1>13, RawSound DEF WriteFile
  <1>14. CASE CallLlm(r)
    <2>1. PICK resp \in cfg.replies :
            LET reply == Parse(run[r].agent, resp)
                n     == Len(run[r].hist)
                calls == [k \in DOMAIN reply.calls |->
                            [id |-> <<n, k>>, tool |-> reply.calls[k].tool,
                                              args |-> reply.calls[k].args]]
                rec   == [run[r] EXCEPT
                            !.hist = Append(@, Assistant([text |-> reply.text, calls |-> calls])),
                            !.use = @ + reply.tokens, !.todo = calls, !.fin = FALSE]
            IN  \/ /\ reply = Failure
                   /\ Step(r, Stop(run[r]))
                   /\ UNCHANGED <<backlog, spent>>
                \/ /\ reply # Failure
                   /\ spent' = spent + reply.tokens
                   /\ IF calls = <<>> THEN CompleteTurn(r, rec, rec.use)
                      ELSE Step(r, [rec EXCEPT !.pc = "tools"]) /\ UNCHANGED backlog
      BY <1>14 DEF CallLlm
    <2> DEFINE reply == Parse(run[r].agent, resp)
               n     == Len(run[r].hist)
               calls == [k \in DOMAIN reply.calls |->
                           [id |-> <<n, k>>, tool |-> reply.calls[k].tool,
                                             args |-> reply.calls[k].args]]
               mess  == Assistant([text |-> reply.text, calls |-> calls])
               rec   == [run[r] EXCEPT !.hist = Append(@, mess), !.use = @ + reply.tokens,
                                       !.todo = calls, !.fin = FALSE]
    <2>2. /\ At(r, "call") /\ UNCHANGED told /\ Fits(r)
          /\ run[r].pc \in Live /\ run[r].pc \in Open
      BY <1>14, RawSound DEF CallLlm, At, Live, InSession, InTurn, Open
    <2>3. run[r].agent \in RawProviders /\ resp \in Responses
      BY <2>1, <2>2, RecordOf, ConfigType DEF At, Fit, Sound, RestOK
    <2>4. CASE reply = Failure
      BY <1>1, <1>5, <2>1, <2>2, <2>4
    <2>5. CASE reply # Failure
      <3>1. /\ spent' = spent + reply.tokens
            /\ IF calls = <<>> THEN CompleteTurn(r, rec, rec.use)
               ELSE Step(r, [rec EXCEPT !.pc = "tools"]) /\ UNCHANGED backlog
        BY <2>1, <2>5
      <3>2. reply.tokens \in Nat
        BY <2>3, <2>5, ParseType
      <3> HIDE DEF reply, calls, mess
      <3>3. /\ rec.use = run[r].use + reply.tokens /\ rec.sess = run[r].sess
            /\ rec.orphan = run[r].orphan
        BY <1>1 DEF RunRecord
      <3>4. PICK more \in Nat, used \in Nat :
               more = reply.tokens /\ used = rec.use /\ used = run[r].use + more
        BY <1>1, <3>2, <3>3
      <3>5. \A pc : /\ [rec EXCEPT !.pc = pc].use = rec.use
                    /\ [rec EXCEPT !.pc = pc].sess = rec.sess
                    /\ [rec EXCEPT !.pc = pc].orphan = rec.orphan
        BY <1>1 DEF RunRecord
      <3>6. ASSUME CompleteTurn(r, rec, rec.use)
            PROVE  /\ run'[r].pc = "refresh" /\ run'[r].orphan = rec.orphan
                   /\ run'[r].sess = rec.sess + (IF rec.use = NoUsage THEN 0 ELSE rec.use)
        <4>1. run'[r] = [rec EXCEPT !.pc = "refresh", !.todo = <<>>, !.use = 0,
                           !.sess = @ + (IF rec.use = NoUsage THEN 0 ELSE rec.use)]
          BY <1>3, <3>6 DEF CompleteTurn
        <4>2. PICK add : add = rec.sess + (IF rec.use = NoUsage THEN 0 ELSE rec.use)
          OBVIOUS
        <4>3. run'[r] = [rec EXCEPT !.pc = "refresh", !.todo = <<>>, !.use = 0, !.sess = add]
          BY <1>1, <4>1, <4>2 DEF RunRecord
        <4> QED
          BY <1>1, <4>2, <4>3 DEF RunRecord
      <3> HIDE DEF rec
      <3>7. CASE CompleteTurn(r, rec, rec.use)
        <4>1. /\ run'[r].pc = "refresh" /\ run'[r].orphan = rec.orphan
              /\ run'[r].sess = rec.sess + (IF rec.use = NoUsage THEN 0 ELSE rec.use)
          BY <3>6, <3>7
        <4>2. backlog' = Append(backlog, Completed(used)) /\ used \in Nat \cup {NoUsage}
          BY <3>4, <3>7 DEF CompleteTurn
        <4>3. /\ run'[r].sess = run[r].sess + (IF used = NoUsage THEN 0 ELSE used)
              /\ used <= run[r].use + more /\ spent' = spent + more
          BY <1>1, <3>1, <3>3, <3>4, <4>1
        <4>4. run'[r].pc \notin Open /\ ~run'[r].orphan
          BY <1>1, <3>3, <4>1 DEF Open
        <4> QED
          BY <1>2, <2>2, <3>4, <4>2, <4>3, <4>4, CompletedBalanced
      <3>8. CASE Step(r, [rec EXCEPT !.pc = "tools"]) /\ UNCHANGED backlog
        <4>1. run'[r] = [rec EXCEPT !.pc = "tools"]
          BY <1>3, <3>8
        <4>2. /\ run'[r].use = run[r].use + more /\ run'[r].sess = run[r].sess
              /\ run'[r].orphan = run[r].orphan
          BY <3>3, <3>4, <3>5, <4>1
        <4>3. spent' = spent + more
          BY <3>1, <3>4
        <4> QED
          BY <1>1, <1>2, <2>2, <3>4, <3>8, <4>2, <4>3, ConsumedBalanced
      <3> QED
        BY <3>1, <3>7, <3>8
    <2> QED
      BY <2>4, <2>5
  <1>15. CASE Child(r) /\ WriteStdin(r)
    <2>1. /\ Fits(r) /\ UNCHANGED <<backlog, spent, told>>
          /\ run[r].pc \in Live /\ run[r].pc \in Open
      BY <1>15, ChildSound DEF WriteStdin, Quiet, At, Live, InSession, InTurn, Open
    <2>2. CASE Step(r, Stop(run[r]))
      BY <1>1, <1>5, <2>1, <2>2
    <2>3. CASE \/ Step(r, [run[r] EXCEPT !.pc = "stream"])
               \/ Step(r, [run[r] EXCEPT !.stuck = TRUE])
      <3>1. /\ run'[r].use = run[r].use /\ run'[r].orphan = run[r].orphan
            /\ run'[r].sess = run[r].sess
        <4>1. \/ run'[r] = [run[r] EXCEPT !.pc = "stream"]
              \/ run'[r] = [run[r] EXCEPT !.stuck = TRUE]
          BY <1>3, <2>3
        <4> QED
          BY <1>1, <4>1 DEF RunRecord
      <3>2. run'[r].use = run[r].use + 0 /\ spent' = spent + 0 /\ 0 \in Nat
        BY <1>1, <2>1, <3>1
      <3> QED
        BY <1>1, <1>2, <2>1, <3>1, <3>2, ConsumedBalanced
    <2> QED
      BY <1>15, <2>2, <2>3 DEF WriteStdin
  <1>16. CASE Child(r) /\ FinishChild(r)
    <2>1. /\ Fits(r) /\ UNCHANGED <<spent, told>>
          /\ run[r].pc \in Live /\ run[r].pc \in Open
      BY <1>16, ChildSound DEF FinishChild, At, Live, InSession, InTurn, Open
    <2>2. PICK usage \in TerminalUsage(run[r].agent, run[r].use), parsed \in BOOLEAN :
            CompleteTurn(r, [run[r] EXCEPT !.thread = LearnThread(run[r], parsed),
                                           !.named = @ \/ parsed], usage)
      BY <1>16 DEF FinishChild
    <2>3. usage \in Nat \cup {NoUsage} /\ usage <= run[r].use
      BY <1>1 DEF TerminalUsage, OpenCodeUsage, CliUsage, NoUsage
    <2>4. backlog' = Append(backlog, Completed(usage))
      BY <2>2 DEF CompleteTurn
    <2>5. PICK thread, named : /\ thread = LearnThread(run[r], parsed)
                               /\ named = (run[r].named \/ parsed)
      OBVIOUS
    <2> DEFINE rec == [run[r] EXCEPT !.thread = thread, !.named = named]
    <2>6. CompleteTurn(r, rec, usage)
      BY <1>1, <2>2, <2>5 DEF RunRecord
    <2>7. PICK add : add = run[r].sess + (IF usage = NoUsage THEN 0 ELSE usage)
      OBVIOUS
    <2>8. run'[r] = [rec EXCEPT !.pc = "refresh", !.todo = <<>>, !.use = 0, !.sess = add]
      BY <1>1, <1>3, <2>6, <2>7 DEF CompleteTurn, RunRecord
    <2>9. run'[r].pc = "refresh" /\ run'[r].orphan = run[r].orphan /\ run'[r].sess = add
      BY <1>1, <2>8 DEF RunRecord
    <2>10. usage <= run[r].use + 0 /\ spent' = spent + 0 /\ 0 \in Nat
      BY <1>1, <2>1, <2>3
    <2>11. run'[r].pc \notin Open /\ ~run'[r].orphan
      BY <1>1, <2>9 DEF Open
    <2> QED
      BY <1>2, <2>1, <2>3, <2>4, <2>7, <2>9, <2>10, <2>11, CompletedBalanced
  <1>17. CASE Child(r) /\ ChildTimesOut(r)
    <2>1. PICK survives \in BOOLEAN : /\ Step(r, [Stop(run[r]) EXCEPT !.orphan = survives])
                                      /\ cut' = (cut \/ survives)
      BY <1>17 DEF ChildTimesOut
    <2>2. ~survives
      BY <2>1
    <2>3. /\ Fits(r) /\ UNCHANGED <<backlog, spent, told>>
          /\ run[r].pc \in Live
      BY <1>17, ChildSound DEF ChildTimesOut, At, Live, InSession, InTurn
    <2>4. run'[r] = [Stop(run[r]) EXCEPT !.orphan = survives]
      BY <1>3, <2>1
    <2>5. /\ run'[r].pc = "after_run" /\ ~run'[r].orphan /\ run'[r].sess = run[r].sess
          /\ "after_run" \notin Open
      BY <1>1, <2>2, <2>4 DEF Stop, RunRecord, Open
    <2> QED
      BY <1>1, <1>2, <2>3, <2>5, SettledBalanced
  <1>18. CASE Refresh(r)
    <2>1. /\ Fits(r) /\ UNCHANGED <<backlog, spent, told>> /\ run[r].pc \in Live
      BY <1>18, RefreshSound DEF Refresh, Quiet, At, Live, InSession, InTurn
    <2>2. CASE Step(r, Stop(run[r]))
      BY <1>1, <1>5, <2>1, <2>2
    <2>3. ASSUME NEW st, Step(r, [run[r] EXCEPT !.pc = "turn", !.turn = @ + 1, !.st = st])
          PROVE  Balanced'
      <3>1. PICK turn : turn = run[r].turn + 1
        OBVIOUS
      <3>2. run'[r] = [run[r] EXCEPT !.pc = "turn", !.turn = turn, !.st = st]
        BY <1>1, <1>3, <2>3, <3>1 DEF RunRecord
      <3>3. /\ run'[r].pc = "turn" /\ run'[r].orphan = run[r].orphan
            /\ run'[r].sess = run[r].sess /\ "turn" \notin Open
        BY <1>1, <3>2 DEF RunRecord, Open
      <3> QED
        BY <1>1, <1>2, <2>1, <3>3, SettledBalanced
    <2> QED
      BY <1>18, <2>2, <2>3 DEF Refresh
  <1>19. CASE AfterRun(r)
    <2>1. /\ Fits(r) /\ UNCHANGED <<backlog, spent>> /\ run[r].pc \in Live
          /\ told' = IF run[r].started THEN told + run[r].sess ELSE told
          /\ Step(r, [Idle EXCEPT !.pc = "over", !.orphan = run[r].orphan, !.use = run[r].use,
                         !.agent = IF run[r].orphan THEN run[r].agent ELSE "none"])
      BY <1>19, AfterRunSound DEF AfterRun, At, Live, InSession
    <2>2. PICK rec \in RunRecord : rec = run'[r] /\ Step(r, rec)
      BY <2>1, TookStep
    <2>3. rec.pc = "over" /\ rec.orphan = run[r].orphan /\ "over" \notin Live
      <3>1. PICK agent : agent = IF run[r].orphan THEN run[r].agent ELSE "none"
        OBVIOUS
      <3>2. rec = [Idle EXCEPT !.pc = "over", !.orphan = run[r].orphan, !.use = run[r].use,
                               !.agent = agent]
        BY <1>3, <2>1, <2>2, <3>1
      <3>3. rec.pc = "over" /\ rec.orphan = run[r].orphan
        BY <3>2 DEF Idle
      <3> QED
        BY <3>3 DEF Live, Preparing, InSession, InTurn
    <2>4. told \in Nat /\ told' \in Nat /\ missed \in Nat /\ told' <= told + run[r].sess
      <3>1. told \in Nat /\ missed \in Nat
        BY DEF Sound, RestOK
      <3> QED
        BY <1>1, <2>1, <3>1
    <2>5. ASSUME NEW b \in Nat, NEW g \in Nat, Level(run[r], b, g, spent, told, missed)
          PROVE  told' <= g + missed
      <3>1. told + run[r].sess <= g + missed
        BY <2>5 DEF Level
      <3> QED
        BY <1>1, <2>4, <3>1
    <2>6. Carries(r, spent, told')
      BY <1>1, <2>1, <2>2, <2>3, <2>5 DEF Carries
    <2>7. spent <= spent /\ spent' = spent
      BY <1>1, <2>1
    <2> QED
      BY <1>1, <1>2, <2>1, <2>4, <2>6, <2>7, CarriesBalanced
  <1>20. ASSUME Fits(r), StreamLine(r), At(r, "stream"), NEW named, UNCHANGED told,
                Step(r, [run[r] EXCEPT !.use = @ + 1, !.named = named])
         PROVE  Balanced'
    <2>1. run[r].pc \in Live /\ run[r].pc \in Open /\ spent' = spent + 1 /\ 1 \in Nat
      BY <1>20 DEF StreamLine, At, Live, InSession, InTurn, Open
    <2>2. PICK used : used = run[r].use + 1
      OBVIOUS
    <2>3. run'[r] = [run[r] EXCEPT !.use = used, !.named = named]
      BY <1>1, <1>3, <1>20, <2>2 DEF RunRecord
    <2>4. /\ run'[r].use = run[r].use + 1 /\ run'[r].orphan = run[r].orphan
          /\ run'[r].sess = run[r].sess
      BY <1>1, <2>2, <2>3 DEF RunRecord
    <2>5. CASE UNCHANGED backlog
      BY <1>1, <1>2, <1>20, <2>1, <2>4, <2>5, ConsumedBalanced
    <2>6. CASE backlog' = Append(backlog, Progress(run[r].use + 1))
      BY <1>1, <1>2, <1>20, <2>1, <2>4, <2>6, ProgressBalanced
    <2> QED
      BY <1>20, <2>5, <2>6 DEF StreamLine
  <1>21. CASE Output(r)
    <2>1. Fits(r)
      BY <1>21, OutputSound
    <2>2. CASE CliStream(r)
      <3>1. PICK sees \in BOOLEAN :
              Step(r, [run[r] EXCEPT !.use = @ + 1, !.named = @ \/ sees])
        BY <2>2 DEF CliStream
      <3>2. PICK named \in BOOLEAN : named = (run[r].named \/ sees)
        OBVIOUS
      <3>3. Step(r, [run[r] EXCEPT !.use = @ + 1, !.named = named])
        BY <1>1, <3>1, <3>2 DEF RunRecord
      <3> QED
        BY <1>20, <2>1, <2>2, <3>3 DEF CliStream
    <2>3. CASE OpenCodeStream(r)
      BY <1>20, <2>1, <2>3 DEF OpenCodeStream
    <2> QED
      BY <1>1, <1>21, <2>2, <2>3 DEF Output, LateStream, OrphanEnds
  <1> QED
    BY <1>6, <1>7, <1>8, <1>9, <1>12, <1>13, <1>14, <1>15, <1>16, <1>17, <1>18, <1>19, <1>21
      DEF RunnerStep, Child, CliSpawn, CliStdin, CliFinish, CliFails, CliTimesOut,
          OpenCodeSpawn, OpenCodeStdin, OpenCodeFinish, OpenCodeFails, OpenCodeTimesOut

\* Nothing is counted while no attempt is live and no event waits.
Nothing ==
    /\ backlog = <<>> /\ totals \in Nat /\ spent \in Nat /\ missed \in Nat /\ told \in Nat
    /\ totals <= spent /\ told <= totals + missed
    /\ entry # NoEntry => entry.base = 0
    /\ \A r \in Runs : /\ ~run[r].orphan /\ (run[r].pc \in Live => entry.run = r)
                       /\ run[r].pc \notin Open
                       /\ run[r].pc \in Live => run[r].sess = 0

LEMMA NothingBalanced == Nothing => Balanced
  <1> SUFFICES ASSUME Nothing PROVE Balanced
    OBVIOUS
  <1> USE DEF Nothing
  <1> DEFINE base == [k \in 1..1 |-> 0]
             gain == [k \in 1..1 |-> totals]
  <1>1. End = 1 /\ Len(backlog) = 0
    BY DEF End
  <1>2. /\ base \in [1..End -> Nat] /\ gain \in [1..End -> Nat]
        /\ base[1] = 0 /\ gain[1] = totals /\ base[End] = 0 /\ gain[End] = totals
    BY <1>1
  <1> HIDE DEF base, gain
  <1>3. Ledger(base, gain)
    BY <1>1, <1>2 DEF Ledger
  <1>4. \A k \in 1..End : gain[k] <= spent
    BY <1>1, <1>2
  <1>5. ASSUME NEW r \in Runs, run[r].pc \in Live
        PROVE  Level(run[r], base[End], gain[End], spent, told, missed)
    <2>1. told + run[r].sess <= gain[End] + missed
      BY <1>2, <1>5
    <2> QED
      BY <2>1 DEF Level
  <1> QED
    BY <1>2, <1>3, <1>4, <1>5 DEF Balanced

LEMMA NothingBalancedNext == Nothing' => Balanced'
  BY NothingBalanced, PTL

LEMMA DispatchBalanced ==
    ASSUME Sound, Balanced, ~cut', NEW r \in Runs, Dispatch(r)
    PROVE  Balanced'
  <1>1. /\ backlog = <<>> /\ entry = NoEntry /\ backlog' = backlog
        /\ entry' = [run |-> r, base |-> 0]
        /\ UNCHANGED <<totals, spent, told, missed>>
        /\ run' = [run EXCEPT ![r] = [Idle EXCEPT !.pc = "ensure", !.st = issue]]
    BY DEF Dispatch, Step, counts
  <1>2. totals \in Nat /\ spent \in Nat /\ missed \in Nat /\ told \in Nat
    BY DEF Sound, RestOK
  <1>3. totals <= spent /\ told <= totals + missed
    <2>1. PICK base, gain \in [1..End -> Nat] :
             /\ Ledger(base, gain)
             /\ \A k \in 1..End : gain[k] <= spent
             /\ told <= gain[End] + missed
      BY DEF Balanced
    <2>2. End = 1
      BY <1>1 DEF End
    <2> QED
      BY <2>1, <2>2 DEF Ledger
  <1>4. \A q \in Runs : ~run[q].orphan /\ run[q].pc \notin Live
    BY <1>1 DEF Balanced, NoEntry, NoRun, Runs
  <1>5. /\ run'[r].pc = "ensure" /\ ~run'[r].orphan /\ run'[r].sess = 0
        /\ "ensure" \notin Open
    <2>1. run'[r] = [Idle EXCEPT !.pc = "ensure", !.st = issue]
      BY <1>1 DEF Sound
    <2> QED
      BY <2>1 DEF Idle, Open
  <1>6. \A q \in Runs \ {r} : run'[q] = run[q]
    BY <1>1 DEF Sound
  <1>7. Open \subseteq Live
    BY DEF Open, Live, InSession, InTurn
  <1>8. \A q \in Runs : /\ ~run'[q].orphan /\ (run'[q].pc \in Live => entry'.run = q)
                        /\ run'[q].pc \notin Open
                        /\ run'[q].pc \in Live => run'[q].sess = 0
    BY <1>1, <1>4, <1>5, <1>6, <1>7
  <1>9. /\ backlog' = <<>> /\ entry'.base = 0
        /\ totals' \in Nat /\ spent' \in Nat /\ missed' \in Nat /\ told' \in Nat
        /\ totals' <= spent' /\ told' <= totals' + missed'
    BY <1>1, <1>2, <1>3
  <1> QED
    BY <1>8, <1>9, NothingBalancedNext DEF Nothing

LEMMA RestartBalanced ==
    ASSUME Sound, Restart
    PROVE  Balanced'
  <1>1. ASSUME NEW r \in Runs
        PROVE  /\ ~run'[r].orphan /\ run'[r].pc \notin Live /\ run'[r].pc \notin Open
    <2>1. run'[r] = Idle \/ run'[r] = [Idle EXCEPT !.pc = "gone"]
      BY DEF Restart
    <2> QED
      BY <2>1 DEF Idle, Live, Preparing, InSession, InTurn, Open
  <1>2. /\ backlog' = <<>> /\ entry' = NoEntry /\ totals' = 0 /\ spent' = 0
        /\ told' = 0 /\ missed' = 0
    BY DEF Restart
  <1> QED
    BY <1>1, <1>2, NothingBalancedNext DEF Nothing

\* The orchestrator reads one event: what it made of the first becomes the start.
LEMMA ConsumeBalanced ==
    ASSUME Sound, Balanced, ConsumeEvent
    PROVE  Balanced'
  <1>1. /\ backlog \in Seq(Event) /\ backlog # <<>> /\ backlog' = Tail(backlog)
        /\ UNCHANGED <<run, spent, told>> /\ entry \in Entry
        /\ totals \in Nat /\ spent \in Nat /\ missed \in Nat /\ told \in Nat
    BY DEF ConsumeEvent, Outside, Sound, RestOK
  <1>2. PICK n \in Nat : Len(backlog) = n + 1
    <2>1. Len(backlog) \in Nat \ {0}
      BY <1>1, EmptySeq
    <2> QED
      BY <2>1
  <1>3. /\ End = n + 2 /\ End' = n + 1 /\ Len(backlog') = n
        /\ \A k \in 1..n : backlog'[k] = backlog[k + 1]
    BY <1>1, <1>2 DEF End
  <1>4. PICK e \in Event : e = Head(backlog) /\ e = backlog[1]
    BY <1>1, <1>2
  <1>5. PICK base, gain \in [1..(n + 2) -> Nat] :
          /\ Ledger(base, gain)
          /\ \A k \in 1..(n + 2) : gain[k] <= spent
          /\ told <= gain[n + 2] + missed
          /\ \A q \in Runs : run[q].pc \in Live =>
                Level(run[q], base[n + 2], gain[n + 2], spent, told, missed)
    BY <1>3 DEF Balanced
  <1>6. /\ gain[1] = totals /\ (entry # NoEntry => base[1] = entry.base)
        /\ base[2] = After(base[1], e) /\ gain[2] = gain[1] + Gain(base[1], e)
        /\ \A k \in 1..(n + 1) : /\ base[k + 1] = After(base[k], backlog[k])
                                 /\ gain[k + 1] = gain[k] + Gain(base[k], backlog[k])
        /\ \A j, k \in 1..(n + 2) : j <= k => gain[j] <= gain[k]
    <2>1. /\ gain[1] = totals /\ (entry # NoEntry => base[1] = entry.base)
          /\ \A k \in 1..(n + 1) : /\ base[k + 1] = After(base[k], backlog[k])
                                   /\ gain[k + 1] = gain[k] + Gain(base[k], backlog[k])
          /\ \A j, k \in 1..(n + 2) : j <= k => gain[j] <= gain[k]
      BY <1>2, <1>3, <1>5 DEF Ledger
    <2>2. 1 \in 1..(n + 1) /\ 1 + 1 = 2
      BY <1>2
    <2>3. /\ base[1 + 1] = After(base[1], backlog[1])
          /\ gain[1 + 1] = gain[1] + Gain(base[1], backlog[1])
      BY <2>1, <2>2
    <2> QED
      BY <1>4, <2>1, <2>2, <2>3
  <1>7. PICK b1 \in Nat, more \in Nat : b1 = base[1] /\ more = Gain(b1, e)
    <2>1. base[1] \in Nat
      BY <1>2, <1>5
    <2> QED
      BY <2>1, GainType
  <1>8. gain[2] = totals + more /\ base[2] = After(b1, e)
    BY <1>6, <1>7
  <1>9. \A q \in Runs : ~run'[q].orphan /\ (run'[q].pc \in Live => entry'.run = q)
    <2>1. entry'.run = entry.run
      BY <1>1 DEF ConsumeEvent, Entry
    <2> QED
      BY <1>1, <2>1 DEF Balanced
  <1> DEFINE b == [k \in 1..(n + 1) |-> base[k + 1]]
  <1>10. b \in [1..(n + 1) -> Nat] /\ \A k \in 1..(n + 1) : b[k] = base[k + 1]
    BY <1>2, <1>5
  <1>11. b[n + 1] = base[n + 2]
    BY <1>2, <1>10
  <1> HIDE DEF b
  <1>12. CASE entry # NoEntry
    <2> DEFINE g == [k \in 1..(n + 1) |-> gain[k + 1]]
    <2>1. g \in [1..(n + 1) -> Nat] /\ \A k \in 1..(n + 1) : g[k] = gain[k + 1]
      BY <1>2, <1>5
    <2> HIDE DEF g
    <2>2. /\ totals' = IF e.n > BaseReset(e) THEN totals + (e.n - BaseReset(e)) ELSE totals
          /\ entry' = [entry EXCEPT !.base = NextBase(e)] /\ missed' = missed
      BY <1>4, <1>12 DEF ConsumeEvent
    <2>3. b1 = entry.base
      BY <1>6, <1>7, <1>12
    <2>4. BaseReset(e) = ResetBy(b1, e) /\ NextBase(e) = After(b1, e)
      BY <2>3 DEF BaseReset, NextBase, ResetBy, After
    <2>5. totals' = totals + more
      BY <1>1, <1>7, <2>2, <2>4 DEF Gain
    <2>6. entry'.base = After(b1, e)
      BY <1>1, <2>2, <2>4 DEF Entry
    <2>7. g[1] = totals' /\ b[1] = entry'.base /\ g[n + 1] = gain[n + 2]
      BY <1>2, <1>8, <1>10, <2>1, <2>5, <2>6
    <2>8. ASSUME NEW k \in 1..n
          PROVE  b[k + 1] = After(b[k], backlog'[k]) /\ g[k + 1] = g[k] + Gain(b[k], backlog'[k])
      <3>1. k + 1 \in 1..(n + 1) /\ k \in 1..(n + 1)
        BY <1>2
      <3> QED
        BY <1>3, <1>6, <1>10, <2>1, <3>1
    <2>9. ASSUME NEW j \in 1..(n + 1), NEW k \in 1..(n + 1), j <= k PROVE g[j] <= g[k]
      <3>1. j + 1 \in 1..(n + 2) /\ k + 1 \in 1..(n + 2) /\ j + 1 <= k + 1
        BY <1>2, <2>9
      <3> QED
        BY <1>6, <2>1, <3>1
    <2>10. PICK bb, gg : bb = b /\ gg = g
      OBVIOUS
    <2>11. Ledger(bb, gg)'
      BY <1>3, <1>10, <2>1, <2>7, <2>8, <2>9, <2>10 DEF Ledger, After, Gain, ResetBy
    <2>12. \A k \in 1..End' : gg[k] <= spent'
      <3>1. ASSUME NEW k \in 1..(n + 1) PROVE g[k] <= spent
        <4>1. k + 1 \in 1..(n + 2)
          BY <1>2
        <4> QED
          BY <1>5, <2>1, <4>1
      <3> QED
        BY <1>1, <1>3, <2>10, <3>1
    <2>13. /\ told' <= gg[End'] + missed'
           /\ \A q \in Runs : run'[q].pc \in Live =>
                Level(run'[q], bb[End'], gg[End'], spent', told', missed')
      BY <1>1, <1>3, <1>5, <1>11, <2>2, <2>7, <2>10
    <2>14. bb \in [1..End' -> Nat] /\ gg \in [1..End' -> Nat]
      BY <1>3, <1>10, <2>1, <2>10
    <2> QED
      BY <1>9, <2>11, <2>12, <2>13, <2>14 DEF Balanced
  <1>13. CASE entry = NoEntry
    <2>1. /\ missed' = (IF e.n = NoUsage THEN missed ELSE missed + e.n)
          /\ totals' = totals /\ entry' = NoEntry
      BY <1>4, <1>13 DEF ConsumeEvent
    <2>2. missed' \in Nat /\ missed + more <= missed'
      <3>1. e.n \in Nat \/ e.n = NoUsage
        BY DEF Event
      <3>2. more = IF e.n > ResetBy(b1, e) THEN e.n - ResetBy(b1, e) ELSE 0
        BY <1>7 DEF Gain
      <3>3. ResetBy(b1, e) \in Nat
        BY DEF ResetBy
      <3>4. CASE e.n = NoUsage
        BY <1>1, <2>1, <3>2, <3>3, <3>4 DEF NoUsage
      <3>5. CASE e.n \in Nat
        <4>1. e.n # NoUsage
          BY <3>5 DEF NoUsage
        <4>2. more <= e.n
          BY <3>2, <3>3, <3>5
        <4> QED
          BY <1>1, <2>1, <3>5, <4>1, <4>2
      <3> QED
        BY <3>1, <3>4, <3>5
    <2>3. ASSUME NEW k \in 1..(n + 1) PROVE gain[k + 1] \in Nat /\ totals + more <= gain[k + 1]
      <3>1. 2 \in 1..(n + 2) /\ k + 1 \in 1..(n + 2) /\ 2 <= k + 1
        BY <1>2
      <3>2. gain[2] <= gain[k + 1]
        BY <1>6, <3>1
      <3>3. gain[k + 1] \in Nat
        BY <1>5, <3>1
      <3> QED
        BY <1>8, <3>2, <3>3
    <2> DEFINE g == [k \in 1..(n + 1) |-> gain[k + 1] - more]
    <2>4. ASSUME NEW k \in 1..(n + 1) PROVE gain[k + 1] - more \in Nat
      <3>1. PICK x \in Nat : x = gain[k + 1] /\ totals + more <= x
        BY <2>3
      <3> QED
        BY <1>1, <3>1
    <2>5. g \in [1..(n + 1) -> Nat] /\ \A k \in 1..(n + 1) : g[k] = gain[k + 1] - more
      BY <2>4
    <2> HIDE DEF g
    <2>6. g[1] = totals'
      <3>1. 1 \in 1..(n + 1) /\ 1 + 1 = 2
        BY <1>2
      <3>2. g[1] = gain[2] - more
        BY <2>5, <3>1
      <3> QED
        BY <1>1, <1>8, <2>1, <3>2
    <2>7. g[n + 1] = gain[n + 2] - more /\ gain[n + 2] \in Nat
      <3>1. n + 1 \in 1..(n + 1) /\ n + 1 + 1 = n + 2 /\ n + 2 \in 1..(n + 2)
        BY <1>2
      <3> QED
        BY <1>5, <2>5, <3>1
    <2>8. ASSUME NEW k \in 1..n
          PROVE  b[k + 1] = After(b[k], backlog'[k]) /\ g[k + 1] = g[k] + Gain(b[k], backlog'[k])
      <3>1. k + 1 \in 1..(n + 1) /\ k \in 1..(n + 1) /\ k + 1 + 1 \in 1..(n + 2)
        BY <1>2
      <3>2. /\ b[k + 1] = base[k + 1 + 1] /\ b[k] = base[k + 1]
            /\ g[k + 1] = gain[k + 1 + 1] - more /\ g[k] = gain[k + 1] - more
        BY <1>10, <2>5, <3>1
      <3>3. /\ base[k + 1 + 1] = After(base[k + 1], backlog'[k])
            /\ gain[k + 1 + 1] = gain[k + 1] + Gain(base[k + 1], backlog'[k])
        BY <1>3, <1>6, <3>1
      <3>4. backlog'[k] \in Event
        <4>1. backlog[k + 1] \in Event
          BY <1>1, <1>2, <3>1
        <4> QED
          BY <1>3, <4>1
      <3>5. PICK add \in Nat, x \in Nat : add = Gain(base[k + 1], backlog'[k]) /\ x = gain[k + 1]
        <4>1. PICK bk \in Nat, ev \in Event : bk = base[k + 1] /\ ev = backlog'[k]
          BY <1>5, <1>10, <3>1, <3>4
        <4>2. Gain(bk, ev) \in Nat
          BY GainType
        <4> QED
          BY <2>3, <3>1, <4>1, <4>2
      <3>6. g[k + 1] = (x + add) - more /\ g[k] = x - more
        BY <3>2, <3>3, <3>5
      <3>7. g[k + 1] = g[k] + add
        BY <3>6
      <3> QED
        BY <3>2, <3>3, <3>5, <3>7
    <2>9. ASSUME NEW j \in 1..(n + 1), NEW k \in 1..(n + 1), j <= k PROVE g[j] <= g[k]
      <3>1. j + 1 \in 1..(n + 2) /\ k + 1 \in 1..(n + 2) /\ j + 1 <= k + 1
        BY <1>2, <2>9
      <3>2. gain[j + 1] <= gain[k + 1]
        BY <1>6, <3>1
      <3>3. g[j] = gain[j + 1] - more /\ g[k] = gain[k + 1] - more
        BY <2>5
      <3>4. PICK x \in Nat, y \in Nat : x = gain[j + 1] /\ y = gain[k + 1]
        BY <2>3
      <3> QED
        BY <3>2, <3>3, <3>4
    <2>10. PICK bb, gg : bb = b /\ gg = g
      OBVIOUS
    <2>11. Ledger(bb, gg)'
      BY <1>3, <1>10, <2>1, <2>5, <2>6, <2>8, <2>9, <2>10 DEF Ledger, After, Gain, ResetBy
    <2>12. \A k \in 1..End' : gg[k] <= spent'
      <3>1. ASSUME NEW k \in 1..(n + 1) PROVE g[k] <= spent
        <4>1. k + 1 \in 1..(n + 2) /\ gain[k + 1] \in Nat /\ g[k] = gain[k + 1] - more
          BY <1>2, <2>3, <2>5
        <4>2. gain[k + 1] <= spent
          BY <1>5, <4>1
        <4> QED
          BY <1>1, <4>1, <4>2
      <3> QED
        BY <1>1, <1>3, <2>10, <3>1
    <2>13. told' <= gg[End'] + missed'
      <3>1. gg[End'] = gain[n + 2] - more /\ told' = told
        BY <1>1, <1>3, <2>7, <2>10
      <3>2. PICK x \in Nat : x = gain[n + 2] /\ told <= x + missed
        BY <1>5, <2>7
      <3>3. told <= (x - more) + missed'
        BY <1>1, <2>2, <3>2
      <3> QED
        BY <3>1, <3>2, <3>3
    <2>14. \A q \in Runs : run'[q].pc \notin Live
      BY <1>9, <2>1 DEF NoEntry, NoRun, Runs
    <2>15. bb \in [1..End' -> Nat] /\ gg \in [1..End' -> Nat]
      BY <1>3, <1>10, <2>5, <2>10
    <2> QED
      BY <1>9, <2>11, <2>12, <2>13, <2>14, <2>15 DEF Balanced
  <1> QED
    BY <1>12, <1>13

\* An entry that goes, with its run over, or nothing that is counted.
LEMMA RestBalanced ==
    ASSUME Balanced, UNCHANGED <<run, backlog, totals, spent, told, missed>>,
           \/ entry' = entry
           \/ entry' = NoEntry /\ \A r \in Runs : run[r].pc \notin Live
    PROVE  Balanced'
  <1>1. PICK base, gain \in [1..End -> Nat] :
          /\ Ledger(base, gain)
          /\ \A k \in 1..End : gain[k] <= spent
          /\ told <= gain[End] + missed
          /\ \A q \in Runs : run[q].pc \in Live =>
                Level(run[q], base[End], gain[End], spent, told, missed)
    BY DEF Balanced
  <1>2. End' = End
    BY DEF End
  <1>3. Ledger(base, gain)'
    BY <1>1, <1>2 DEF Ledger, End
  <1>4. \A q \in Runs : ~run'[q].orphan /\ (run'[q].pc \in Live => entry'.run = q)
    BY DEF Balanced
  <1> QED
    BY <1>1, <1>2, <1>3, <1>4 DEF Balanced

LEMMA NextBalanced == Sound /\ (~cut => Balanced) /\ [Next]_vars => (~cut' => Balanced')
  <1> SUFFICES ASSUME Sound, ~cut => Balanced, [Next]_vars, ~cut' PROVE Balanced'
    OBVIOUS
  <1>1. ~Restart => ~cut
    <2>1. ASSUME NEW r \in Runs, RunnerStep(r) \/ Output(r), ~ChildTimesOut(r)
          PROVE  cut' = cut
      BY <2>1 DEF RunnerStep, Output, Ensure, AfterCreate, BeforeRun, BuildFor, StartSession,
         PromptFails, RawBegin, DeadlinePassed, CallLlm, RunTool, WriteFile, CliSpawn,
         CliStdin, CliFinish, CliFails, CliTimesOut, OpenCodeSpawn, OpenCodeStdin,
         OpenCodeFinish, OpenCodeFails, OpenCodeTimesOut, SpawnChild, WriteStdin,
         FinishChild, ChildFails, Refresh, AfterRun, CliStream,
         OpenCodeStream, LateStream, OrphanEnds, Quiet
    <2>2. ASSUME NEW r \in Runs, ChildTimesOut(r) PROVE ~cut
      BY <2>2 DEF ChildTimesOut
    <2> QED
      BY <2>1, <2>2 DEF Next, vars, Dispatch, ConsumeExit, ConsumeEvent, Stall, Terminate,
                        MoveIssue, Housekeeping
  <1>2. ASSUME ~Orphaned, Balanced PROVE \A r \in Runs : run[r].pc \notin Live
    BY <1>2 DEF Orphaned, Balanced, NoEntry, NoRun, Runs
  <1>3. ASSUME NEW r \in Runs, ConsumeExit(r) PROVE Balanced'
    <2>1. Balanced /\ ~Orphaned
      BY <1>1, <1>3 DEF ConsumeExit, Outside, Restart
    <2> QED
      BY <1>2, <1>3, <2>1, RestBalanced DEF ConsumeExit, Forget, Outside
  <1>4. CASE Stall \/ Terminate
    <2>1. ~Restart => Balanced /\ ~Orphaned
      BY <1>1, <1>4 DEF Stall, Terminate
    <2> QED
      BY <1>2, <1>4, <2>1, RestBalanced, RestartBalanced
        DEF Stall, Terminate, Forget, Outside, counts
  <1>5. CASE Restart
    BY <1>5, RestartBalanced
  <1>6. CASE ~Restart /\ (MoveIssue \/ Housekeeping \/ UNCHANGED vars)
    BY <1>1, <1>6, RestBalanced DEF MoveIssue, Housekeeping, vars, counts
  <1>7. CASE ~Restart /\ ConsumeEvent
    BY <1>1, <1>7, ConsumeBalanced
  <1>8. CASE ~Restart /\ \E r \in Runs : Dispatch(r) \/ RunnerStep(r) \/ Output(r)
    BY <1>1, <1>8, DispatchBalanced, RunnerBalanced
  <1> QED
    BY <1>3, <1>4, <1>5, <1>6, <1>7, <1>8 DEF Next

LEMMA SpecBalanced == Spec => [](~cut => Balanced)
  <1>1. AttemptInit => Balanced
    <2> SUFFICES ASSUME AttemptInit PROVE Balanced
      OBVIOUS
    <2>1. ASSUME NEW r \in Runs
          PROVE  ~run[r].orphan /\ run[r].pc \notin Live /\ run[r].pc \notin Open
      BY DEF AttemptInit, Idle, Live, Preparing, InSession, InTurn, Open
    <2>2. /\ backlog = <<>> /\ entry = NoEntry /\ totals = 0 /\ spent = 0
          /\ told = 0 /\ missed = 0
      BY DEF AttemptInit
    <2> QED
      BY <2>1, <2>2, NothingBalanced DEF Nothing
  <1> QED
    BY <1>1, SpecSound, NextBalanced, PTL DEF Spec

\* The dashboard never counts tokens that no agent consumed, while every event
\* is attributed to the run that sent it (mod.rs:507-550).
THEOREM NothingOvercounted == Spec => []NoOvercount
  <1>1. Sound /\ (~cut => Balanced) => NoOvercount
    <2> SUFFICES ASSUME Sound, ~cut, Balanced PROVE totals <= spent
      BY DEF NoOvercount
    <2>1. PICK gain \in [1..End -> Nat] : gain[1] = totals /\ \A k \in 1..End : gain[k] <= spent
      BY DEF Balanced, Ledger
    <2>2. 1 \in 1..End
      BY DEF End, Sound, RestOK
    <2> QED
      BY <2>1, <2>2
  <1> QED
    BY <1>1, SpecSound, SpecBalanced, PTL

\* Once its events are read, the dashboard has whatever a session reports to the
\* bridge, but for what arrived without an entry (mod.rs:507, runner.rs:250).
THEOREM BridgeCovered == Spec => []DashboardCoversBridge
  <1>1. Sound /\ (~cut => Balanced) => DashboardCoversBridge
    <2> SUFFICES ASSUME Sound, ~cut, Balanced, backlog = <<>> PROVE totals + missed >= told
      BY DEF DashboardCoversBridge
    <2>1. PICK gain \in [1..End -> Nat] : gain[1] = totals /\ told <= gain[End] + missed
      BY DEF Balanced, Ledger
    <2>2. End = 1 /\ totals \in Nat /\ missed \in Nat /\ told \in Nat
      BY DEF End, Sound, RestOK
    <2> QED
      BY <2>1, <2>2
  <1> QED
    BY <1>1, SpecSound, SpecBalanced, PTL

-----------------------------------------------------------------------------
(* The conversation with a raw provider.                                   *)

\* The calls of the conversation that still wait for an answer.
Waiting(rec) == IF rec.pc \in {"tools", "write"} THEN rec.todo ELSE <<>>

\* From the start of the session to the end of its last turn the history fits
\* every provider, but for the calls that are being run.
Converse(rec) ==
    (/\ rec.pc \in {"turn", "call", "tools", "write", "refresh"}
     /\ rec.agent \in RawProviders)
    => Talk(Calls, rec.hist, Waiting(rec))

Conversing == \A r \in Runs : Converse(run[r])

\* Attempt r takes a step to a record whose conversation fits.
Converses(r) == \E rec \in RunRecord : Step(r, rec) /\ Converse(rec)

LEMMA ConversesKept ==
    ASSUME run \in [Runs -> RunRecord], Conversing, NEW r \in Runs, Converses(r)
    PROVE  Conversing'
  <1>1. PICK rec \in RunRecord : run' = [run EXCEPT ![r] = rec] /\ Converse(rec)
    BY DEF Converses, Step
  <1>2. \A q \in Runs : run'[q] = IF q = r THEN rec ELSE run[q]
    BY <1>1
  <1> QED
    BY <1>1, <1>2 DEF Conversing

\* Where no conversation is going on.
LEMMA Elsewhere ==
    ASSUME Sound, NEW r \in Runs, NEW rec, Step(r, rec), Fits(r),
           \/ rec.pc \notin {"turn", "call", "tools", "write", "refresh"}
           \/ rec.agent \notin RawProviders
    PROVE  Converses(r)
  <1>1. PICK new \in RunRecord : Step(r, new)
    BY DEF Fits
  <1>2. new = rec
    <2>1. run'[r] = new /\ run'[r] = rec
      BY <1>1 DEF Step, Sound
    <2> QED
      BY <2>1
  <1> QED
    BY <1>1, <1>2 DEF Converses, Converse

LEMMA StopConverses ==
    ASSUME Sound, NEW r \in Runs, NEW rec \in RunRecord, Step(r, Stop(rec))
    PROVE  Converses(r)
  BY StopType DEF Converses, Converse

LEMMA CallTools == \A c \in Calls : c.tool \in Tools
  BY DEF Calls

LEMMA MessagesAreWire == Messages \subseteq Wire(Calls)
  BY DEF Messages, Wire, Roles

LEMMA PrepareConverses ==
    ASSUME Sound, Conversing, NEW r \in Runs,
           Ensure(r) \/ AfterCreate(r) \/ BeforeRun(r) \/ BuildFor(r) \/ StartSession(r)
    PROVE  Converses(r)
  <1>1. Fits(r)
    BY PrepareSound
  <1>2. run[r] \in RunRecord
    BY RecordOf
  <1>3. [Idle EXCEPT !.pc = "over"].pc = "over"
    BY DEF Idle
  <1>4. CASE Leave(r)
    BY <1>1, <1>3, <1>4, Elsewhere DEF Leave
  <1>5. CASE Ensure(r) /\ ~Leave(r)
    <2>1. PICK pc \in {"after_create", "before_run"} :
            pc = IF CreatedNow /\ "after_create" \in cfg.hooks THEN "after_create" ELSE "before_run"
      OBVIOUS
    <2> DEFINE new == [run[r] EXCEPT !.at = dir'.gen, !.pc = pc]
    <2>2. Step(r, new)
      BY <1>5, <2>1 DEF Ensure
    <2>3. new.pc = pc
      BY <1>2 DEF RunRecord
    <2> HIDE DEF new
    <2> QED
      BY <1>1, <2>1, <2>2, <2>3, Elsewhere
  <1>6. CASE AfterCreate(r) /\ ~Leave(r)
    <2> DEFINE new == [run[r] EXCEPT !.pc = "before_run"]
    <2>1. Step(r, new)
      BY <1>6 DEF AfterCreate
    <2>2. new.pc = "before_run"
      BY <1>2 DEF RunRecord
    <2> HIDE DEF new
    <2> QED
      BY <1>1, <2>1, <2>2, Elsewhere
  <1>7. CASE BeforeRun(r) /\ ~Leave(r)
    <2> DEFINE new == [run[r] EXCEPT !.pc = "build"]
    <2>1. Step(r, new)
      BY <1>7 DEF BeforeRun
    <2>2. new.pc = "build"
      BY <1>2 DEF RunRecord
    <2> HIDE DEF new
    <2> QED
      BY <1>1, <2>1, <2>2, Elsewhere
  <1>8. CASE BuildFor(r) /\ ~Leave(r)
    <2> DEFINE new == [run[r] EXCEPT !.pc = "start", !.agent = cfg.agent[run[r].st]]
    <2>1. Step(r, new)
      BY <1>8 DEF BuildFor
    <2>2. new.pc = "start"
      BY <1>2 DEF RunRecord
    <2> HIDE DEF new
    <2> QED
      BY <1>1, <2>1, <2>2, Elsewhere
  <1>9. CASE StartSession(r)
    <2> DEFINE opened == [run[r] EXCEPT !.pc = "turn", !.turn = 1, !.started = TRUE]
    <2>1. At(r, "start") /\ run[r].agent \in Agents
      BY <1>9, RecordOf, ConfigType DEF StartSession, Sound, RestOK, Fit, At, Preparing
    <2>2. CASE run[r].agent \in RawProviders
      <3> DEFINE new == [opened EXCEPT !.hist = <<System>>, !.thread = "real"]
      <3>1. Step(r, new)
        <4> HIDE DEF opened
        <4>1. run[r].agent \notin CliProviders /\ run[r].agent # "app_server"
          BY <2>2 DEF RawProviders, CliProviders
        <4>2. Step(r, CASE run[r].agent \in RawProviders -> StartRaw(opened)
                        [] run[r].agent \in CliProviders -> StartCli(opened)
                        [] run[r].agent = "app_server"   -> StartStub(run[r]))
          BY <1>9 DEF StartSession, opened
        <4>3. Step(r, StartRaw(opened))
          BY <2>2, <4>1, <4>2
        <4> QED
          BY <4>3 DEF StartRaw
      <3>2. System \in Messages
        BY DEF System, Message, Messages
      <3>3. <<System>> \in Seq(Messages) /\ "turn" \in Live
        BY <3>2 DEF Live, InSession, InTurn
      <3>4. new \in RunRecord /\ new.pc = "turn" /\ new.hist = <<System>>
        BY <1>2, <3>3 DEF RunRecord
      <3> HIDE DEF new
      <3>5. Converse(new)
        BY <3>4, TalkBegin DEF Converse, Waiting
      <3> QED
        BY <3>1, <3>4, <3>5 DEF Converses
    <2>3. CASE run[r].agent \in CliProviders
      <3> DEFINE new == [opened EXCEPT !.thread = "pending"]
      <3>1. Step(r, new)
        BY <1>9, <2>3 DEF StartSession, StartCli, RawProviders, CliProviders
      <3>2. new.agent = run[r].agent
        BY <1>2 DEF RunRecord
      <3> HIDE DEF new
      <3>3. run[r].agent \notin RawProviders
        BY <2>3 DEF RawProviders, CliProviders
      <3> QED
        BY <1>1, <3>1, <3>2, <3>3, Elsewhere
    <2>4. CASE run[r].agent = "app_server"
      BY <1>2, <1>9, <2>4, StopConverses
        DEF StartSession, StartStub, RawProviders, CliProviders
    <2> QED
      BY <2>1, <2>2, <2>3, <2>4 DEF Agents
  <1> QED
    BY <1>4, <1>5, <1>6, <1>7, <1>8, <1>9

\* The end of a turn, when nothing waits.
LEMMA CompleteConverses ==
    ASSUME Sound, NEW r \in Runs, NEW rec, Chatting(rec), Talk(Calls, rec.hist, <<>>),
           NEW usage \in Nat \cup {NoUsage}, CompleteTurn(r, rec, usage)
    PROVE  Converses(r)
  <1> DEFINE more == IF usage = NoUsage THEN 0 ELSE usage
             new  == [rec EXCEPT !.pc = "refresh", !.todo = <<>>, !.use = 0,
                                 !.sess = @ + more]
  <1>1. more \in Nat
    BY DEF NoUsage
  <1> HIDE DEF more
  <1>2. rec.sess + more \in Nat /\ <<>> \in Seq(Calls) /\ "refresh" \in Live
    BY <1>1 DEF Chatting, RunRecord, Live, InSession, InTurn
  <1>3. new \in RunRecord /\ new.pc = "refresh" /\ new.hist = rec.hist
    BY <1>2 DEF Chatting, RunRecord
  <1>4. Step(r, new)
    BY DEF CompleteTurn, more
  <1> HIDE DEF new
  <1>5. Converse(new)
    BY <1>3 DEF Converse, Waiting
  <1> QED
    BY <1>3, <1>4, <1>5 DEF Converses

\* After an answer, with the calls that are left.
LEMMA NextConverses ==
    ASSUME Sound, NEW r \in Runs, NEW rec, Chatting(rec), Talk(Calls, rec.hist, rec.todo),
           AfterAnswer(r, rec)
    PROVE  Converses(r)
  <1>1. rec \in RunRecord /\ rec.use \in Nat /\ rec.iter + 1 \in Nat
    BY DEF Chatting, RunRecord
  <1>2. ASSUME Step(r, [rec EXCEPT !.pc = "tools"]) PROVE Converses(r)
    <2> DEFINE new == [rec EXCEPT !.pc = "tools"]
    <2>1. /\ new \in RunRecord /\ new.pc = "tools" /\ new.todo = rec.todo
          /\ new.hist = rec.hist
      BY <1>1 DEF RunRecord, Live, InSession, InTurn
    <2> HIDE DEF new
    <2>2. Converse(new)
      BY <2>1 DEF Converse, Waiting
    <2> QED
      BY <1>2, <2>1, <2>2 DEF Converses, new
  <1>3. ASSUME rec.todo = <<>>, Step(r, [rec EXCEPT !.pc = "call", !.iter = @ + 1])
        PROVE  Converses(r)
    <2> DEFINE new == [rec EXCEPT !.pc = "call", !.iter = @ + 1]
    <2>1. new \in RunRecord /\ new.pc = "call" /\ new.hist = rec.hist
      BY <1>1 DEF RunRecord, Live, InSession, InTurn
    <2> HIDE DEF new
    <2>2. Converse(new)
      BY <1>3, <2>1 DEF Converse, Waiting
    <2> QED
      BY <1>3, <2>1, <2>2 DEF Converses, new
  <1>4. \/ Step(r, [rec EXCEPT !.pc = "tools"])
        \/ rec.todo = <<>> /\ CompleteTurn(r, rec, rec.use)
        \/ rec.todo = <<>> /\ Step(r, [rec EXCEPT !.pc = "call", !.iter = @ + 1])
        \/ Step(r, Stop(rec))
    BY DEF AfterAnswer, Next1
  <1>5. ASSUME rec.todo = <<>>, CompleteTurn(r, rec, rec.use) PROVE Converses(r)
    BY <1>1, <1>5, CompleteConverses
  <1> QED
    BY <1>1, <1>2, <1>3, <1>4, <1>5, StopConverses

\* A call is answered: its answer joins the history and it leaves the list.
LEMMA AnswerConverses ==
    ASSUME Sound, Conversing, NEW r \in Runs, At(r, "tools") \/ At(r, "write"),
           AfterAnswer(r, Answer(run[r]))
    PROVE  Converses(r)
  <1>1. run[r] \in RunRecord /\ Chatting(run[r]) /\ run[r].todo # <<>>
        /\ run[r].agent \in RawProviders
    BY RecordOf, ChattingOf DEF At, InTurn, Fit
  <1>2. Chatting(Answer(run[r]))
    BY <1>1, AnswerChats
  <1>3. Talk(Calls, run[r].hist, run[r].todo)
    BY <1>1 DEF Conversing, Converse, Waiting, At
  <1>4. Talk(Calls, Append(run[r].hist, ToolAnswer(Head(run[r].todo))), Tail(run[r].todo))
    BY <1>1, <1>3, CallTools, TalkAnswer
  <1>5. /\ Answer(run[r]).hist = Append(run[r].hist, ToolAnswer(Head(run[r].todo)))
        /\ Answer(run[r]).todo = Tail(run[r].todo)
    BY <1>1 DEF Answer, RunRecord
  <1> QED
    BY <1>2, <1>4, <1>5, NextConverses

LEMMA CallConverses ==
    ASSUME Sound, Conversing, NEW r \in Runs, CallLlm(r)
    PROVE  Converses(r)
  <1>1. PICK resp \in cfg.replies :
          LET reply == Parse(run[r].agent, resp)
              n     == Len(run[r].hist)
              calls == [k \in DOMAIN reply.calls |->
                          [id |-> <<n, k>>, tool |-> reply.calls[k].tool,
                                            args |-> reply.calls[k].args]]
              rec   == [run[r] EXCEPT
                          !.hist = Append(@, Assistant([text |-> reply.text, calls |-> calls])),
                          !.use = @ + reply.tokens, !.todo = calls, !.fin = FALSE]
          IN  \/ /\ reply = Failure
                 /\ Step(r, Stop(run[r]))
                 /\ UNCHANGED <<backlog, spent>>
              \/ /\ reply # Failure
                 /\ spent' = spent + reply.tokens
                 /\ IF calls = <<>> THEN CompleteTurn(r, rec, rec.use)
                    ELSE Step(r, [rec EXCEPT !.pc = "tools"]) /\ UNCHANGED backlog
    BY DEF CallLlm
  <1> DEFINE reply == Parse(run[r].agent, resp)
             n     == Len(run[r].hist)
             calls == [k \in DOMAIN reply.calls |->
                         [id |-> <<n, k>>, tool |-> reply.calls[k].tool,
                                           args |-> reply.calls[k].args]]
             mess  == Assistant([text |-> reply.text, calls |-> calls])
             rec   == [run[r] EXCEPT !.hist = Append(@, mess), !.use = @ + reply.tokens,
                                     !.todo = calls, !.fin = FALSE]
  <1>2. At(r, "call") /\ run[r] \in RunRecord /\ Fit(run[r]) /\ RestOK
    BY RecordOf DEF CallLlm, Sound
  <1>3. Chatting(run[r]) /\ run[r].agent \in RawProviders
    BY <1>2, ChattingOf DEF At, InTurn, Fit
  <1>4. CASE reply = Failure
    BY <1>1, <1>2, <1>4, StopConverses
  <1>5. CASE reply # Failure
    <2>1. \/ calls = <<>> /\ CompleteTurn(r, rec, rec.use)
          \/ Step(r, [rec EXCEPT !.pc = "tools"])
      BY <1>1, <1>5
    <2>2. resp \in Responses
      BY <1>1, <1>2, ConfigType DEF RestOK
    <2> DEFINE Made == [tool: Tools, args: Arguments]
    <2>3. reply.text \in BOOLEAN /\ reply.calls \in Seq(Made) /\ reply.tokens \in Nat
      BY <1>3, <1>5, <2>2, ParseType
    <2>4. calls \in Seq(Calls)
      <3> PICK said : said = reply.calls
        OBVIOUS
      <3> HIDE DEF Made, reply
      <3>1. DOMAIN said = 1..Len(said) /\ Len(said) \in Nat
        BY <2>3
      <3>2. \A k \in DOMAIN said : said[k] \in Made /\ k \in Nat
        BY <2>3, <3>1
      <3>3. n \in Nat
        BY <1>2 DEF RunRecord
      <3> HIDE DEF n
      <3>4. ASSUME NEW k \in DOMAIN said
            PROVE  [id |-> <<n, k>>, tool |-> said[k].tool, args |-> said[k].args] \in Calls
        <4>1. <<n, k>> \in Seq(Nat)
          BY <3>2, <3>3
        <4> QED
          BY <3>2, <4>1 DEF Calls, Made
      <3>5. calls \in [1..Len(said) -> Calls]
        BY <3>1, <3>4
      <3> HIDE DEF calls
      <3> QED
        BY <3>1, <3>5, SeqDef
    <2> HIDE DEF calls, reply, Made
    <2>5. /\ mess \in Messages /\ mess.role = "assistant" /\ mess.calls = calls
          /\ mess.answers = <<>>
      BY <2>3, <2>4 DEF Assistant, Message, Messages
    <2> HIDE DEF mess
    <2>6. Append(run[r].hist, mess) \in Seq(Messages) /\ run[r].use + reply.tokens \in Nat
      <3>1. run[r].hist \in Seq(Messages) /\ run[r].use \in Nat
        BY <1>2 DEF RunRecord
      <3>2. Append(run[r].hist, mess) \in Seq(Messages)
        BY <2>5, <3>1
      <3>3. reply.tokens \in Nat
        BY <2>3
      <3> QED
        BY <3>1, <3>2, <3>3
    <2>7. /\ rec \in RunRecord /\ rec.st = run[r].st /\ rec.todo = calls
          /\ rec.hist = Append(run[r].hist, mess)
          /\ rec.agent = run[r].agent /\ rec.named = run[r].named
          /\ rec.thread = run[r].thread /\ rec.use \in Nat
      BY <1>2, <2>4, <2>6 DEF RunRecord
    <2> HIDE DEF rec
    <2>8. Chatting(rec)
      BY <1>3, <2>7 DEF Chatting
    <2>9. Talk(Calls, rec.hist, calls)
      <3>1. Talk(Calls, run[r].hist, <<>>)
        BY <1>2, <1>3 DEF Conversing, Converse, Waiting, At
      <3>2. mess \in Wire(Calls)
        BY <2>5, MessagesAreWire
      <3>3. Talk(Calls, Append(run[r].hist, mess), mess.calls)
        BY <2>5, <3>1, <3>2, CallTools, TalkSpeak
      <3> QED
        BY <2>5, <2>7, <3>3
    <2>10. CASE calls = <<>> /\ CompleteTurn(r, rec, rec.use)
      BY <2>7, <2>8, <2>9, <2>10, CompleteConverses
    <2>11. CASE Step(r, [rec EXCEPT !.pc = "tools"])
      <3> DEFINE new == [rec EXCEPT !.pc = "tools"]
      <3>1. /\ new \in RunRecord /\ new.pc = "tools" /\ new.todo = rec.todo
            /\ new.hist = rec.hist
        BY <2>7 DEF RunRecord, Live, InSession, InTurn
      <3> HIDE DEF new
      <3>2. Converse(new)
        BY <2>7, <2>9, <3>1 DEF Converse, Waiting
      <3> QED
        BY <2>11, <3>1, <3>2 DEF Converses, new
    <2> QED
      BY <2>1, <2>10, <2>11
  <1> QED
    BY <1>4, <1>5

LEMMA RawConverses ==
    ASSUME Sound, Conversing, NEW r \in Runs,
           \/ PromptFails(r) \/ RawBegin(r) \/ DeadlinePassed(r) \/ CallLlm(r)
           \/ RunTool(r) \/ WriteFile(r)
    PROVE  Converses(r)
  <1>1. run[r] \in RunRecord
    BY RecordOf
  <1>2. CASE PromptFails(r) \/ DeadlinePassed(r)
    BY <1>1, <1>2, StopConverses DEF PromptFails, DeadlinePassed
  <1>3. CASE RawBegin(r)
    <2> DEFINE new == [run[r] EXCEPT !.pc = "call", !.hist = Append(@, Prompt),
                                     !.iter = 0, !.use = 0]
    <2>1. At(r, "turn") /\ Raw(r) /\ Step(r, new)
      BY <1>3 DEF RawBegin
    <2>2. /\ Prompt \in Messages /\ Prompt.role = "user" /\ Prompt.calls = <<>>
          /\ Prompt.answers = <<>>
      BY DEF Prompt, Message, Messages
    <2>3. Append(run[r].hist, Prompt) \in Seq(Messages)
      BY <1>1, <2>2 DEF RunRecord
    <2>4. /\ new \in RunRecord /\ new.pc = "call"
          /\ new.hist = Append(run[r].hist, Prompt)
      BY <1>1, <2>3 DEF RunRecord, Live, InSession, InTurn
    <2> HIDE DEF new
    <2>5. Talk(Calls, Append(run[r].hist, Prompt), <<>>)
      <3>1. Talk(Calls, run[r].hist, <<>>)
        BY <2>1 DEF Conversing, Converse, Waiting, At, Raw
      <3>2. Prompt \in Wire(Calls)
        BY <2>2, MessagesAreWire
      <3>3. Talk(Calls, Append(run[r].hist, Prompt), Prompt.calls)
        BY <2>2, <3>1, <3>2, CallTools, TalkSpeak
      <3> QED
        BY <2>2, <3>3
    <2>6. Converse(new)
      BY <2>4, <2>5 DEF Converse, Waiting
    <2> QED
      BY <2>1, <2>4, <2>6 DEF Converses
  <1>4. CASE RunTool(r)
    <2>1. At(r, "tools")
      BY <1>4 DEF RunTool
    <2>2. \/ Step(r, Stop(run[r]))
          \/ Step(r, [run[r] EXCEPT !.pc = "write"])
          \/ AfterAnswer(r, Answer(run[r]))
      <3>1. DispatchTool(Head(run[r].todo), dir.here) \in {"abort", "resolved", "answer"}
        BY DEF DispatchTool, RunShell, RunReadFile, RunWriteFile, RunEditFile, RunListDir,
               RunFileTool, ResolveInWorkspace
      <3> QED
        BY <1>4, <3>1 DEF RunTool
    <2>3. ASSUME Step(r, [run[r] EXCEPT !.pc = "write"]) PROVE Converses(r)
      <3> DEFINE new == [run[r] EXCEPT !.pc = "write"]
      <3>1. /\ new \in RunRecord /\ new.pc = "write" /\ new.todo = run[r].todo
            /\ new.hist = run[r].hist /\ new.agent = run[r].agent
        BY <1>1 DEF RunRecord, Live, InSession, InTurn
      <3> HIDE DEF new
      <3>2. Converse(new)
        BY <2>1, <3>1 DEF Conversing, Converse, Waiting, At
      <3> QED
        BY <2>3, <3>1, <3>2 DEF Converses, new
    <2> QED
      BY <1>1, <2>1, <2>2, <2>3, StopConverses, AnswerConverses
  <1>5. CASE WriteFile(r)
    BY <1>5, AnswerConverses DEF WriteFile
  <1> QED
    BY <1>2, <1>3, <1>4, <1>5, CallConverses

\* The subprocess backends keep no history.
LEMMA ChildConverses ==
    ASSUME Sound, NEW r \in Runs, Child(r),
           SpawnChild(r) \/ WriteStdin(r) \/ FinishChild(r) \/ ChildFails(r) \/ ChildTimesOut(r)
    PROVE  Converses(r)
  <1>1. Fits(r) /\ run[r] \in RunRecord /\ run[r].agent \notin RawProviders
    BY ChildSound, RecordOf DEF Child, Cli, OpenCode, RawProviders
  <1>2. PICK new \in RunRecord : Step(r, new)
    BY <1>1 DEF Fits
  <1>3. run'[r] = new
    BY <1>2 DEF Step, Sound
  <1>4. ASSUME NEW rec, Step(r, rec) PROVE rec = new
    BY <1>3, <1>4 DEF Step, Sound
  <1>5. CASE SpawnChild(r)
    <2>1. Step(r, [run[r] EXCEPT !.pc = "stdin", !.use = 0]) \/ Step(r, Stop(run[r]))
      BY <1>5 DEF SpawnChild
    <2>2. [run[r] EXCEPT !.pc = "stdin", !.use = 0].pc = "stdin"
      BY <1>1 DEF RunRecord
    <2> QED
      BY <1>1, <2>1, <2>2, Elsewhere, StopConverses
  <1>6. CASE WriteStdin(r)
    <2>1. \/ Step(r, [run[r] EXCEPT !.pc = "stream"])
          \/ Step(r, [run[r] EXCEPT !.stuck = TRUE]) /\ At(r, "stdin")
          \/ Step(r, Stop(run[r]))
      BY <1>6 DEF WriteStdin
    <2>2. /\ [run[r] EXCEPT !.pc = "stream"].pc = "stream"
          /\ [run[r] EXCEPT !.stuck = TRUE].pc = run[r].pc
      BY <1>1 DEF RunRecord
    <2> QED
      BY <1>1, <2>1, <2>2, Elsewhere, StopConverses DEF At
  <1>7. CASE FinishChild(r)
    <2>1. PICK usage \in TerminalUsage(run[r].agent, run[r].use), parsed \in BOOLEAN :
            CompleteTurn(r, [run[r] EXCEPT !.thread = LearnThread(run[r], parsed),
                                           !.named = @ \/ parsed], usage)
      BY <1>7 DEF FinishChild
    <2> DEFINE rec == [run[r] EXCEPT !.thread = LearnThread(run[r], parsed),
                                     !.named = @ \/ parsed]
               fin == [rec EXCEPT !.pc = "refresh", !.todo = <<>>, !.use = 0,
                          !.sess = @ + (IF usage = NoUsage THEN 0 ELSE usage)]
    <2>2. Step(r, fin)
      BY <2>1 DEF CompleteTurn
    <2>3. fin.agent = run[r].agent
      BY <1>1 DEF RunRecord
    <2> HIDE DEF fin
    <2> QED
      BY <1>1, <2>2, <2>3, Elsewhere
  <1>8. CASE ChildFails(r)
    BY <1>1, <1>8, StopConverses DEF ChildFails
  <1>9. CASE ChildTimesOut(r)
    <2>1. PICK survives \in BOOLEAN : Step(r, [Stop(run[r]) EXCEPT !.orphan = survives])
      BY <1>9 DEF ChildTimesOut
    <2>2. [Stop(run[r]) EXCEPT !.orphan = survives].pc = "after_run"
      BY <1>1, StopType DEF RunRecord
    <2> QED
      BY <1>1, <2>1, <2>2, Elsewhere
  <1> QED
    BY <1>5, <1>6, <1>7, <1>8, <1>9

LEMMA OutputConverses ==
    ASSUME Sound, NEW r \in Runs, Output(r)
    PROVE  Converses(r)
  <1>1. Fits(r) /\ run[r] \in RunRecord
    BY OutputSound, RecordOf
  <1>2. CASE CliStream(r)
    <2>1. PICK sees \in BOOLEAN :
            At(r, "stream") /\ Step(r, [run[r] EXCEPT !.use = @ + 1, !.named = @ \/ sees])
      BY <1>2 DEF CliStream
    <2>2. [run[r] EXCEPT !.use = @ + 1, !.named = @ \/ sees].pc = "stream"
      BY <1>1, <2>1 DEF RunRecord, At
    <2> QED
      BY <1>1, <2>1, <2>2, Elsewhere
  <1>3. CASE OpenCodeStream(r)
    <2>1. At(r, "stream") /\ Step(r, [run[r] EXCEPT !.use = @ + 1, !.named = TRUE])
      BY <1>3 DEF OpenCodeStream
    <2>2. [run[r] EXCEPT !.use = @ + 1, !.named = TRUE].pc = "stream"
      BY <1>1, <2>1 DEF RunRecord, At
    <2> QED
      BY <1>1, <2>1, <2>2, Elsewhere
  <1>4. CASE LateStream(r) \/ OrphanEnds(r)
    <2>1. /\ run[r].pc \in {"after_run", "over"}
          /\ \/ Step(r, [run[r] EXCEPT !.use = @ + 1])
             \/ Step(r, [run[r] EXCEPT !.orphan = FALSE])
      BY <1>4 DEF LateStream, OrphanEnds
    <2>2. /\ [run[r] EXCEPT !.use = @ + 1].pc = run[r].pc
          /\ [run[r] EXCEPT !.orphan = FALSE].pc = run[r].pc
      BY <1>1 DEF RunRecord
    <2> QED
      BY <1>1, <2>1, <2>2, Elsewhere
  <1> QED
    BY <1>2, <1>3, <1>4 DEF Output

LEMMA EndConverses ==
    ASSUME Sound, Conversing, NEW r \in Runs, Refresh(r) \/ AfterRun(r)
    PROVE  Converses(r)
  <1>1. Fits(r) /\ run[r] \in RunRecord
    BY RefreshSound, AfterRunSound, RecordOf
  <1>2. CASE Refresh(r)
    <2>1. At(r, "refresh")
      BY <1>2 DEF Refresh
    <2>2. ASSUME NEW st, Step(r, [run[r] EXCEPT !.pc = "turn", !.turn = @ + 1, !.st = st])
          PROVE  Converses(r)
      <3> DEFINE new == [run[r] EXCEPT !.pc = "turn", !.turn = @ + 1, !.st = st]
      <3>1. PICK rec \in RunRecord : Step(r, rec)
        BY <1>1 DEF Fits
      <3>2. new = rec
        <4>1. run'[r] = new /\ run'[r] = rec
          BY <2>2, <3>1 DEF Step, Sound
        <4> QED
          BY <4>1
      <3>3. new.pc = "turn" /\ new.hist = run[r].hist /\ new.agent = run[r].agent
        BY <1>1 DEF RunRecord
      <3> HIDE DEF new
      <3>4. Converse(new)
        BY <2>1, <3>3 DEF Conversing, Converse, Waiting, At
      <3> QED
        BY <3>1, <3>2, <3>4 DEF Converses
    <2> QED
      BY <1>1, <1>2, <2>2, StopConverses DEF Refresh
  <1>3. CASE AfterRun(r)
    <2> DEFINE new == [Idle EXCEPT !.pc = "over", !.orphan = run[r].orphan, !.use = run[r].use,
                          !.agent = IF run[r].orphan THEN run[r].agent ELSE "none"]
    <2>1. Step(r, new)
      BY <1>3 DEF AfterRun
    <2>2. new.pc = "over"
      BY DEF Idle
    <2> HIDE DEF new
    <2> QED
      BY <1>1, <2>1, <2>2, Elsewhere
  <1> QED
    BY <1>2, <1>3

LEMMA NextConversing == Sound /\ Conversing /\ [Next]_vars => Conversing'
  <1> SUFFICES ASSUME Sound, Conversing, [Next]_vars PROVE Conversing'
    OBVIOUS
  <1>1. run \in [Runs -> RunRecord]
    BY DEF Sound
  <1>2. ASSUME NEW r \in Runs, Dispatch(r) PROVE Conversing'
    <2> DEFINE new == [Idle EXCEPT !.pc = "ensure", !.st = issue]
    <2>1. Fits(r) /\ Step(r, new)
      BY <1>2, DispatchSound DEF Dispatch
    <2>2. new.pc = "ensure"
      BY DEF Idle
    <2> HIDE DEF new
    <2> QED
      BY <1>1, <2>1, <2>2, Elsewhere, ConversesKept
  <1>3. ASSUME NEW r \in Runs, RunnerStep(r) PROVE Conversing'
    <2>1. Converses(r)
      BY <1>3, PrepareConverses, RawConverses, ChildConverses, EndConverses
        DEF RunnerStep, Child, CliSpawn, CliStdin, CliFinish, CliFails, CliTimesOut,
            OpenCodeSpawn, OpenCodeStdin, OpenCodeFinish, OpenCodeFails, OpenCodeTimesOut
    <2> QED
      BY <1>1, <2>1, ConversesKept
  <1>4. ASSUME NEW r \in Runs, Output(r) PROVE Conversing'
    BY <1>1, <1>4, OutputConverses, ConversesKept
  <1>5. CASE UNCHANGED run
    BY <1>5 DEF Conversing
  <1>6. CASE Restart
    <2>1. \A r \in Runs : run'[r].pc \in {"idle", "gone"}
      <3>1. Idle.pc = "idle" /\ [Idle EXCEPT !.pc = "gone"].pc = "gone"
        BY DEF Idle
      <3> QED
        BY <1>6, <3>1 DEF Restart
    <2> QED
      BY <2>1 DEF Conversing, Converse
  <1> QED
    BY <1>2, <1>3, <1>4, <1>5, <1>6
      DEF Next, vars, ConsumeExit, ConsumeEvent, Stall, Terminate, MoveIssue, Outside,
          Housekeeping

\* Every request to a provider answers each call of its history, one by one and
\* in the form that provider asks for, for histories of any length and whatever
\* the provider answers: failed tools, final calls with calls after them, turns
\* that end at once (turn.rs:90-149, anthropic.rs:174, openai.rs:163,
\* google.rs:67, ollama.rs:60).
THEOREM RequestsAnswerCalls == Spec => []CallsAnswered
  <1>1. AttemptInit => Conversing
    <2>1. Idle.pc = "idle"
      BY DEF Idle
    <2> QED
      BY <2>1 DEF AttemptInit, Conversing, Converse
  <1>2. Sound /\ Conversing => CallsAnswered
    <2> SUFFICES ASSUME Sound, Conversing, NEW r \in Runs, At(r, "call")
                 PROVE  /\ run[r].agent \in RawProviders
                        /\ Talk(Calls, run[r].hist, <<>>)
      <3>1. ASSUME NEW r \in Runs, Talk(Calls, run[r].hist, <<>>)
            PROVE  /\ AnsweredAtOnce(CollapseToAnthropic(run[r].hist))
                   /\ Answered(OpenAiMessages(run[r].hist))
                   /\ Answered(OllamaMessages(run[r].hist))
                   /\ Answered(GoogleContents(run[r].hist))
        BY <3>1, TalkAnswered
      <3> QED
        BY <3>1 DEF CallsAnswered, RawProviders
    <2>1. run[r].agent \in RawProviders
      BY RecordOf DEF Fit, At
    <2> QED
      BY <2>1 DEF Conversing, Converse, Waiting, At
  <1> QED
    BY <1>1, <1>2, SpecSound, NextConversing, PTL DEF Spec

-----------------------------------------------------------------------------
(* The attempts keep RunProtocol.                                          *)

\* Nobody reports who has not ended.
Reported == \A r \in exits : run[r].pc \in Over

\* Attempt r goes on, and the task with it, or it has ended and stays so.
GoesOn(r) ==
    \E rec : /\ Step(r, rec) /\ exits' = exits
             /\ rec.pc \in Live <=> run[r].pc \in Live
             /\ run[r].pc \in Over => rec.pc \in Over

\* Attempt r ends, and says so.
EndsNow(r) ==
    \E rec : Step(r, rec) /\ run[r].pc \in Live /\ rec.pc = "over" /\ exits' = exits \cup {r}

LEMMA LiveOrOver == Live \cap Over = {} /\ "idle" \notin Live /\ "idle" \notin Over
  BY DEF Live, Preparing, InSession, InTurn, Over

LEMMA StillLive ==
    ASSUME NEW r \in Runs, run[r].pc \in Live, NEW rec, Step(r, rec), rec.pc \in Live,
           exits' = exits
    PROVE  GoesOn(r)
  BY LiveOrOver DEF GoesOn

\* A record has a place for the pc.
LEMMA Placed ==
    ASSUME NEW rec \in RunRecord, NEW pc
    PROVE  [rec EXCEPT !.pc = pc].pc = pc
  BY DEF RunRecord

LEMMA PcOf ==
    ASSUME Sound, NEW r \in Runs
    PROVE  run[r] \in RunRecord /\ "pc" \in DOMAIN run[r]
  <1>1. run[r] \in RunRecord
    BY RecordOf
  <1> QED
    BY <1>1 DEF RunRecord

LEMMA StopsLive ==
    ASSUME NEW r \in Runs, run[r].pc \in Live, NEW rec \in RunRecord, Step(r, Stop(rec)),
           exits' = exits
    PROVE  GoesOn(r)
  <1>1. Stop(rec).pc = "after_run" /\ "after_run" \in Live
    BY StopType DEF Live, InSession
  <1> QED
    BY <1>1, StillLive

LEMMA LeavesNow ==
    ASSUME NEW r \in Runs, run[r].pc \in Live, Leave(r)
    PROVE  EndsNow(r)
  <1>1. [Idle EXCEPT !.pc = "over"].pc = "over"
    BY DEF Idle
  <1> QED
    BY <1>1 DEF Leave, EndsNow

LEMMA PrepareGoesOn ==
    ASSUME Sound, NEW r \in Runs,
           Ensure(r) \/ AfterCreate(r) \/ BeforeRun(r) \/ BuildFor(r) \/ StartSession(r)
           \/ PromptFails(r)
    PROVE  GoesOn(r) \/ EndsNow(r)
  <1>1. run[r] \in RunRecord
    BY RecordOf
  <1>2. run[r].pc \in Live
    BY DEF Ensure, AfterCreate, BeforeRun, BuildFor, StartSession, PromptFails, At, Live,
           Preparing, InSession, InTurn
  <1>3. ASSUME NEW pc \in Live, NEW rec, rec.pc = pc, Step(r, rec), exits' = exits
        PROVE  GoesOn(r)
    BY <1>2, <1>3, StillLive
  <1>4. {"after_create", "before_run", "build", "start", "turn"} \subseteq Live
    BY DEF Live, Preparing, InSession, InTurn
  <1>5. CASE Ensure(r)
    <2>1. CASE Leave(r)
      BY <1>2, <2>1, LeavesNow
    <2>2. CASE ~Leave(r)
      <3>1. PICK pc \in {"after_create", "before_run"} :
               pc = IF CreatedNow /\ "after_create" \in cfg.hooks
                    THEN "after_create" ELSE "before_run"
        OBVIOUS
      <3>2. Step(r, [run[r] EXCEPT !.at = dir'.gen, !.pc = pc]) /\ exits' = exits
        BY <1>5, <2>2, <3>1 DEF Ensure
      <3>3. [run[r] EXCEPT !.at = dir'.gen, !.pc = pc].pc = pc
        BY <1>1 DEF RunRecord
      <3> QED
        BY <1>3, <1>4, <3>2, <3>3
    <2> QED
      BY <2>1, <2>2
  <1>6. CASE AfterCreate(r)
    <2>1. \/ Leave(r)
          \/ Step(r, [run[r] EXCEPT !.pc = "before_run"]) /\ exits' = exits
      BY <1>6 DEF AfterCreate
    <2> QED
      BY <1>1, <1>2, <1>3, <1>4, <2>1, LeavesNow, Placed
  <1>7. CASE BeforeRun(r)
    <2>1. Leave(r) \/ (Step(r, [run[r] EXCEPT !.pc = "build"]) /\ exits' = exits)
      BY <1>7 DEF BeforeRun
    <2> QED
      BY <1>1, <1>2, <1>3, <1>4, <2>1, LeavesNow, Placed
  <1>8. CASE BuildFor(r)
    <2>1. \/ Leave(r)
          \/ \E agent : /\ Step(r, [run[r] EXCEPT !.pc = "start", !.agent = agent])
                        /\ exits' = exits
      BY <1>8 DEF BuildFor
    <2>2. ASSUME NEW agent PROVE [run[r] EXCEPT !.pc = "start", !.agent = agent].pc = "start"
      BY <1>1 DEF RunRecord
    <2> QED
      BY <1>2, <1>3, <1>4, <2>1, <2>2, LeavesNow
  <1>9. CASE StartSession(r)
    <2> DEFINE opened == [run[r] EXCEPT !.pc = "turn", !.turn = 1, !.started = TRUE]
    <2>1. opened.pc = "turn" /\ StartRaw(opened).pc = "turn" /\ StartCli(opened).pc = "turn"
      BY <1>1 DEF RunRecord, StartRaw, StartCli
    <2>2. exits' = exits /\ run[r].agent \in RawProviders \cup CliProviders \cup {"app_server"}
      BY <1>1, <1>9, RecordOf, ConfigType
        DEF StartSession, Quiet, Fit, At, InTurn, Preparing, Sound, RestOK, Agents
    <2>3. \/ Step(r, StartRaw(opened)) \/ Step(r, StartCli(opened))
          \/ Step(r, Stop(run[r]))
      BY <1>9, <2>2 DEF StartSession, StartStub
    <2> HIDE DEF opened
    <2> QED
      BY <1>1, <1>2, <1>3, <1>4, <2>1, <2>2, <2>3, StopsLive
  <1>10. CASE PromptFails(r)
    BY <1>1, <1>2, <1>10, StopsLive DEF PromptFails, Quiet
  <1> QED
    BY <1>5, <1>6, <1>7, <1>8, <1>9, <1>10

LEMMA CompletesLive ==
    ASSUME NEW r \in Runs, run[r].pc \in Live, NEW rec, "pc" \in DOMAIN rec, NEW usage,
           CompleteTurn(r, rec, usage), exits' = exits
    PROVE  GoesOn(r)
  <1>1. PICK sess : Step(r, [rec EXCEPT !.pc = "refresh", !.todo = <<>>, !.use = 0,
                                        !.sess = sess])
    BY DEF CompleteTurn
  <1>2. /\ [rec EXCEPT !.pc = "refresh", !.todo = <<>>, !.use = 0, !.sess = sess].pc = "refresh"
        /\ "refresh" \in Live
    BY DEF Live, InSession, InTurn
  <1> QED
    BY <1>1, <1>2, StillLive

LEMMA NextLive ==
    ASSUME NEW r \in Runs, run[r].pc \in Live, NEW rec, "pc" \in DOMAIN rec,
           AfterAnswer(r, rec), exits' = exits
    PROVE  GoesOn(r)
  <1>1. {"tools", "call", "after_run"} \subseteq Live
    BY DEF Live, InSession, InTurn
  <1>2. /\ [rec EXCEPT !.pc = "tools"].pc = "tools"
        /\ [rec EXCEPT !.pc = "call", !.iter = @ + 1].pc = "call"
        /\ Stop(rec).pc = "after_run"
    BY DEF Stop
  <1>3. \/ Step(r, [rec EXCEPT !.pc = "tools"])
        \/ Step(r, [rec EXCEPT !.pc = "call", !.iter = @ + 1])
        \/ Step(r, Stop(rec))
        \/ CompleteTurn(r, rec, rec.use)
    BY DEF AfterAnswer, Next1
  <1> QED
    BY <1>1, <1>2, <1>3, StillLive, CompletesLive

LEMMA RawGoesOn ==
    ASSUME Sound, NEW r \in Runs,
           RawBegin(r) \/ DeadlinePassed(r) \/ CallLlm(r) \/ RunTool(r) \/ WriteFile(r)
    PROVE  GoesOn(r)
  <1>1. run[r] \in RunRecord /\ "pc" \in DOMAIN run[r]
    BY PcOf
  <1>2. run[r].pc \in Live /\ exits' = exits
    BY DEF RawBegin, DeadlinePassed, CallLlm, RunTool, WriteFile, At, Live, InSession, InTurn,
           Quiet
  <1>3. {"call", "tools", "write"} \subseteq Live
    BY DEF Live, InSession, InTurn
  <1>4. CASE RawBegin(r)
    <2>1. PICK hist : Step(r, [run[r] EXCEPT !.pc = "call", !.hist = hist, !.iter = 0,
                                             !.use = 0])
      BY <1>4 DEF RawBegin
    <2>2. [run[r] EXCEPT !.pc = "call", !.hist = hist, !.iter = 0, !.use = 0].pc = "call"
      BY <1>1
    <2> QED
      BY <1>2, <1>3, <2>1, <2>2, StillLive
  <1>5. CASE DeadlinePassed(r)
    BY <1>1, <1>2, <1>5, StopsLive DEF DeadlinePassed
  <1>6. CASE CallLlm(r)
    <2>1. PICK hist, use, calls :
            LET rec == [run[r] EXCEPT !.hist = hist, !.use = use, !.todo = calls, !.fin = FALSE]
            IN  \/ Step(r, Stop(run[r]))
                \/ CompleteTurn(r, rec, rec.use)
                \/ Step(r, [rec EXCEPT !.pc = "tools"])
      BY <1>6 DEF CallLlm
    <2> DEFINE rec == [run[r] EXCEPT !.hist = hist, !.use = use, !.todo = calls, !.fin = FALSE]
    <2>2. "pc" \in DOMAIN rec /\ [rec EXCEPT !.pc = "tools"].pc = "tools"
      BY <1>1
    <2>3. \/ Step(r, Stop(run[r])) \/ CompleteTurn(r, rec, rec.use)
          \/ Step(r, [rec EXCEPT !.pc = "tools"])
      BY <2>1
    <2> HIDE DEF rec
    <2> QED
      <3>1. CASE Step(r, Stop(run[r]))
        BY <1>1, <1>2, <3>1, StopsLive
      <3>2. CASE CompleteTurn(r, rec, rec.use)
        BY <1>2, <2>2, <3>2, CompletesLive
      <3>3. CASE Step(r, [rec EXCEPT !.pc = "tools"])
        BY <1>2, <1>3, <2>2, <3>3, StillLive
      <3> QED
        BY <2>3, <3>1, <3>2, <3>3
  <1>7. "pc" \in DOMAIN Answer(run[r])
    BY <1>1 DEF Answer
  <1>8. CASE RunTool(r)
    <2>1. \/ Step(r, Stop(run[r]))
          \/ Step(r, [run[r] EXCEPT !.pc = "write"])
          \/ AfterAnswer(r, Answer(run[r]))
      <3> DEFINE result == DispatchTool(Head(run[r].todo), dir.here)
      <3>1. result \in {"abort", "resolved", "answer"}
        BY DEF DispatchTool, RunShell, RunReadFile, RunWriteFile, RunEditFile, RunListDir,
               RunFileTool, ResolveInWorkspace
      <3> QED
        BY <1>8, <3>1 DEF RunTool
    <2> QED
      BY <1>1, <1>2, <1>3, <1>7, <2>1, StopsLive, NextLive, StillLive, Placed
  <1>9. CASE WriteFile(r)
    BY <1>2, <1>7, <1>9, NextLive DEF WriteFile
  <1> QED
    BY <1>4, <1>5, <1>6, <1>8, <1>9

LEMMA ChildGoesOn ==
    ASSUME Sound, NEW r \in Runs,
           \/ SpawnChild(r) \/ WriteStdin(r) \/ FinishChild(r) \/ ChildFails(r)
           \/ ChildTimesOut(r) \/ Refresh(r)
    PROVE  GoesOn(r)
  <1>1. run[r] \in RunRecord /\ "pc" \in DOMAIN run[r]
    BY PcOf
  <1>2. run[r].pc \in Live /\ exits' = exits
    BY DEF SpawnChild, WriteStdin, FinishChild, ChildFails, ChildTimesOut, Refresh, At, Live,
           InSession, InTurn, Quiet
  <1>3. {"stdin", "stream", "turn", "after_run"} \subseteq Live
    BY DEF Live, InSession, InTurn
  <1>4. CASE SpawnChild(r)
    <2>1. [run[r] EXCEPT !.pc = "stdin", !.use = 0].pc = "stdin"
      BY <1>1
    <2> QED
      BY <1>1, <1>2, <1>3, <1>4, <2>1, StillLive, StopsLive DEF SpawnChild
  <1>5. CASE WriteStdin(r)
    <2>1. [run[r] EXCEPT !.pc = "stream"].pc = "stream"
      BY <1>1
    <2>2. [run[r] EXCEPT !.stuck = TRUE].pc = run[r].pc
      BY <1>1
    <2> QED
      BY <1>1, <1>2, <1>3, <1>5, <2>1, <2>2, StillLive, StopsLive DEF WriteStdin
  <1>6. CASE FinishChild(r)
    <2>1. PICK thread, named, usage :
            CompleteTurn(r, [run[r] EXCEPT !.thread = thread, !.named = named], usage)
      BY <1>6 DEF FinishChild
    <2>2. "pc" \in DOMAIN [run[r] EXCEPT !.thread = thread, !.named = named]
      BY <1>1
    <2> QED
      BY <1>2, <2>1, <2>2, CompletesLive
  <1>7. CASE ChildFails(r)
    BY <1>1, <1>2, <1>7, StopsLive DEF ChildFails
  <1>8. CASE ChildTimesOut(r)
    <2>1. PICK survives : Step(r, [Stop(run[r]) EXCEPT !.orphan = survives])
      BY <1>8 DEF ChildTimesOut
    <2>2. [Stop(run[r]) EXCEPT !.orphan = survives].pc = "after_run"
      BY <1>1, StopType DEF RunRecord
    <2> QED
      BY <1>2, <1>3, <2>1, <2>2, StillLive
  <1>9. CASE Refresh(r)
    <2>1. \/ Step(r, Stop(run[r]))
          \/ \E st : Step(r, [run[r] EXCEPT !.pc = "turn", !.turn = @ + 1, !.st = st])
      BY <1>9 DEF Refresh
    <2>2. ASSUME NEW st
          PROVE  [run[r] EXCEPT !.pc = "turn", !.turn = @ + 1, !.st = st].pc = "turn"
      BY <1>1
    <2> QED
      BY <1>1, <1>2, <1>3, <2>1, <2>2, StillLive, StopsLive
  <1> QED
    BY <1>4, <1>5, <1>6, <1>7, <1>8, <1>9

LEMMA AfterRunEnds ==
    ASSUME NEW r \in Runs, AfterRun(r)
    PROVE  EndsNow(r)
  <1>1. PICK orphan, use, agent :
          Step(r, [Idle EXCEPT !.pc = "over", !.orphan = orphan, !.use = use, !.agent = agent])
    BY DEF AfterRun
  <1>2. [Idle EXCEPT !.pc = "over", !.orphan = orphan, !.use = use, !.agent = agent].pc = "over"
    BY DEF Idle
  <1>3. exits' = exits \cup {r} /\ run[r].pc \in Live
    BY DEF AfterRun, At, Live, InSession
  <1> QED
    BY <1>1, <1>2, <1>3 DEF EndsNow

LEMMA OutputGoesOn ==
    ASSUME Sound, NEW r \in Runs, Output(r)
    PROVE  GoesOn(r)
  <1>1. run[r] \in RunRecord /\ "pc" \in DOMAIN run[r]
    BY PcOf
  <1>2. exits' = exits
    BY DEF Output, CliStream, OpenCodeStream, LateStream, OrphanEnds, Quiet
  <1>3. PICK use, named, orphan :
          \/ Step(r, [run[r] EXCEPT !.use = use, !.named = named])
          \/ Step(r, [run[r] EXCEPT !.use = use])
          \/ Step(r, [run[r] EXCEPT !.orphan = orphan])
    BY DEF Output, CliStream, OpenCodeStream, LateStream, OrphanEnds
  <1>4. /\ [run[r] EXCEPT !.use = use, !.named = named].pc = run[r].pc
        /\ [run[r] EXCEPT !.use = use].pc = run[r].pc
        /\ [run[r] EXCEPT !.orphan = orphan].pc = run[r].pc
    BY <1>1
  <1> QED
    BY <1>2, <1>3, <1>4 DEF GoesOn

LEMMA RunnerGoesOn ==
    ASSUME Sound, NEW r \in Runs, RunnerStep(r) \/ Output(r)
    PROVE  GoesOn(r) \/ EndsNow(r)
  BY PrepareGoesOn, RawGoesOn, ChildGoesOn, AfterRunEnds, OutputGoesOn
    DEF RunnerStep, CliSpawn, CliStdin, CliFinish, CliFails, CliTimesOut,
        OpenCodeSpawn, OpenCodeStdin, OpenCodeFinish, OpenCodeFails, OpenCodeTimesOut

\* What the mapping shows.
Tasks == {r \in Runs : run[r].pc \in Live}

LEMMA TasksGoOn ==
    ASSUME Sound, NEW r \in Runs, GoesOn(r)
    PROVE  Tasks' = Tasks /\ exits' = exits /\ (Reported => Reported')
  <1>1. PICK rec : /\ run' = [run EXCEPT ![r] = rec] /\ exits' = exits
                   /\ rec.pc \in Live <=> run[r].pc \in Live
                   /\ run[r].pc \in Over => rec.pc \in Over
    BY DEF GoesOn, Step
  <1>2. \A q \in Runs : run'[q] = IF q = r THEN rec ELSE run[q]
    BY <1>1 DEF Sound
  <1>3. exits \subseteq Runs
    BY DEF Sound, RestOK
  <1> QED
    BY <1>1, <1>2, <1>3 DEF Tasks, Reported

LEMMA TaskOfRunEnds ==
    ASSUME Sound, NEW r \in Runs, EndsNow(r)
    PROVE  /\ r \in Tasks /\ Tasks' = Tasks \ {r} /\ exits' = exits \cup {r}
           /\ Reported => Reported'
  <1>1. PICK rec : /\ run' = [run EXCEPT ![r] = rec] /\ exits' = exits \cup {r}
                   /\ rec.pc = "over" /\ run[r].pc \in Live
    BY DEF EndsNow, Step
  <1>2. \A q \in Runs : run'[q] = IF q = r THEN rec ELSE run[q]
    BY <1>1 DEF Sound
  <1>3. exits \subseteq Runs /\ rec.pc \in Over /\ rec.pc \notin Live
    BY <1>1, LiveOrOver DEF Sound, RestOK, Over
  <1> QED
    BY <1>1, <1>2, <1>3 DEF Tasks, Reported

LEMMA TaskStarts ==
    ASSUME Sound, NEW r \in Runs, Dispatch(r)
    PROVE  /\ r \notin Tasks /\ Tasks' = Tasks \cup {r} /\ exits' = exits
           /\ Reported => r \notin exits /\ Reported'
  <1>1. PICK rec : run' = [run EXCEPT ![r] = rec] /\ rec.pc = "ensure"
    <2>1. [Idle EXCEPT !.pc = "ensure", !.st = issue].pc = "ensure"
      BY DEF Idle
    <2> QED
      BY <2>1 DEF Dispatch, Step
  <1>2. \A q \in Runs : run'[q] = IF q = r THEN rec ELSE run[q]
    BY <1>1 DEF Sound
  <1>3. exits \subseteq Runs /\ "ensure" \in Live /\ run[r].pc = "idle" /\ exits' = exits
    BY DEF Sound, RestOK, Live, Preparing, Dispatch, At
  <1> QED
    BY <1>1, <1>2, <1>3, LiveOrOver DEF Tasks, Reported

\* The orchestrator's steps leave the attempts where they are.
LEMMA AttemptsRest ==
    ASSUME UNCHANGED run, exits' \subseteq exits
    PROVE  Tasks' = Tasks /\ (Reported => Reported')
  BY DEF Tasks, Reported

LEMMA RestartEnds ==
    ASSUME Sound, Restart
    PROVE  Tasks' = {} /\ exits' = {} /\ entry' = NoEntry /\ Reported'
  <1>1. \A r \in Runs : run'[r].pc \in {"idle", "gone"}
    <2>1. Idle.pc = "idle" /\ [Idle EXCEPT !.pc = "gone"].pc = "gone"
      BY DEF Idle
    <2> QED
      BY <2>1 DEF Restart
  <1>2. "gone" \notin Live /\ "idle" \notin Live
    BY LiveOrOver DEF Over
  <1> QED
    BY <1>1, <1>2 DEF Restart, Tasks, Reported

LEMMA NextReported == Sound /\ Reported /\ [Next]_vars => Reported'
  <1> SUFFICES ASSUME Sound, Reported, [Next]_vars PROVE Reported'
    OBVIOUS
  <1>1. ASSUME NEW r \in Runs, Dispatch(r) \/ RunnerStep(r) \/ Output(r) PROVE Reported'
    BY <1>1, TaskStarts, RunnerGoesOn, TasksGoOn, TaskOfRunEnds
  <1>2. CASE UNCHANGED run /\ exits' \subseteq exits
    BY <1>2, AttemptsRest
  <1> QED
    BY <1>1, <1>2, RestartEnds
      DEF Next, vars, ConsumeExit, ConsumeEvent, Stall, Terminate, MoveIssue, Outside,
          Housekeeping

Owner == {entry.run} \ {NoRun}

LEMMA ProtocolRests ==
    ASSUME Owner' = Owner, Tasks' = Tasks, exits' = exits
    PROVE  UNCHANGED Protocol!vars
  BY DEF Protocol!vars, Owner, Tasks

\* Every step of the attempts and of the orchestrator around them.
LEMMA NextKeepsProtocol ==
    Sound /\ Reported /\ [Next]_vars => [Protocol!Next]_(Protocol!vars)
  <1> SUFFICES ASSUME Sound, Reported, [Next]_vars PROVE [Protocol!Next]_(Protocol!vars)
    OBVIOUS
  <1>1. NoEntry.run = NoRun
    BY DEF NoEntry
  <1>2. ASSUME NEW r \in Runs, Dispatch(r) PROVE Protocol!Dispatch("issue", r)
    <2>1. /\ r \notin Tasks /\ Tasks' = Tasks \cup {r} /\ exits' = exits /\ r \notin exits
      BY <1>2, TaskStarts
    <2>2. entry = NoEntry /\ entry' = [run |-> r, base |-> 0] /\ r # NoRun
      BY <1>2, AttemptBounds DEF Dispatch, Runs, NoRun
    <2>3. Owner = {} /\ Owner' = {r}
      BY <1>1, <2>2 DEF Owner
    <2>4. r \notin Protocol!Used
      BY <2>1 DEF Protocol!Used, Tasks
    <2>5. [i \in {"issue"} |-> Owner'] = [[i \in {"issue"} |-> Owner] EXCEPT !["issue"] = {r}]
      BY <2>3
    <2>6. [i \in {"issue"} |-> Tasks']
            = [[i \in {"issue"} |-> Tasks] EXCEPT !["issue"] = @ \cup {r}]
      BY <2>1
    <2> QED
      BY <2>1, <2>3, <2>4, <2>5, <2>6 DEF Protocol!Dispatch, Owner, Tasks
  <1>3. ASSUME NEW r \in Runs, RunnerStep(r) \/ Output(r)
        PROVE  Protocol!Report("issue", r) \/ UNCHANGED Protocol!vars
    <2>1. entry' = entry
      BY <1>3, RunnerAside
    <2>2. Owner' = Owner
      BY <2>1 DEF Owner
    <2>3. CASE GoesOn(r)
      BY <2>2, <2>3, TasksGoOn, ProtocolRests
    <2>4. CASE EndsNow(r)
      <3>1. r \in Tasks /\ Tasks' = Tasks \ {r} /\ exits' = exits \cup {r}
        BY <2>4, TaskOfRunEnds
      <3>2. [i \in {"issue"} |-> Tasks']
              = [[i \in {"issue"} |-> Tasks] EXCEPT !["issue"] = @ \ {r}]
        BY <3>1
      <3>3. [i \in {"issue"} |-> exits']
              = [[i \in {"issue"} |-> exits] EXCEPT !["issue"] = @ \cup {r}]
        BY <3>1
      <3> QED
        BY <2>2, <3>1, <3>2, <3>3 DEF Protocol!Report, Owner, Tasks
    <2> QED
      BY <1>3, <2>3, <2>4, RunnerGoesOn
  <1>4. ASSUME NEW r \in Runs, ConsumeExit(r) PROVE Protocol!Read("issue", r)
    <2>1. r \in exits /\ exits' = exits \ {r} /\ UNCHANGED run /\ entry' = NoEntry
      BY <1>4 DEF ConsumeExit, Outside, Forget
    <2>2. Owner' = {} /\ Tasks' = Tasks
      BY <1>1, <2>1 DEF Owner, Tasks
    <2>3. [i \in {"issue"} |-> Owner'] = [[i \in {"issue"} |-> Owner] EXCEPT !["issue"] = {}]
      BY <2>2
    <2>4. [i \in {"issue"} |-> exits']
            = [[i \in {"issue"} |-> exits] EXCEPT !["issue"] = @ \ {r}]
      BY <2>1
    <2> QED
      BY <2>1, <2>2, <2>3, <2>4 DEF Protocol!Read, Owner, Tasks
  <1>5. CASE Stall \/ Terminate
    <2>1. exits' = exits /\ UNCHANGED run /\ entry' = NoEntry
      BY <1>5 DEF Stall, Terminate, Outside, Forget
    <2>2. Owner' = {} /\ Tasks' = Tasks
      BY <1>1, <2>1 DEF Owner, Tasks
    <2>3. [i \in {"issue"} |-> Owner'] = [[i \in {"issue"} |-> Owner] EXCEPT !["issue"] = {}]
      BY <2>2
    <2>4. Protocol!Forget("issue")
      BY <2>1, <2>2, <2>3 DEF Protocol!Forget, Owner, Tasks
    <2> QED
      BY <2>4 DEF Protocol!Next
  <1>6. CASE ConsumeEvent
    <2>1. exits' = exits /\ UNCHANGED run
      BY <1>6 DEF ConsumeEvent, Outside
    <2>2. entry \in Entry
      BY DEF Sound, RestOK
    <2>3. entry' = entry \/ \E base : entry' = [entry EXCEPT !.base = base]
      BY <1>6 DEF ConsumeEvent
    <2>4. Owner' = Owner /\ Tasks' = Tasks
      BY <2>1, <2>2, <2>3 DEF Owner, Tasks, Entry
    <2> QED
      BY <2>1, <2>4, ProtocolRests
  <1>7. CASE MoveIssue \/ Housekeeping \/ UNCHANGED vars
    <2>1. UNCHANGED <<run, entry, exits>>
      BY <1>7 DEF MoveIssue, Housekeeping, vars
    <2>2. Owner' = Owner /\ Tasks' = Tasks
      BY <2>1 DEF Owner, Tasks
    <2> QED
      BY <2>1, <2>2, ProtocolRests
  <1>8. CASE Restart
    <2>1. Tasks' = {} /\ exits' = {} /\ Owner' = {}
      BY <1>1, <1>8, RestartEnds DEF Owner
    <2>2. Protocol!Restart
      BY <2>1 DEF Protocol!Restart, Protocol!Nothing, Owner, Tasks
    <2> QED
      BY <2>2 DEF Protocol!Next
  <1> QED
    BY <1>2, <1>3, <1>4, <1>5, <1>6, <1>7, <1>8 DEF Next, Protocol!Next

\* The attempts of an issue, with what this module says of the orchestrator, keep
\* the protocol of runs, for any number of attempts: a run ends with one report,
\* after its last hook, and none starts before the entry of the one before it has
\* gone (mod.rs dispatch_one, run_worker, on_worker_exit).
THEOREM AttemptsKeepProtocol == Spec => KeepsProtocol
  <1>1. Idle.pc = "idle"
    BY DEF Idle
  <1>2. AttemptInit => Reported
    BY DEF AttemptInit, Reported
  <1>3. AttemptInit => Protocol!Init
    BY <1>1, LiveOrOver DEF AttemptInit, NoEntry, Protocol!Init, Protocol!Nothing
  <1> QED
    BY <1>2, <1>3, SpecSound, NextReported, NextKeepsProtocol, PTL
      DEF Spec, KeepsProtocol, Protocol!Spec
====
