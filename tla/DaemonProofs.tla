---------------------------- MODULE DaemonProofs ----------------------------
(***************************************************************************)
(* Proofs about Daemon: its type invariant, the order of the contents a    *)
(* run reads while a reload swaps them, what is in force once a reload has *)
(* settled, and what --check tells of a start and of the prompts.          *)
(*                                                                         *)
(* The inductive invariant says where a reload stands: the parts before    *)
(* the one it swaps next are one load ahead of the others, and a run's     *)
(* positions are bounded by the parts it has read.                         *)
(***************************************************************************)
EXTENDS Daemon, TLAPS

Swapped == [workflow  |-> {}, config |-> {"workflow"}, tracker |-> {"workflow", "config"},
            workspace |-> {"workflow", "config", "tracker"},
            limits    |-> {"workflow", "config", "tracker", "workspace"}]

\* The parts a live run has read.
HasRead == [config    |-> {}, workflow |-> {"config"}, workspace |-> {"config", "workflow"},
            tracker   |-> {"config", "workflow", "workspace"},
            working   |-> {"config", "workflow", "workspace", "tracker"}]

\* The type invariant, by the variables it speaks of, with the shapes of the
\* records.
DaemonShape == DOMAIN daemon = {"phase", "error", "from", "secret"} /\ daemon.phase \in Phases
WatchShape  == watch \in [on : BOOLEAN, raw : BOOLEAN, recent : BOOLEAN, signals : Nat]
Reloading   ==
    /\ loaded \in Seq(Names) /\ reload \in Parts \cup {"idle", "read"}
    /\ inForce \in [Parts -> Nat] /\ \A p \in Parts : inForce[p] \in 0..Len(loaded)
RunShape    == [pc : Live \cup {"idle", "over"}, issue : Issues \cup {None}, attempt : Nat, config : Nat,
                workflow : Nat, workspace : Nat, tracker : Nat]
Running     == run \in [Runs -> RunShape]
Flags       == file \in Names /\ lost \in BOOLEAN /\ refresh \in BOOLEAN /\ registry \subseteq WebCallbacks
Typed       == DaemonShape /\ WatchShape /\ Reloading /\ Running /\ Flags

\* A process that is down has nothing under way.
Resting ==
    daemon.phase # "up" =>
        /\ reload = "idle" /\ watch.signals = 0 /\ ~watch.raw /\ ~watch.on
        /\ \A r \in Runs : run[r].pc \notin Live

Position(p) == IF reload \in Parts /\ p \notin Swapped[reload] THEN Len(loaded) - 1 ELSE Len(loaded)

Swapping ==
    daemon.phase = "up" =>
        /\ Len(loaded) >= 1
        /\ reload \in Parts => Len(loaded) >= 2
        /\ \A p \in Parts : inForce[p] = Position(p)

Reading(r) ==
    run[r].pc \in Live =>
        /\ "config" \in HasRead[run[r].pc] => run[r].config \in 1..inForce["config"]
        /\ "workflow" \in HasRead[run[r].pc] => run[r].workflow \in run[r].config..Len(loaded)
        /\ "workspace" \in HasRead[run[r].pc] =>
               /\ run[r].workspace + 1 >= run[r].config
               /\ run[r].workspace <= inForce["workspace"]
        /\ "tracker" \in HasRead[run[r].pc] => run[r].tracker >= run[r].workspace

Accepted == \A i \in DOMAIN loaded : Usable(loaded[i])

\* The last change was read, or will be, or was lost.
Seen ==
    (daemon.phase = "up" /\ reload # "read" /\ ~watch.raw /\ watch.signals = 0 /\ ~lost) =>
        (Usable(file) => loaded[Len(loaded)] = file)

Refused ==
    daemon.phase = "refused" =>
        daemon.from \in Names /\ daemon.error = Starts[daemon.from] /\ daemon.error # Ok

Inductive ==
    /\ Typed /\ Resting /\ Swapping /\ Accepted /\ Seen /\ Refused
    /\ \A r \in Runs : Reading(r)

\* The variables the invariant speaks of.
minded == <<file, daemon, loaded, inForce, reload, refresh, watch, lost, run, registry>>

-----------------------------------------------------------------------------
(* The tables.                                                             *)

LEMMA EvaluatedIs == ASSUME NEW f PROVE Evaluated(f) = f
BY DEF Evaluated

LEMMA EvaluatedTables ==
    ASSUME NEW name \in Names
    PROVE  /\ Starts[name] = StartError(Files[name], PortFlag)
           /\ Reloads[name] = ReloadError(Files[name])
           /\ Checks[name] = CheckWorkflow(Files[name])
           /\ LoadError(Files[name]) = Ok => Services[name] = <<Service(Files[name])>>
BY EvaluatedIs DEF Starts, Reloads, Checks, Services

\* A content that starts is one a reload accepts.
LEMMA StartsUsable ==
    ASSUME NEW name \in Names, Starts[name] = Ok
    PROVE  Usable(name)
BY EvaluatedTables DEF StartError, Usable

-----------------------------------------------------------------------------
(* Type correctness.                                                       *)

LEMMA TypedIsType == Typed => DaemonTypeOK
BY DEF Typed, DaemonShape, WatchShape, Reloading, RunShape, Running, Flags, DaemonTypeOK

LEMMA InitTyped == DaemonInit => Typed
<1> SUFFICES ASSUME DaemonInit PROVE Typed
  OBVIOUS
<1>1. file \in Names /\ reload = "idle" /\ refresh = FALSE /\ lost = FALSE
  BY DaemonPlans DEF DaemonInit
<1>2. CASE plan.start = "down"
  <2>0. /\ daemon = [phase |-> "down", error |-> Ok, from |-> file, secret |-> None]
        /\ watch = Quiet /\ registry = {}
    BY <1>2 DEF DaemonInit
  <2>1. DaemonShape /\ WatchShape /\ Flags
    <3>1. DaemonShape
      BY <2>0 DEF DaemonShape, Phases
    <3>2. WatchShape
      BY <2>0 DEF WatchShape, Quiet
    <3>3. QED
      BY <1>1, <2>0, <3>1, <3>2 DEF Flags
  <2>2. loaded = <<>> /\ inForce = [p \in Parts |-> 0] /\ run = [r \in Runs |-> NoRun]
    BY <1>2 DEF DaemonInit
  <2>3. Reloading
    BY <1>1, <2>2 DEF Reloading
  <2>4. Running
    BY <2>2 DEF Running, RunShape, NoRun
  <2>5. QED
    BY <2>1, <2>3, <2>4 DEF Typed
<1>3. CASE plan.start # "down"
  <2>0. /\ daemon = [phase |-> "up", error |-> Ok, from |-> file,
                    secret |-> Services[file][1].telemetry.sinfonia_events_secret]
        /\ watch = [Quiet EXCEPT !.on = TRUE] /\ registry = WebCallbacks
    BY <1>3 DEF DaemonInit
  <2>1. DaemonShape /\ WatchShape /\ Flags
    <3>1. DaemonShape
      BY <2>0 DEF DaemonShape, Phases
    <3>2. WatchShape
      BY <2>0 DEF WatchShape, Quiet
    <3>3. QED
      BY <1>1, <2>0, <3>1, <3>2 DEF Flags
  <2>2. loaded = <<file>> /\ inForce = [p \in Parts |-> 1]
    BY <1>3 DEF DaemonInit
  <2>3. PICK issue \in plan.sessions :
            run = [r \in Runs |-> [NoRun EXCEPT !.pc = "over", !.issue = issue[r]]]
    BY <1>3 DEF DaemonInit
  <2>4. issue \in [Runs -> Issues]
    BY DaemonPlans DEF DaemonInit
  <2>5. Reloading
    BY <1>1, <2>2 DEF Reloading
  <2>6. Running
    BY <2>3, <2>4 DEF Running, RunShape, NoRun
  <2>7. QED
    BY <2>1, <2>5, <2>6 DEF Typed
<1>4. QED
  BY <1>2, <1>3

\* What a step leaves as it is keeps its type.
LEMMA KeepsType ==
    ASSUME Typed
    PROVE  /\ UNCHANGED daemon => DaemonShape'
           /\ UNCHANGED watch => WatchShape'
           /\ UNCHANGED <<loaded, inForce, reload>> => Reloading'
           /\ UNCHANGED run => Running'
           /\ UNCHANGED <<file, lost, refresh, registry>> => Flags'
BY DEF Typed, DaemonShape, WatchShape, Reloading, Running, Flags

LEMMA FilesTyped ==
    ASSUME Typed, Start \/ Crash \/ (\E name \in Names : Edit(name)) \/ Watch \/ Debounce \/ Settle200ms
    PROVE  Typed'
<1>1. CASE Start
  <2>1. Running'
    BY <1>1, KeepsType DEF Start
  <2>2. CASE Starts[file] = Ok
    <3>1. loaded' = <<file>> /\ inForce' = [p \in Parts |-> 1] /\ reload' = reload
      BY <1>1, <2>2 DEF Start
    <3>2. Reloading'
      BY <3>1 DEF Reloading, Typed, Flags
    <3>3. DaemonShape' /\ WatchShape' /\ Flags'
      <4>1. /\ daemon' = [phase |-> "up", error |-> Ok, from |-> file,
                          secret |-> Services[file][1].telemetry.sinfonia_events_secret]
            /\ watch' = Quiet /\ registry' = {} /\ lost' = FALSE /\ UNCHANGED <<file, refresh>>
        BY <1>1, <2>2 DEF Start
      <4>2. DaemonShape'
        BY <4>1 DEF DaemonShape, Phases
      <4>3. WatchShape'
        BY <4>1 DEF WatchShape, Quiet
      <4>4. QED
        BY <4>1, <4>2, <4>3 DEF Flags, Typed
    <3>4. QED
      BY <2>1, <3>2, <3>3 DEF Typed
  <2>3. CASE Starts[file] # Ok
    <3>1. DaemonShape'
      BY <1>1, <2>3 DEF Start, DaemonShape, Typed, Phases
    <3>2. QED
      BY <1>1, <2>1, <2>3, <3>1, KeepsType DEF Start, Typed
  <2>4. QED
    BY <2>2, <2>3
<1>2. CASE Crash
  <2>1. Running'
    BY <1>2 DEF Crash, NoRun, Typed, Running, RunShape, Live
  <2>2. DaemonShape' /\ WatchShape'
    BY <1>2 DEF Crash, DaemonShape, WatchShape, Typed, Quiet, Phases
  <2>3. Reloading' /\ Flags'
    BY <1>2 DEF Crash, Reloading, Flags, Typed
  <2>4. QED
    BY <2>1, <2>2, <2>3 DEF Typed
<1>3. ASSUME NEW name \in Names, Edit(name) PROVE Typed'
  <2>1. Flags' /\ WatchShape'
    BY <1>3 DEF Edit, swapping, emitting, Flags, WatchShape, Typed
  <2>2. QED
    BY <1>3, <2>1, KeepsType DEF Edit, swapping, emitting, Typed
<1>4. CASE Watch
  <2>1. WatchShape'
    BY <1>4 DEF Watch, WatchShape, Typed
  <2>2. QED
    BY <1>4, <2>1, KeepsType DEF Watch, swapping, emitting, Typed
<1>5. CASE Debounce
  <2>1. WatchShape' /\ lost' \in BOOLEAN
    <3>1. CASE watch.recent
      <4>1. watch' = [watch EXCEPT !.raw = FALSE] /\ lost' = TRUE
        BY <1>5, <3>1 DEF Debounce
      <4>2. QED
        BY <4>1 DEF WatchShape, Typed
    <3>2. CASE ~watch.recent
      <4>1. watch' = [watch EXCEPT !.raw = FALSE, !.recent = TRUE, !.signals = @ + 1] /\ lost' = lost
        BY <1>5, <3>2 DEF Debounce
      <4>2. watch.signals \in Nat /\ watch' = [on |-> watch.on, raw |-> FALSE, recent |-> TRUE,
                                              signals |-> watch.signals + 1]
        BY <4>1 DEF WatchShape, Typed
      <4>3. WatchShape'
        BY <4>2 DEF WatchShape, Typed
      <4>4. QED
        BY <4>1, <4>3 DEF Typed, Flags
    <3>3. QED
      BY <3>1, <3>2
  <2>2. Flags'
    BY <1>5, <2>1 DEF Debounce, swapping, emitting, Flags, Typed
  <2>3. QED
    BY <1>5, <2>1, <2>2, KeepsType DEF Debounce, swapping, emitting, Typed
<1>6. CASE Settle200ms
  <2>1. WatchShape'
    BY <1>6 DEF Settle200ms, WatchShape, Typed
  <2>2. QED
    BY <1>6, <2>1, KeepsType DEF Settle200ms, swapping, emitting, Typed
<1>7. QED
  BY <1>1, <1>2, <1>3, <1>4, <1>5, <1>6

LEMMA ReloadTyped ==
    ASSUME Typed, TakeSignal \/ ReadFile \/ Swap \/ Wake
    PROVE  Typed'
<1>1. CASE TakeSignal
  <2>1. WatchShape'
    BY <1>1 DEF TakeSignal, WatchShape, Typed
  <2>2. Reloading'
    BY <1>1 DEF TakeSignal, Reloading, Typed
  <2>3. QED
    BY <1>1, <2>1, <2>2, KeepsType DEF TakeSignal, emitting, Typed
<1>2. CASE ReadFile
  <2>1. Flags'
    BY <1>2 DEF ReadFile, emitting, Flags, Typed
  <2>2. CASE Usable(file)
    <3>1. loaded' = Append(loaded, file) /\ reload' = "workflow" /\ inForce' = inForce
      BY <1>2, <2>2 DEF ReadFile
    <3>2. Reloading'
      BY <3>1 DEF Reloading, Parts, Typed, Flags
    <3>3. QED
      BY <1>2, <2>1, <3>2, KeepsType DEF ReadFile, emitting, Typed
  <2>3. CASE ~Usable(file)
    <3>1. Reloading'
      BY <1>2, <2>3 DEF ReadFile, Reloading, Typed
    <3>2. QED
      BY <1>2, <2>1, <3>1, KeepsType DEF ReadFile, emitting, Typed
  <2>4. QED
    BY <2>2, <2>3
<1>3. CASE Swap
  <2>1. SwapNext[reload] \in Parts \cup {"idle", "read"}
    BY <1>3 DEF Swap, SwapNext, Parts
  <2>2. Reloading'
    BY <1>3, <2>1 DEF Swap, Reloading, Typed
  <2>3. Flags'
    BY <1>3 DEF Swap, Flags, Typed, filing, emitting
  <2>4. QED
    BY <1>3, <2>2, <2>3, KeepsType DEF Swap, filing, emitting, Typed
<1>4. CASE Wake
  <2>1. Flags'
    BY <1>4 DEF Wake, Flags, Typed, filing, emitting
  <2>2. QED
    BY <1>4, <2>1, KeepsType DEF Wake, filing, emitting, Typed
<1>5. QED
  BY <1>1, <1>2, <1>3, <1>4

LEMMA RunsTyped ==
    ASSUME Typed, NEW r \in Runs,
           \/ \E issue \in Issues, attempt \in 0..MaxRuns : Dispatch(r, issue, attempt)
           \/ ReadPart(r) \/ FailEarly(r) \/ \E usage \in Usages : Finish(r, usage)
    PROVE  Typed'
<1>1. run[r] \in RunShape
  BY DEF Typed, Running
<1>2. UNCHANGED <<file, daemon, loaded, inForce, reload, refresh, watch, lost, registry>>
  BY DEF Dispatch, ReadPart, FailEarly, Finish, filing, swapping, emitting
<1>3. PICK new \in RunShape : run' = [run EXCEPT ![r] = new]
  <2>1. ASSUME NEW issue \in Issues, NEW attempt \in 0..MaxRuns, Dispatch(r, issue, attempt)
        PROVE  \E new \in RunShape : run' = [run EXCEPT ![r] = new]
    <3> DEFINE begun == [NoRun EXCEPT !.pc = "config", !.issue = issue, !.attempt = attempt]
    <3>1. attempt \in Nat
      BY DaemonBounds
    <3>2. begun \in RunShape
      BY <3>1 DEF NoRun, Live, RunShape
    <3>3. run' = [run EXCEPT ![r] = begun]
      BY <2>1 DEF Dispatch
    <3> HIDE DEF begun
    <3>4. QED
      BY <3>2, <3>3
  <2>2. CASE ReadPart(r)
    <3>1. run[r].pc \in {"config", "workflow", "workspace", "tracker"}
      BY <2>2 DEF ReadPart, ReadNext
    <3>2. inForce[run[r].pc] \in Nat /\ ReadNext[run[r].pc] \in Live
      BY <3>1 DEF Parts, ReadNext, Live, Typed, Reloading
    <3>3. [run[r] EXCEPT ![run[r].pc] = inForce[run[r].pc], !.pc = ReadNext[run[r].pc]] \in RunShape
      BY <1>1, <3>1, <3>2 DEF RunShape
    <3>4. run' = [run EXCEPT ![r] = [run[r] EXCEPT ![run[r].pc] = inForce[run[r].pc],
                                                   !.pc = ReadNext[run[r].pc]]]
      BY <2>2 DEF ReadPart, Typed, Running
    <3>5. QED
      BY <3>3, <3>4
  <2>3. CASE FailEarly(r) \/ \E usage \in Usages : Finish(r, usage)
    <3>1. [run[r] EXCEPT !.pc = "over"] \in RunShape
      BY <1>1 DEF RunShape
    <3>2. run' = [run EXCEPT ![r] = [run[r] EXCEPT !.pc = "over"]]
      BY <2>3 DEF FailEarly, Finish
    <3>3. QED
      BY <3>1, <3>2
  <2>4. QED
    BY <2>1, <2>2, <2>3
<1>4. Running'
  BY <1>3 DEF Typed, Running
<1>5. QED
  BY <1>2, <1>4, KeepsType DEF Typed

\* The steps that change nothing the invariant speaks of.
LEMMA QuietSteps ==
    ASSUME \/ \E t \in Deliveries : Post(t) \/ Unanswered(t) \/ \E success \in BOOLEAN : Answered(t, success)
           \/ Emit \/ UNCHANGED daemonVars
    PROVE  UNCHANGED minded
BY DEF minded, Post, Unanswered, Answered, Concluded, Emit, daemonVars, filing, swapping

LEMMA RegisterTyped ==
    ASSUME Typed, NEW url \in Callbacks, Register(url)
    PROVE  Typed'
<1>1. Flags'
  BY DEF Register, Flags, Typed, filing, swapping
<1>2. QED
  BY <1>1, KeepsType DEF Register, filing, swapping, Typed

LEMMA NextTyped == Typed /\ [DaemonNext]_daemonVars => Typed'
<1> SUFFICES ASSUME Typed, [DaemonNext]_daemonVars PROVE Typed'
  OBVIOUS
<1>1. CASE Start \/ Crash \/ (\E name \in Names : Edit(name)) \/ Watch \/ Debounce \/ Settle200ms
  BY <1>1, FilesTyped
<1>2. CASE TakeSignal \/ ReadFile \/ Swap \/ Wake
  BY <1>2, ReloadTyped
<1>3. ASSUME NEW r \in Runs,
             \/ \E issue \in Issues, attempt \in 0..MaxRuns : Dispatch(r, issue, attempt)
             \/ ReadPart(r) \/ FailEarly(r) \/ \E usage \in Usages : Finish(r, usage)
      PROVE  Typed'
  BY <1>3, RunsTyped
<1>4. ASSUME NEW url \in Callbacks, Register(url) PROVE Typed'
  BY <1>4, RegisterTyped
<1>5. CASE \/ \E t \in Deliveries : Post(t) \/ Unanswered(t) \/ \E success \in BOOLEAN : Answered(t, success)
           \/ Emit \/ UNCHANGED daemonVars
  BY <1>5, QuietSteps, KeepsType DEF minded, Typed
<1>6. QED
  BY <1>1, <1>2, <1>3, <1>4, <1>5 DEF DaemonNext, DaemonAlone


-----------------------------------------------------------------------------
(* The rest of the invariant.                                              *)

LEMMA KeepsRest ==
    ASSUME Inductive
    PROVE  /\ UNCHANGED <<daemon, reload, watch, run>> => Resting'
           /\ UNCHANGED <<daemon, loaded, inForce, reload>> => Swapping'
           /\ UNCHANGED loaded => Accepted'
           /\ UNCHANGED <<daemon, file, loaded, reload, watch, lost>> => Seen'
           /\ UNCHANGED daemon => Refused'
           /\ UNCHANGED <<run, loaded, inForce>> => \A r \in Runs : Reading(r)'
<1>1. UNCHANGED <<daemon, loaded, inForce, reload>> => Swapping'
  BY DEF Inductive, Swapping, Position
<1>2. UNCHANGED <<run, loaded, inForce>> => \A r \in Runs : Reading(r)'
  BY DEF Inductive, Reading
<1>3. UNCHANGED loaded => Accepted'
  BY DEF Inductive, Accepted
<1>4. UNCHANGED <<daemon, reload, watch, run>> => Resting'
  BY DEF Inductive, Resting
<1>5. UNCHANGED <<daemon, file, loaded, reload, watch, lost>> => Seen'
  BY DEF Inductive, Seen
<1>6. UNCHANGED daemon => Refused'
  BY DEF Inductive, Refused
<1>7. QED
  BY <1>1, <1>2, <1>3, <1>4, <1>5, <1>6

LEMMA InitInductive == DaemonInit => Inductive
<1> SUFFICES ASSUME DaemonInit PROVE Inductive
  OBVIOUS
<1>1. Typed
  BY InitTyped
<1>2. reload = "idle" /\ lost = FALSE /\ file \in Names
  BY DaemonPlans DEF DaemonInit
<1>3. CASE plan.start = "down"
  <2>1. daemon.phase = "down" /\ loaded = <<>> /\ watch = Quiet /\ run = [r \in Runs |-> NoRun]
    BY <1>3 DEF DaemonInit
  <2>2. \A r \in Runs : run[r].pc = "idle"
    BY <2>1 DEF NoRun
  <2>3. Resting /\ \A r \in Runs : Reading(r)
    BY <1>2, <2>1, <2>2 DEF Resting, Reading, Live, Quiet
  <2>4. QED
    BY <1>1, <2>1, <2>3 DEF Inductive, Swapping, Accepted, Seen, Refused
<1>4. CASE plan.start # "down"
  <2>0. daemon = [phase |-> "up", error |-> Ok, from |-> file,
                  secret |-> Services[file][1].telemetry.sinfonia_events_secret]
    BY <1>4 DEF DaemonInit
  <2>1. /\ daemon.phase = "up" /\ loaded = <<file>> /\ Starts[file] = Ok
        /\ inForce = [p \in Parts |-> 1]
    BY <1>4, <2>0 DEF DaemonInit
  <2>2. PICK issue \in plan.sessions :
            run = [r \in Runs |-> [NoRun EXCEPT !.pc = "over", !.issue = issue[r]]]
    BY <1>4 DEF DaemonInit
  <2>3. \A r \in Runs : run[r].pc = "over"
    BY <2>2 DEF NoRun
  <2>4. Swapping
    BY <1>2, <2>1 DEF Swapping, Position, Parts
  <2>5. Accepted /\ Seen
    BY <1>2, <2>1, StartsUsable DEF Accepted, Seen
  <2>6. QED
    BY <1>1, <2>1, <2>3, <2>4, <2>5 DEF Inductive, Resting, Refused, Reading, Live
<1>5. QED
  BY <1>3, <1>4

LEMMA StartKeeps ==
    ASSUME Inductive, Typed', Start
    PROVE  Inductive'
<1>1. reload = "idle" /\ \A r \in Runs : run[r].pc \notin Live
  BY DEF Start, Inductive, Resting
<1>2. reload' = reload /\ run' = run /\ file' = file /\ file \in Names
  BY DEF Start, Inductive, Typed, Flags
<1>3. \A r \in Runs : Reading(r)'
  BY <1>1, <1>2 DEF Reading
<1>4. CASE Starts[file] = Ok
  <2>1. /\ daemon'.phase = "up" /\ loaded' = <<file>> /\ inForce' = [p \in Parts |-> 1]
    BY <1>4 DEF Start
  <2>2. Swapping'
    BY <1>1, <1>2, <2>1 DEF Swapping, Position, Parts
  <2>3. Accepted' /\ Seen'
    BY <1>2, <1>4, <2>1, StartsUsable DEF Accepted, Seen, Usable
  <2>4. QED
    BY <1>3, <2>1, <2>2, <2>3 DEF Inductive, Resting, Refused
<1>5. CASE Starts[file] # Ok
  <2>1. daemon' = [daemon EXCEPT !.phase = "refused", !.error = Starts[file], !.from = file]
    BY <1>5 DEF Start
  <2>2. daemon'.phase = "refused" /\ daemon'.from = file /\ daemon'.error = Starts[file]
    BY <2>1 DEF Inductive, Typed, DaemonShape
  <2>3. Resting' /\ Accepted'
    BY <1>2, <1>5 DEF Start, Inductive, Resting, Accepted
  <2>4. QED
    BY <1>2, <1>3, <1>5, <2>2, <2>3 DEF Inductive, Swapping, Seen, Refused
<1>6. QED
  BY <1>4, <1>5

LEMMA CrashKeeps ==
    ASSUME Inductive, Typed', Crash
    PROVE  Inductive'
<1>1. daemon'.phase = "down"
  BY DEF Crash, Inductive, Typed, DaemonShape
<1>2. \A r \in Runs : run'[r].pc \notin Live
  BY DEF Crash, NoRun, Live
<1>3. Resting'
  BY <1>2 DEF Crash, Resting, Quiet
<1>4. Accepted'
  BY DEF Crash, Inductive, Accepted
<1>5. QED
  BY <1>1, <1>2, <1>3, <1>4 DEF Inductive, Swapping, Seen, Refused, Reading

LEMMA WatcherKeeps ==
    ASSUME Inductive, Typed',
           (\E name \in Names : Edit(name)) \/ Watch \/ Debounce \/ Settle200ms
    PROVE  Inductive'
<1>1. UNCHANGED <<daemon, loaded, inForce, reload, run>>
  BY DEF Edit, Watch, Debounce, Settle200ms, swapping
<1>2. Resting' /\ Seen'
  <2>1. watch \in [on : BOOLEAN, raw : BOOLEAN, recent : BOOLEAN, signals : Nat] /\ lost \in BOOLEAN
    BY DEF Inductive, Typed, WatchShape, Flags
  <2>2. ASSUME NEW name \in Names, Edit(name) PROVE Resting' /\ Seen'
    <3>1. /\ watch' = [watch EXCEPT !.raw = watch.on]
          /\ lost' = (lost \/ (daemon.phase = "up" /\ ~watch.on))
      BY <2>2 DEF Edit
    <3>2. watch'.raw = watch.on /\ watch'.on = watch.on /\ watch'.signals = watch.signals
      BY <2>1, <3>1
    <3>3. QED
      BY <1>1, <3>1, <3>2 DEF Inductive, Resting, Seen
  <2>3. CASE Watch
    <3>1. watch' = [watch EXCEPT !.on = TRUE] /\ lost' = lost /\ file' = file /\ daemon.phase = "up"
      BY <2>3 DEF Watch
    <3>2. watch'.raw = watch.raw /\ watch'.signals = watch.signals
      BY <2>1, <3>1
    <3>3. QED
      BY <1>1, <3>1, <3>2 DEF Inductive, Resting, Seen
  <2>4. CASE Debounce
    <3>1. daemon.phase = "up"
      BY <2>4 DEF Debounce, Inductive, Resting
    <3>2. lost' = TRUE \/ watch'.signals = watch.signals + 1
      BY <2>1, <2>4 DEF Debounce
    <3>3. QED
      BY <1>1, <2>1, <3>1, <3>2 DEF Resting, Seen
  <2>5. CASE Settle200ms
    <3>1. watch' = [watch EXCEPT !.recent = FALSE] /\ lost' = lost /\ file' = file
      BY <2>5 DEF Settle200ms
    <3>2. watch'.on = watch.on /\ watch'.raw = watch.raw /\ watch'.signals = watch.signals
      BY <2>1, <3>1
    <3>3. QED
      BY <1>1, <3>1, <3>2 DEF Inductive, Resting, Seen
  <2>6. QED
    BY <2>2, <2>3, <2>4, <2>5
<1>3. QED
  BY <1>1, <1>2, KeepsRest DEF Inductive

LEMMA TakeSignalKeeps ==
    ASSUME Inductive, Typed', TakeSignal
    PROVE  Inductive'
<1>1. reload = "idle" /\ reload' = "read" /\ watch.signals > 0
      /\ UNCHANGED <<daemon, file, loaded, inForce, run>>
  BY DEF TakeSignal
<1>2. daemon.phase = "up"
  BY <1>1 DEF Inductive, Resting, Typed, WatchShape
<1>3. Resting' /\ Seen'
  BY <1>1, <1>2 DEF Resting, Seen
<1>4. Swapping'
  BY <1>1, <1>2 DEF Inductive, Swapping, Position, Parts
<1>5. QED
  BY <1>1, <1>3, <1>4, KeepsRest DEF Inductive

LEMMA ReadFileKeeps ==
    ASSUME Inductive, Typed', ReadFile
    PROVE  Inductive'
<1>1. reload = "read" /\ UNCHANGED <<daemon, file, inForce, watch, run>>
  BY DEF ReadFile
<1>2. daemon.phase = "up" /\ file \in Names /\ loaded \in Seq(Names)
  BY <1>1 DEF Inductive, Resting, Typed, Flags, Reloading
<1>3. /\ Len(loaded) \in Nat \ {0}
      /\ \A p \in Parts : inForce[p] = Len(loaded)
  BY <1>1, <1>2 DEF Inductive, Swapping, Position, Parts
<1>4. CASE Usable(file)
  <2>1. loaded' = Append(loaded, file) /\ reload' = "workflow"
    BY <1>4 DEF ReadFile
  <2>2. /\ Len(loaded') = Len(loaded) + 1 /\ loaded'[Len(loaded')] = file
        /\ DOMAIN loaded' = 1..(Len(loaded) + 1)
        /\ \A i \in 1..Len(loaded) : loaded'[i] = loaded[i]
    BY <1>2, <2>1
  <2>3. Swapping'
    BY <1>1, <1>3, <2>1, <2>2 DEF Swapping, Position, Parts, Swapped
  <2>4. Accepted'
    BY <1>2, <1>3, <1>4, <2>2 DEF Inductive, Accepted, Usable
  <2>5. Seen' /\ Resting' /\ Refused'
    BY <1>1, <1>2, <2>2 DEF Seen, Resting, Refused
  <2>6. \A r \in Runs : Reading(r)'
    <3>1. TAKE r \in Runs
    <3>2. run[r].workflow \in run[r].config..Len(loaded) =>
              run[r].workflow \in run[r].config..Len(loaded')
      BY <1>3, <2>2 DEF Inductive, Typed, Running, RunShape
    <3>3. QED
      BY <1>1, <3>2 DEF Inductive, Reading
  <2>7. QED
    BY <2>3, <2>4, <2>5, <2>6 DEF Inductive
<1>5. CASE ~Usable(file)
  <2>1. reload' = "idle" /\ loaded' = loaded
    BY <1>5 DEF ReadFile
  <2>2. Swapping'
    BY <1>1, <1>2, <1>3, <2>1 DEF Swapping, Position, Parts
  <2>3. Seen' /\ Resting'
    BY <1>1, <1>2, <1>5, <2>1 DEF Seen, Resting, Usable
  <2>4. QED
    BY <1>1, <2>1, <2>2, <2>3, KeepsRest DEF Inductive
<1>6. QED
  BY <1>4, <1>5

\* A swap adds the part it swaps to those that are one load ahead.
LEMMA SwapOrder ==
    ASSUME NEW q \in Parts
    PROVE  /\ SwapNext[q] \in Parts => q # "limits" /\ Swapped[SwapNext[q]] = Swapped[q] \cup {q}
           /\ SwapNext[q] \notin Parts => SwapNext[q] = "idle" /\ Swapped[q] \cup {q} = Parts
           /\ q \notin Swapped[q]
<1>1. q \in {"workflow", "config", "tracker", "workspace", "limits"}
  BY DEF Parts
<1>2. CASE q = "workflow"
  BY <1>2 DEF SwapNext, Swapped, Parts
<1>3. CASE q = "config"
  BY <1>3 DEF SwapNext, Swapped, Parts
<1>4. CASE q = "tracker"
  BY <1>4 DEF SwapNext, Swapped, Parts
<1>5. CASE q = "workspace"
  BY <1>5 DEF SwapNext, Swapped, Parts
<1>6. CASE q = "limits"
  BY <1>6 DEF SwapNext, Swapped, Parts
<1>7. QED
  BY <1>1, <1>2, <1>3, <1>4, <1>5, <1>6

LEMMA SwapKeeps ==
    ASSUME Inductive, Typed', Swap
    PROVE  Inductive'
<1>1. /\ reload \in Parts /\ reload' = SwapNext[reload]
      /\ inForce' = [inForce EXCEPT ![reload] = Len(loaded)]
      /\ UNCHANGED <<daemon, file, loaded, watch, lost, run>>
  BY DEF Swap, filing
<1>2. daemon.phase = "up" /\ loaded \in Seq(Names) /\ inForce \in [Parts -> Nat]
  BY <1>1 DEF Inductive, Resting, Typed, Reloading, Parts
<1>3. /\ Len(loaded) \in Nat /\ Len(loaded) >= 2
      /\ \A p \in Parts : inForce[p] = IF p \in Swapped[reload] THEN Len(loaded) ELSE Len(loaded) - 1
  BY <1>1, <1>2 DEF Inductive, Swapping, Position
<1>4. \A p \in Parts : inForce'[p] =
          IF p \in Swapped[reload] \cup {reload} THEN Len(loaded) ELSE Len(loaded) - 1
  BY <1>1, <1>2, <1>3
<1>5. Swapping'
  <2>1. CASE reload' \in Parts
    <3>1. \A p \in Parts : Position(p)' =
              IF p \in Swapped[reload'] THEN Len(loaded) ELSE Len(loaded) - 1
      BY <1>1, <2>1 DEF Position
    <3>2. QED
      BY <1>1, <1>3, <1>4, <2>1, <3>1, SwapOrder DEF Swapping
  <2>2. CASE reload' \notin Parts
    <3>1. \A p \in Parts : Position(p)' = Len(loaded)
      BY <1>1, <2>2 DEF Position
    <3>2. QED
      BY <1>1, <1>3, <1>4, <2>2, <3>1, SwapOrder DEF Swapping
  <2>3. QED
    BY <2>1, <2>2
<1>6. reload' # "read" /\ reload # "read"
  BY <1>1, SwapOrder DEF Parts
<1>7. Seen' /\ Resting'
  BY <1>1, <1>2, <1>6 DEF Inductive, Seen, Resting
<1>8. \A r \in Runs : Reading(r)'
  <2>1. TAKE r \in Runs
  <2>2. /\ "config" \in Parts /\ "workspace" \in Parts
        /\ \A p \in Parts : inForce[p] \in Nat /\ inForce'[p] \in Nat /\ inForce[p] <= inForce'[p]
    BY <1>3, <1>4 DEF Parts
  <2>3. run[r].config \in Nat /\ run[r].workspace \in Nat
    BY DEF Inductive, Typed, Running, RunShape
  <2>4. /\ run[r].config \in 1..inForce["config"] => run[r].config \in 1..inForce'["config"]
        /\ run[r].workspace <= inForce["workspace"] => run[r].workspace <= inForce'["workspace"]
    BY <2>2, <2>3
  <2>5. QED
    BY <1>1, <2>4 DEF Inductive, Reading
<1>9. QED
  BY <1>1, <1>5, <1>7, <1>8, KeepsRest DEF Inductive

LEMMA WakeAndRegisterKeep ==
    ASSUME Inductive, Typed', Wake \/ \E url \in Callbacks : Register(url)
    PROVE  Inductive'
<1>1. UNCHANGED <<daemon, file, loaded, inForce, reload, watch, lost, run>>
  BY DEF Wake, Register, filing, swapping
<1>2. QED
  BY <1>1, KeepsRest DEF Inductive

\* A run that takes the next part takes it at a position that the order of the
\* swaps bounds by those it has.
LEMMA ReadPartKeeps ==
    ASSUME Inductive, Typed', NEW r \in Runs, ReadPart(r)
    PROVE  Inductive'
<1>1. UNCHANGED <<daemon, file, loaded, inForce, reload, watch, lost>>
  BY DEF ReadPart, filing, swapping, emitting
<1>2. /\ run[r].pc \in {"config", "workflow", "workspace", "tracker"}
      /\ run'[r] = [run[r] EXCEPT ![run[r].pc] = inForce[run[r].pc], !.pc = ReadNext[run[r].pc]]
      /\ \A other \in Runs \ {r} : run'[other] = run[other]
  BY DEF ReadPart, ReadNext, Inductive, Typed, Running
<1>3. run[r] \in RunShape /\ loaded \in Seq(Names)
  BY DEF Inductive, Typed, Running, Reloading
<1>4. daemon.phase = "up"
  BY <1>2 DEF Inductive, Resting, Live
<1>5. /\ run'[r].pc = ReadNext[run[r].pc] /\ run'[r][run[r].pc] = inForce[run[r].pc]
       /\ \A field \in {"config", "workflow", "workspace", "tracker"} \ {run[r].pc} :
             run'[r][field] = run[r][field]
  <2>1. PICK part \in {"config", "workflow", "workspace", "tracker"} : part = run[r].pc
    BY <1>2
  <2>2. run'[r] = [run[r] EXCEPT ![part] = inForce[part], !.pc = ReadNext[part]]
    BY <1>2, <2>1
  <2>3. /\ run'[r].pc = ReadNext[part] /\ run'[r][part] = inForce[part]
        /\ \A field \in {"config", "workflow", "workspace", "tracker"} \ {part} :
              run'[r][field] = run[r][field]
    BY <1>3, <2>2 DEF RunShape
  <2>4. QED
    BY <2>1, <2>3
<1>6. /\ Len(loaded) \in Nat /\ \A p \in Parts : inForce[p] \in Nat
      /\ \A p \in Parts : inForce[p] \in {Len(loaded) - 1, Len(loaded)} /\ inForce[p] >= 1
      /\ inForce["workflow"] >= inForce["config"] /\ inForce["tracker"] >= inForce["workspace"]
  <2>1. /\ \A p \in Parts : inForce[p] = Position(p) /\ inForce[p] \in Nat
        /\ Len(loaded) \in Nat /\ Len(loaded) >= 1 /\ (reload \in Parts => Len(loaded) >= 2)
    BY <1>3, <1>4 DEF Inductive, Swapping, Typed, Reloading
  <2>2. CASE reload \in Parts
    <3>1. /\ "config" \in Swapped[reload] => "workflow" \in Swapped[reload]
          /\ "workspace" \in Swapped[reload] => "tracker" \in Swapped[reload]
      BY <2>2 DEF Parts, Swapped
    <3>2. QED
      BY <2>1, <2>2, <3>1 DEF Position, Parts
  <2>3. CASE reload \notin Parts
    BY <2>1, <2>3 DEF Position, Parts
  <2>4. QED
    BY <2>2, <2>3
<1>7. Reading(r)'
  <2>1. CASE run[r].pc = "config"
    <3>1. run'[r].pc = "workflow" /\ run'[r].config = inForce["config"]
      BY <1>5, <2>1 DEF ReadNext
    <3>2. QED
      BY <1>1, <1>6, <3>1 DEF Reading, HasRead, Parts
  <2>2. CASE run[r].pc = "workflow"
    <3>1. /\ run'[r].pc = "workspace" /\ run'[r].config = run[r].config
          /\ run'[r].workflow = inForce["workflow"]
      BY <1>5, <2>2 DEF ReadNext
    <3>2. run[r].config \in 1..inForce["config"]
      BY <2>2 DEF Inductive, Reading, HasRead, Live
    <3>3. QED
      BY <1>1, <1>6, <3>1, <3>2 DEF Reading, HasRead, Parts
  <2>3. CASE run[r].pc = "workspace"
    <3>1. /\ run'[r].pc = "tracker" /\ run'[r].config = run[r].config
          /\ run'[r].workflow = run[r].workflow /\ run'[r].workspace = inForce["workspace"]
      BY <1>5, <2>3 DEF ReadNext
    <3>2. run[r].config \in 1..inForce["config"] /\ run[r].workflow \in run[r].config..Len(loaded)
      BY <2>3 DEF Inductive, Reading, HasRead, Live
    <3>3. QED
      BY <1>1, <1>6, <3>1, <3>2 DEF Reading, HasRead, Parts
  <2>4. CASE run[r].pc = "tracker"
    <3>1. /\ run'[r].pc = "working" /\ run'[r].config = run[r].config
          /\ run'[r].workflow = run[r].workflow /\ run'[r].workspace = run[r].workspace
          /\ run'[r].tracker = inForce["tracker"]
      BY <1>5, <2>4 DEF ReadNext
    <3>2. /\ run[r].config \in 1..inForce["config"] /\ run[r].workflow \in run[r].config..Len(loaded)
          /\ run[r].workspace + 1 >= run[r].config /\ run[r].workspace <= inForce["workspace"]
          /\ run[r].workspace \in Nat
      BY <1>3, <2>4 DEF Inductive, Reading, HasRead, Live, RunShape
    <3>3. QED
      BY <1>1, <1>6, <3>1, <3>2 DEF Reading, HasRead, Parts
  <2>5. QED
    BY <1>2, <2>1, <2>2, <2>3, <2>4
<1>8. \A other \in Runs : Reading(other)'
  <2>1. TAKE other \in Runs
  <2>2. CASE other = r
    BY <1>7, <2>2
  <2>3. CASE other # r
    BY <1>1, <1>2, <2>3 DEF Inductive, Reading
  <2>4. QED
    BY <2>2, <2>3
<1>9. Resting'
  BY <1>1, <1>4 DEF Resting
<1>10. QED
  BY <1>1, <1>8, <1>9, KeepsRest DEF Inductive

LEMMA OtherRunStepsKeep ==
    ASSUME Inductive, Typed', NEW r \in Runs,
           \/ \E issue \in Issues, attempt \in 0..MaxRuns : Dispatch(r, issue, attempt)
           \/ FailEarly(r) \/ \E usage \in Usages : Finish(r, usage)
    PROVE  Inductive'
<1>1. UNCHANGED <<daemon, file, loaded, inForce, reload, watch, lost>>
  BY DEF Dispatch, FailEarly, Finish, filing, swapping, emitting
<1>2. run'[r].pc = "over" \/ (run'[r].pc = "config" /\ daemon.phase = "up")
  <2>1. run \in [Runs -> RunShape]
    BY DEF Inductive, Typed, Running
  <2>2. ASSUME NEW issue \in Issues, NEW attempt \in 0..MaxRuns, Dispatch(r, issue, attempt)
        PROVE  run'[r].pc = "config" /\ daemon.phase = "up"
    <3>1. run'[r] = [NoRun EXCEPT !.pc = "config", !.issue = issue, !.attempt = attempt]
      BY <2>1, <2>2 DEF Dispatch
    <3>2. QED
      <4>1. [NoRun EXCEPT !.pc = "config", !.issue = issue, !.attempt = attempt].pc = "config"
        BY DEF NoRun
      <4>2. QED
        BY <2>2, <3>1, <4>1 DEF Dispatch
  <2>3. CASE FailEarly(r) \/ \E usage \in Usages : Finish(r, usage)
    <3>1. run'[r] = [run[r] EXCEPT !.pc = "over"] /\ run[r] \in RunShape
      BY <2>1, <2>3 DEF FailEarly, Finish
    <3>2. QED
      BY <3>1 DEF RunShape
  <2>4. QED
    BY <2>2, <2>3
<1>3. \A other \in Runs \ {r} : run'[other] = run[other]
  BY DEF Dispatch, FailEarly, Finish, Inductive, Typed, Running
<1>4. \A other \in Runs : Reading(other)'
  <2>1. TAKE other \in Runs
  <2>2. CASE other = r
    BY <1>2, <2>2 DEF Reading, HasRead, Live
  <2>3. CASE other # r
    BY <1>1, <1>3, <2>3 DEF Inductive, Reading
  <2>4. QED
    BY <2>2, <2>3
<1>5. Resting'
  <2>1. CASE daemon.phase = "up"
    BY <1>1, <2>1 DEF Resting
  <2>2. CASE daemon.phase # "up"
    <3>1. run'[r].pc \notin Live
      BY <1>2, <2>2 DEF Live
    <3>2. \A other \in Runs : run'[other].pc \notin Live
      BY <1>3, <2>2, <3>1 DEF Inductive, Resting
    <3>3. QED
      BY <1>1, <2>2, <3>2 DEF Inductive, Resting
  <2>3. QED
    BY <2>1, <2>2
<1>6. QED
  BY <1>1, <1>4, <1>5, KeepsRest DEF Inductive

LEMMA NextInductive == Inductive /\ [DaemonNext]_daemonVars => Inductive'
<1> SUFFICES ASSUME Inductive, [DaemonNext]_daemonVars PROVE Inductive'
  OBVIOUS
<1>0. Typed'
  BY NextTyped DEF Inductive
<1>1. CASE Start \/ Crash
  BY <1>0, <1>1, StartKeeps, CrashKeeps
<1>2. CASE (\E name \in Names : Edit(name)) \/ Watch \/ Debounce \/ Settle200ms
  BY <1>0, <1>2, WatcherKeeps
<1>3. CASE TakeSignal \/ ReadFile \/ Swap
  BY <1>0, <1>3, TakeSignalKeeps, ReadFileKeeps, SwapKeeps
<1>4. CASE Wake \/ \E url \in Callbacks : Register(url)
  BY <1>0, <1>4, WakeAndRegisterKeep
<1>5. ASSUME NEW r \in Runs, ReadPart(r) PROVE Inductive'
  BY <1>0, <1>5, ReadPartKeeps
<1>6. ASSUME NEW r \in Runs,
             \/ \E issue \in Issues, attempt \in 0..MaxRuns : Dispatch(r, issue, attempt)
             \/ FailEarly(r) \/ \E usage \in Usages : Finish(r, usage)
      PROVE  Inductive'
  BY <1>0, <1>6, OtherRunStepsKeep
<1>7. CASE \/ \E t \in Deliveries : Post(t) \/ Unanswered(t) \/ \E success \in BOOLEAN : Answered(t, success)
           \/ Emit \/ UNCHANGED daemonVars
  <2>1. UNCHANGED minded
    BY <1>7, QuietSteps
  <2>2. QED
    BY <1>0, <2>1, KeepsRest DEF minded, Inductive
<1>8. QED
  BY <1>1, <1>2, <1>3, <1>4, <1>5, <1>6, <1>7 DEF DaemonNext, DaemonAlone

LEMMA AlwaysInductive == DaemonSpec => []Inductive
<1>1. DaemonInit => Inductive
  BY InitInductive
<1>2. Inductive /\ [DaemonNext]_daemonVars => Inductive'
  BY NextInductive
<1>3. QED
  BY <1>1, <1>2, PTL DEF DaemonSpec

-----------------------------------------------------------------------------
(* What the settings' errors are.                                          *)

LEMMA FirstOfTwo ==
    ASSUME NEW a, NEW b
    PROVE  FirstError(<<a, b>>) = IF a # Ok THEN a ELSE b
<1> DEFINE E == <<a, b>>
           First(i) == E[i] # Ok /\ \A j \in DOMAIN E : j < i => E[j] = Ok
<1>1. DOMAIN E = {1, 2} /\ E[1] = a /\ E[2] = b
  OBVIOUS
<1>2. CASE a # Ok
  <2>1. First(1) /\ \A i \in DOMAIN E : First(i) => i = 1
    BY <1>1, <1>2
  <2>2. (CHOOSE i \in DOMAIN E : First(i)) = 1
    BY <1>1, <2>1
  <2>3. QED
    BY <1>1, <1>2, <2>2 DEF FirstError
<1>3. CASE a = Ok /\ b # Ok
  <2>1. First(2) /\ \A i \in DOMAIN E : First(i) => i = 2
    BY <1>1, <1>3
  <2>2. (CHOOSE i \in DOMAIN E : First(i)) = 2
    BY <1>1, <2>1
  <2>3. QED
    BY <1>1, <1>3, <2>2 DEF FirstError
<1>4. CASE a = Ok /\ b = Ok
  BY <1>1, <1>4 DEF FirstError
<1>5. QED
  BY <1>2, <1>3, <1>4

LEMMA FirstOfThree ==
    ASSUME NEW c
    PROVE  FirstError(<<Ok, Ok, c>>) = c
<1> DEFINE E == <<Ok, Ok, c>>
           First(i) == E[i] # Ok /\ \A j \in DOMAIN E : j < i => E[j] = Ok
<1>1. DOMAIN E = {1, 2, 3} /\ E[1] = Ok /\ E[2] = Ok /\ E[3] = c
  OBVIOUS
<1>2. CASE c # Ok
  <2>1. First(3) /\ \A i \in DOMAIN E : First(i) => i = 3
    BY <1>1, <1>2
  <2>2. (CHOOSE i \in DOMAIN E : First(i)) = 3
    BY <1>1, <2>1
  <2>3. QED
    BY <1>1, <1>2, <2>2 DEF FirstError
<1>3. CASE c = Ok
  BY <1>1, <1>3 DEF FirstError
<1>4. QED
  BY <1>2, <1>3

LEMMA FirstOfFour ==
    ASSUME NEW a, NEW b, NEW c, NEW d, FirstError(<<a, b, c, d>>) = Ok
    PROVE  a = Ok /\ b = Ok
<1> DEFINE E == <<a, b, c, d>>
           First(i) == E[i] # Ok /\ \A j \in DOMAIN E : j < i => E[j] = Ok
<1>1. DOMAIN E = {1, 2, 3, 4} /\ E[1] = a /\ E[2] = b
  OBVIOUS
<1>2. CASE \E i \in DOMAIN E : First(i)
  <2>1. E[CHOOSE i \in DOMAIN E : First(i)] # Ok
    BY <1>2
  <2>2. QED
    BY <2>1 DEF FirstError
<1>3. CASE ~ \E i \in DOMAIN E : First(i)
  <2>1. E[1] = Ok
    BY <1>1, <1>3
  <2>2. E[2] = Ok
    BY <1>1, <1>3, <2>1
  <2>3. QED
    BY <1>1, <2>1, <2>2
<1>4. QED
  BY <1>2, <1>3

LEMMA ValidatedTracker ==
    ASSUME NEW cfg, ValidateForDispatch(cfg) = Ok
    PROVE  cfg.tracker.api_key # None /\ cfg.tracker.project_slug # None
<1>1. /\ Unless(cfg.tracker.api_key \notin {None, ""}, "key") = Ok
      /\ Unless(cfg.tracker.project_slug \notin {None, ""}, "slug") = Ok
  BY FirstOfFour DEF ValidateForDispatch
<1>2. QED
  BY <1>1 DEF Unless, Ok

LEMMA LoadedMeans ==
    ASSUME NEW text, LoadError(text) = Ok
    PROVE  /\ ReadWorkflow(text).prompt = text.body
           /\ ValidateForDispatch(Service(text)) = Ok
<1>1. ReadWorkflow(text).error = Ok
  BY DEF LoadError
<1>2. ReadWorkflow(text).prompt = text.body
  BY <1>1 DEF ReadWorkflow, Ok
<1>3. QED
  BY <1>1, <1>2 DEF LoadError, Service

LEMMA ReloadMeans ==
    ASSUME NEW text, LoadError(text) = Ok
    PROVE  ReloadError(text) \in {Ok, "endpoint", "workspace"}
<1> DEFINE t == Service(text).tracker
<1>1. t.api_key # None /\ t.project_slug # None
  BY LoadedMeans, ValidatedTracker
<1>2. BuildTracker(t) \in {Ok, "endpoint"}
  <2>1. Unless(t.api_key # None, "key") = Ok /\ Unless(t.project_slug # None, "slug") = Ok
    BY <1>1 DEF Unless
  <2>2. NewLinear(t) = Ok
    BY <2>1, FirstOfTwo DEF NewLinear
  <2>3. NewJira(t) = Unless(t.endpoint # "" /\ t.endpoint \notin BadUrls, "endpoint")
    <3>1. NewJira(t) = FirstError(<<Ok, Ok, Unless(t.endpoint # "" /\ t.endpoint \notin BadUrls,
                                                  "endpoint")>>)
      BY <2>1 DEF NewJira
    <3>2. QED
      BY <3>1, FirstOfThree
  <2>4. QED
    BY <2>2, <2>3 DEF BuildTracker, Unless
<1>3. ReloadError(text) =
          IF BuildTracker(t) # Ok THEN BuildTracker(t)
          ELSE Unless(Service(text).workspace.root \notin BadRoots, "workspace")
  BY FirstOfTwo DEF ReloadError
<1>4. QED
  BY <1>2, <1>3 DEF Unless

LEMMA ClassifiedOk ==
    ASSUME NEW error, Classify(error) = 0
    PROVE  error = Ok
BY DEF Classify

LEMMA CheckedMeans ==
    ASSUME NEW text, CheckWorkflow(text) = 0
    PROVE  LoadError(text) = Ok /\ RenderError(text) = Ok
BY ClassifiedOk DEF CheckWorkflow

LEMMA UsableMeans ==
    ASSUME NEW name \in Names, Usable(name)
    PROVE  LoadError(Files[name]) = Ok /\ Checks[name] \in {0, 4}
<1>1. LoadError(Files[name]) = Ok
  BY EvaluatedTables DEF Usable, ReloadError
<1>2. RenderError(Files[name]) \in {Ok, "template"}
  BY DEF RenderError, Unless
<1>3. Checks[name] = Classify(RenderError(Files[name]))
  BY <1>1, EvaluatedTables DEF CheckWorkflow
<1>4. QED
  BY <1>1, <1>2, <1>3 DEF Classify, Ok

-----------------------------------------------------------------------------
(* The theorems.                                                           *)

\* The daemon's state always has its type, for every set of workflow files,
\* issues and subscribers.
THEOREM DaemonTypeCorrect == DaemonSpec => []DaemonTypeOK
<1>1. Inductive => DaemonTypeOK
  BY TypedIsType DEF Inductive
<1>2. QED
  BY <1>1, AlwaysInductive, PTL

\* A run that reads its four parts while reloads swap them one by one reads
\* them in the order OrderedSnapshot states, for every number of runs and of
\* reloads, because the swaps' order and the reads' order cross.
THEOREM SnapshotsOrdered == DaemonSpec => []OrderedSnapshot
<1>1. Inductive => OrderedSnapshot
  <2> SUFFICES ASSUME Inductive, NEW r \in Runs, run[r].pc = "working"
               PROVE  /\ run[r].workflow >= run[r].config
                      /\ run[r].tracker >= run[r].workspace
                      /\ run[r].workspace + 1 >= run[r].config
    BY DEF OrderedSnapshot
  <2>1. run[r].config \in Nat /\ loaded \in Seq(Names)
    BY DEF Inductive, Typed, Running, RunShape, Reloading
  <2>2. QED
    BY <2>1 DEF Inductive, Reading, HasRead, Live
<1>2. QED
  BY <1>1, AlwaysInductive, PTL

\* When no reload is under way and no change waits or was lost, one content is
\* in force in every part: the last one written, if it can be used.
THEOREM ReloadsSettle == DaemonSpec => []ReloadSettles
<1>1. Inductive => ReloadSettles
  <2> SUFFICES ASSUME Inductive, daemon.phase = "up", reload = "idle", ~watch.raw,
                      watch.signals = 0, ~lost
               PROVE  /\ \A p \in Parts : inForce[p] = Len(loaded) /\ Usable(loaded[inForce[p]])
                      /\ Usable(file) => loaded[Len(loaded)] = file
    BY DEF ReloadSettles
  <2>1. \A p \in Parts : inForce[p] = Len(loaded)
    BY DEF Inductive, Swapping, Position, Parts
  <2>2. Len(loaded) \in DOMAIN loaded
    BY DEF Inductive, Swapping, Typed, Reloading
  <2>3. Usable(file) => loaded[Len(loaded)] = file
    BY DEF Inductive, Seen
  <2>4. QED
    BY <2>1, <2>2, <2>3 DEF Inductive, Accepted
<1>2. QED
  BY <1>1, AlwaysInductive, PTL

\* What --check accepts, a start refuses only for the tracker's address, the
\* workspace root or the server's address; what was loaded, --check accepts but
\* for its templates.  For every text of WORKFLOW.md and every environment.
THEOREM CheckTellsOfStart == DaemonSpec => []CheckPredictsStart
<1>1. Inductive => CheckPredictsStart
  <2> SUFFICES ASSUME Inductive PROVE CheckPredictsStart
    OBVIOUS
  <2>1. ASSUME daemon.phase = "refused", Checks[daemon.from] = 0
        PROVE  daemon.error \in {"endpoint", "workspace", "bind"}
    <3>1. daemon.from \in Names /\ daemon.error = Starts[daemon.from] /\ daemon.error # Ok
      BY <2>1 DEF Inductive, Refused
    <3>2. LoadError(Files[daemon.from]) = Ok
      BY <2>1, <3>1, EvaluatedTables, CheckedMeans
    <3>3. ReloadError(Files[daemon.from]) \in {Ok, "endpoint", "workspace"}
      BY <3>2, ReloadMeans
    <3>4. StartError(Files[daemon.from], PortFlag) \in {Ok, "endpoint", "workspace", "bind"}
      BY <3>3 DEF StartError, Unless
    <3>5. QED
      BY <3>1, <3>4, EvaluatedTables
  <2>2. \A i \in DOMAIN loaded : Checks[loaded[i]] \in {0, 4}
    BY UsableMeans DEF Inductive, Accepted, Typed, Reloading
  <2>3. QED
    BY <2>1, <2>2 DEF CheckPredictsStart
<1>2. QED
  BY <1>1, AlwaysInductive, PTL

LEMMA RenderedMeans ==
    ASSUME NEW text, RenderError(text) = Ok
    PROVE  /\ PromptError(text.body, Stub, 1) = Ok
           /\ \A state \in DOMAIN Service(text).states :
                 LET own == Service(text).states[state].prompt_template
                 IN  own # None => PromptError(own, Stub, 1) = Ok
BY DEF RenderError, Unless, Ok

\* Whether a prompt compiles does not depend on what it is rendered for.
LEMMA RenderedCompiles ==
    ASSUME NEW body, NEW issue, NEW attempt, PromptError(body, Stub, 1) = Ok
    PROVE  PromptError(body, issue, attempt) # "parse"
<1>1. body \notin BadTemplates
  <2>1. Unless(body \notin BadTemplates, "parse") = Ok
    BY FirstOfTwo DEF PromptError
  <2>2. QED
    BY <2>1 DEF Unless, Ok
<1>2. Unless(body \notin BadTemplates, "parse") = Ok
  BY <1>1 DEF Unless
<1>3. PromptError(body, issue, attempt) = Unless(Renders(body, issue, attempt), "render")
  BY <1>2, FirstOfTwo DEF PromptError
<1>4. QED
  BY <1>3 DEF Unless, Ok

\* The prompt of a run is one that --check has rendered when --check accepts the
\* content of the run's settings and the content of its prompt, also when these
\* are not the same content: whatever the issue is, it compiles, and it fails only
\* for what the issue or the attempt has and the stub of --check has not.
THEOREM CheckedPromptsAlwaysRender == DaemonSpec => []CheckedPromptsRender
<1>1. Inductive => CheckedPromptsRender
  <2> SUFFICES ASSUME Inductive, NEW r \in Runs, run[r].pc = "working",
                      Checks[loaded[run[r].config]] = 0, Checks[loaded[run[r].workflow]] = 0
               PROVE  /\ PromptError(PromptOf(r), run[r].issue, run[r].attempt) # "parse"
                      /\ PromptError(PromptOf(r), Stub, 1) = Ok
    BY DEF CheckedPromptsRender
  <2> DEFINE config == loaded[run[r].config]
             body   == loaded[run[r].workflow]
  <2>1. run[r].config \in DOMAIN loaded /\ run[r].workflow \in DOMAIN loaded
    <3>1. /\ loaded \in Seq(Names) /\ Len(loaded) \in Nat /\ inForce["config"] \in 0..Len(loaded)
          /\ run[r].config \in Nat /\ run[r].workflow \in Nat
      BY DEF Inductive, Typed, Running, RunShape, Reloading, Parts
    <3>2. run[r].config \in 1..inForce["config"] /\ run[r].workflow \in run[r].config..Len(loaded)
      BY DEF Inductive, Reading, HasRead, Live
    <3>3. QED
      BY <3>1, <3>2
  <2>2. config \in Names /\ body \in Names
    BY <2>1 DEF Inductive, Typed, Reloading
  <2>3. /\ LoadError(Files[config]) = Ok /\ RenderError(Files[config]) = Ok
        /\ LoadError(Files[body]) = Ok /\ RenderError(Files[body]) = Ok
    BY <2>2, EvaluatedTables, CheckedMeans
  <2>4. ServiceOf(run[r].config) = Service(Files[config])
    <3>1. Services[config] = <<Service(Files[config])>>
      BY <2>2, <2>3, EvaluatedTables
    <3>2. QED
      BY <3>1 DEF ServiceOf
  <2>5. \A state \in DOMAIN Service(Files[config]).states :
            LET own == Service(Files[config]).states[state].prompt_template
            IN  own # None => PromptError(own, Stub, 1) = Ok
    BY <2>3, RenderedMeans
  <2>6. PromptError(ReadWorkflow(Files[body]).prompt, Stub, 1) = Ok
    <3>1. PromptError(Files[body].body, Stub, 1) = Ok
      BY <2>3, RenderedMeans
    <3>2. QED
      BY <2>3, <3>1, LoadedMeans
  <2>7. PromptError(PromptOf(r), Stub, 1) = Ok
    BY <2>4, <2>5, <2>6 DEF PromptOf, EffectivePrompt
  <2>8. QED
    BY <2>7, RenderedCompiles
<1>2. QED
  BY <1>1, AlwaysInductive, PTL
=============================================================================
