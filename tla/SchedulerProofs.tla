--------------------------- MODULE SchedulerProofs ---------------------------
(***************************************************************************)
(* Theorems about Scheduler for every set of issues, of workflow states,   *)
(* of worker identities and every bound.                                   *)
(***************************************************************************)
EXTENDS Scheduler, FiniteSetTheorems, TLAPS

\* The next attempt number is an attempt number of the retry queue, never 0.
LEMMA BumpType ==
    ASSUME NEW a \in Attempts
    PROVE  Bump(a) \in 1..MaxAttempt /\ Bump(a) \in Attempts /\ Bump(a) # 0
  BY BoundsAssumption DEF Bump, Attempts

\* Scheduling a retry keeps the scheduling variables well typed.
LEMMA ScheduleType ==
    ASSUME TypeOK, NEW i \in Issues, NEW a \in 1..MaxAttempt, Schedule(i, a)
    PROVE  /\ claimed' \subseteq Issues
           /\ retries' \in [Issues -> Attempts]
           /\ timers' \in [Issues -> 0..MaxTimers]
  BY BoundsAssumption DEF TypeOK, Schedule, Attempts

\* So does starting a run.
LEMMA SpawnType ==
    ASSUME TypeOK, NEW i \in Issues, NEW s \in States, NEW a \in Attempts, Spawn(i, s, a)
    PROVE  /\ running' \in [Issues -> Entry \cup {NoEntry}]
           /\ claimed' \subseteq Issues
           /\ retries' \in [Issues -> Attempts]
           /\ workers' \subseteq WorkerOf
  <1>1. PICK r \in Runs :
          /\ running' = [running EXCEPT ![i] = [state |-> s, attempt |-> a, run |-> r]]
          /\ claimed' = claimed \cup {i}
          /\ retries' = [retries EXCEPT ![i] = 0]
          /\ workers' = workers \cup {[run |-> r, issue |-> i, attempt |-> a]}
    BY DEF Spawn
  <1>2. [state |-> s, attempt |-> a, run |-> r] \in Entry
    BY DEF Entry
  <1>3. 0 \in Attempts
    BY BoundsAssumption DEF Attempts
  <1> QED
    BY <1>1, <1>2, <1>3 DEF TypeOK, WorkerOf

\* The entry taken from `running` (reconciliation) leaves it well typed.
LEMMA TakeEntryType ==
    ASSUME TypeOK, NEW i \in Issues, TakeEntry(i)
    PROVE  running' \in [Issues -> Entry \cup {NoEntry}] /\ cut' \subseteq Issues
  BY DEF TypeOK, TakeEntry

\* A tracker response about a candidate is a view.
LEMMA ViewType ==
    ASSUME TypeOK, NEW i \in Candidates
    PROVE  ViewOf(i) \in View
  BY DEF TypeOK, Candidates, ViewOf, View, States

\* What `running` holds for a running issue is an entry with its fields.
LEMMA EntryOfRunning ==
    ASSUME TypeOK, NEW i \in Running
    PROVE  i \in Issues /\ running[i] \in Entry /\ running[i].attempt \in Attempts
  BY DEF TypeOK, Running, Entry

\* A freshly started daemon is well typed.
LEMMA InitType == Init => TypeOK
  BY BoundsAssumption DEF Init, TypeOK, NoViews, Attempts, States

\* Each critical section of the poll task keeps the types.
LEMMA TickType == TypeOK /\ Tick => TypeOK'
  <1> SUFFICES ASSUME TypeOK, Tick PROVE TypeOK'
    OBVIOUS
  <1>1. CASE \E stalled \in SUBSET Running : TickStart(stalled)
    BY <1>1 DEF TypeOK, TickStart, Running, sched, tasks, work
  <1>2. CASE TickStall
    <2>1. PICK i \in todo :
            /\ todo' = todo \ {i}
            /\ IF i \in Running
                 THEN TakeEntry(i) /\ Schedule(i, Bump(running[i].attempt))
                 ELSE UNCHANGED <<sched, timers, cut>>
      BY <1>2 DEF TickStall
    <2>2. i \in Issues
      BY DEF TypeOK
    <2>3. UNCHANGED <<tracker, firing, work, pc, ids, views>>
      BY <1>2 DEF TickStall
    <2>4. CASE i \in Running
      <3>1. Bump(running[i].attempt) \in 1..MaxAttempt
        BY <2>4, EntryOfRunning, BumpType
      <3>2. TakeEntry(i) /\ Schedule(i, Bump(running[i].attempt))
        BY <2>1, <2>4
      <3>3. /\ claimed' \subseteq Issues /\ retries' \in [Issues -> Attempts]
            /\ timers' \in [Issues -> 0..MaxTimers]
        BY <2>2, <3>1, <3>2, ScheduleType
      <3>4. running' \in [Issues -> Entry \cup {NoEntry}] /\ cut' \subseteq Issues
        BY <2>2, <3>2, TakeEntryType
      <3> QED
        BY <2>1, <2>3, <3>3, <3>4 DEF TypeOK, work
    <2>5. CASE i \notin Running
      BY <2>1, <2>3, <2>5 DEF TypeOK, work, sched
    <2> QED
      BY <2>4, <2>5
  <1>3. CASE TickRefreshed
    <2>1. \A i \in Issues : tracker[i] # Gone =>
             [state |-> tracker[i], blocked |-> FALSE] \in View
      BY DEF TypeOK, View
    <2>2. views' \in [Issues -> View \cup {NoView}]
      BY <1>3, <2>1 DEF TickRefreshed
    <2> QED
      BY <1>3, <2>2 DEF TypeOK, TickRefreshed, sched, tasks, work
  <1>4. CASE TickRefreshFails
    BY <1>4 DEF TypeOK, TickRefreshFails, GoTo, NoViews, sched, tasks, work
  <1>5. CASE TickApply
    <2>1. PICK i \in todo :
            /\ IF StillActive(views[i])
                 THEN /\ running' = IF i \in Running
                                      THEN [running EXCEPT ![i].state = views[i].state]
                                      ELSE running
                      /\ UNCHANGED <<claimed, retries, cut>>
                 ELSE Terminate(i)
            /\ todo' = todo \ {i}
            /\ views' = [views EXCEPT ![i] = NoView]
      BY <1>5 DEF TickApply
    <2>2. UNCHANGED <<tracker, tasks, work, pc, ids>>
      BY <1>5 DEF TickApply
    <2>3. i \in Issues
      BY DEF TypeOK
    <2>4. /\ running' \in [Issues -> Entry \cup {NoEntry}]
          /\ claimed' \subseteq Issues /\ retries' \in [Issues -> Attempts] /\ cut' \subseteq Issues
      <3>1. CASE StillActive(views[i]) /\ i \in Running
        <4>1. views[i] \in View /\ views[i].state \in States
          BY <2>3, <3>1 DEF TypeOK, StillActive, View
        <4>2. [running[i] EXCEPT !.state = views[i].state] \in Entry
          BY <3>1, <4>1, EntryOfRunning DEF Entry
        <4>3. running' = [running EXCEPT ![i] = [running[i] EXCEPT !.state = views[i].state]]
          BY <2>1, <3>1
        <4> QED
          BY <2>1, <3>1, <4>2, <4>3 DEF TypeOK
      <3>2. CASE StillActive(views[i]) /\ i \notin Running
        BY <2>1, <3>2 DEF TypeOK
      <3>3. CASE ~StillActive(views[i]) /\ i \in Running
        <4>1. TakeEntry(i) /\ claimed' = claimed \ {i} /\ retries' = [retries EXCEPT ![i] = 0]
          BY <2>1, <3>3 DEF Terminate
        <4> QED
          BY <2>3, <4>1, TakeEntryType, BoundsAssumption DEF TypeOK, Attempts
      <3>4. CASE ~StillActive(views[i]) /\ i \notin Running
        BY <2>1, <3>4 DEF Terminate, TypeOK, sched
      <3> QED
        BY <3>1, <3>2, <3>3, <3>4
    <2> QED
      BY <2>1, <2>2, <2>4 DEF TypeOK, tasks, work
  <1>6. CASE TickFetchFails
    BY <1>6 DEF TypeOK, TickFetchFails, GoTo, NoViews, sched, tasks, work
  <1>7. CASE TickFetched
    <2>1. Candidates \subseteq Issues
      BY DEF Candidates
    <2>2. views' \in [Issues -> View \cup {NoView}]
      BY <1>7, ViewType DEF TickFetched
    <2> QED
      BY <1>7, <2>1, <2>2 DEF TypeOK, TickFetched, sched, tasks, work
  <1>8. CASE TickDispatch
    <2>1. PICK i \in todo :
            LET o == Outcome(i, views[i], FALSE) IN
              /\ IF o = "Dispatched" THEN Spawn(i, views[i].state, 0)
                   ELSE UNCHANGED <<sched, workers>>
              /\ IF o = "NoSlot" THEN GoTo("dispatch")
                   ELSE /\ todo'  = todo \ {i}
                        /\ views' = [views EXCEPT ![i] = NoView]
                        /\ UNCHANGED <<pc, ids>>
      BY <1>8 DEF TickDispatch
    <2>2. UNCHANGED <<tracker, tasks, reports, cut>>
      BY <1>8 DEF TickDispatch
    <2>3. /\ pc' \in {"stalls", "apply", "dispatch"}
          /\ todo' \subseteq Issues /\ ids' \subseteq Issues
          /\ views' \in [Issues -> View \cup {NoView}]
      BY <2>1 DEF TypeOK, GoTo, NoViews
    <2>4. /\ running' \in [Issues -> Entry \cup {NoEntry}]
          /\ claimed' \subseteq Issues /\ retries' \in [Issues -> Attempts]
          /\ workers' \subseteq WorkerOf
      <3>1. CASE Outcome(i, views[i], FALSE) = "Dispatched"
        <4>1. Spawn(i, views[i].state, 0)
          BY <2>1, <3>1
        <4>2. views[i].state \in States
          BY <3>1 DEF Outcome, Eligible, States
        <4> QED
          BY <4>1, <4>2, SpawnType, BoundsAssumption DEF TypeOK, Attempts
      <3>2. CASE Outcome(i, views[i], FALSE) # "Dispatched"
        BY <2>1, <3>2 DEF TypeOK, sched
      <3> QED
        BY <3>1, <3>2
    <2> QED
      BY <2>2, <2>3, <2>4 DEF TypeOK, tasks
  <1> QED
    BY <1>1, <1>2, <1>3, <1>4, <1>5, <1>6, <1>7, <1>8 DEF Tick

\* Each critical section of a fire_retry task keeps the types.
LEMMA RetryType == TypeOK /\ Retry => TypeOK'
  <1> SUFFICES ASSUME TypeOK, Retry PROVE TypeOK'
    OBVIOUS
  <1>1. ASSUME NEW i \in Issues, RetryFires(i) PROVE TypeOK'
    <2>1. firing' \subseteq Firing
      <3>1. CASE retries[i] = 0
        BY <1>1, <3>1 DEF RetryFires, TypeOK
      <3>2. CASE retries[i] # 0
        <4>1. PICK f \in Fires :
                firing' = firing \cup {[id |-> f, issue |-> i, attempt |-> retries[i],
                                        phase |-> "fetch", view |-> NoView]}
          BY <1>1, <3>2 DEF RetryFires
        <4>2. retries[i] \in 1..MaxAttempt
          BY <3>2, BoundsAssumption DEF TypeOK, Attempts
        <4>3. [id |-> f, issue |-> i, attempt |-> retries[i],
               phase |-> "fetch", view |-> NoView] \in Firing
          BY <4>2 DEF Firing
        <4> QED
          BY <4>1, <4>3 DEF TypeOK
      <3> QED
        BY <3>1, <3>2
    <2>2. timers' \in [Issues -> 0..MaxTimers]
      BY <1>1, BoundsAssumption DEF RetryFires, TypeOK
    <2>3. retries' \in [Issues -> Attempts]
      BY <1>1, BoundsAssumption DEF RetryFires, TypeOK, Attempts
    <2> QED
      BY <1>1, <2>1, <2>2, <2>3 DEF RetryFires, TypeOK, work, poll
  <1>2. ASSUME NEW f \in firing, RetryStep(f) PROVE TypeOK'
    <2>1. /\ f \in Firing /\ f.issue \in Issues
          /\ f.attempt \in 1..MaxAttempt /\ f.attempt \in Attempts
          /\ f.view \in View \cup {NoView}
      BY BoundsAssumption DEF TypeOK, Firing, Attempts
    <2>2. Bump(f.attempt) \in 1..MaxAttempt
      BY <2>1, BumpType
    <2>3. firing \ {f} \subseteq Firing
      BY DEF TypeOK
    <2>4. CASE RetryFetchFails(f) \/ RetryRequeues(f)
      <3>1. Schedule(f.issue, Bump(f.attempt))
        BY <2>4 DEF RetryFetchFails, RetryRequeues
      <3>2. /\ claimed' \subseteq Issues /\ retries' \in [Issues -> Attempts]
            /\ timers' \in [Issues -> 0..MaxTimers]
        BY <2>1, <2>2, <3>1, ScheduleType
      <3> QED
        BY <2>3, <2>4, <3>2 DEF RetryFetchFails, RetryRequeues, TypeOK, work, poll
    <2>5. CASE RetryFetched(f)
      <3>1. (IF f.issue \in Candidates THEN ViewOf(f.issue) ELSE NoView) \in View \cup {NoView}
        BY ViewType
      <3> DEFINE g == [f EXCEPT !.phase = "decide",
                                !.view = IF f.issue \in Candidates
                                           THEN ViewOf(f.issue) ELSE NoView]
      <3>2. g \in Firing
        BY <2>1, <3>1 DEF Firing
      <3>3. firing' = (firing \ {f}) \cup {g}
        BY <2>5 DEF RetryFetched
      <3> HIDE DEF g
      <3>4. firing' \subseteq Firing
        BY <2>3, <3>2, <3>3
      <3> QED
        BY <2>5, <3>4 DEF RetryFetched, TypeOK, sched, work, poll
    <2>6. CASE RetryReleases(f)
      BY <2>3, <2>6 DEF RetryReleases, TypeOK, work, poll
    <2>7. CASE RetryDispatches(f)
      <3>1. CASE Outcome(f.issue, f.view, TRUE) = "Dispatched"
        <4>1. Spawn(f.issue, f.view.state, f.attempt) /\ firing' = firing \ {f}
          BY <2>7, <3>1 DEF RetryDispatches
        <4>2. f.view.state \in States
          BY <3>1 DEF Outcome, Eligible, States
        <4>3. /\ running' \in [Issues -> Entry \cup {NoEntry}]
              /\ claimed' \subseteq Issues /\ retries' \in [Issues -> Attempts]
              /\ workers' \subseteq WorkerOf
          BY <2>1, <4>1, <4>2, SpawnType
        <4> QED
          BY <2>3, <2>7, <4>1, <4>3 DEF RetryDispatches, TypeOK, poll
      <3>2. CASE Outcome(f.issue, f.view, TRUE) # "Dispatched"
        <4> DEFINE g == [f EXCEPT !.phase = "requeue", !.view = NoView]
        <4>1. g \in Firing
          BY <2>1 DEF Firing
        <4>2. firing' = (firing \ {f}) \cup {g} /\ UNCHANGED <<sched, workers>>
          BY <2>7, <3>2 DEF RetryDispatches
        <4> HIDE DEF g
        <4>3. firing' \subseteq Firing
          BY <2>3, <4>1, <4>2
        <4> QED
          BY <2>7, <4>2, <4>3 DEF RetryDispatches, TypeOK, sched, poll
      <3> QED
        BY <3>1, <3>2
    <2> QED
      BY <1>2, <2>4, <2>5, <2>6, <2>7 DEF RetryStep
  <1> QED
    BY <1>1, <1>2 DEF Retry

\* The end of a worker task, reported or not, keeps the types.
LEMMA WorkerType == TypeOK /\ Worker => TypeOK'
  <1> SUFFICES ASSUME TypeOK, NEW w \in workers,
                      WorkerPanics(w) \/ \E normal \in BOOLEAN : WorkerExits(w, normal)
               PROVE  TypeOK'
    BY DEF Worker
  <1>1. CASE WorkerPanics(w)
    BY <1>1 DEF WorkerPanics, TypeOK, sched, tasks, poll
  <1>2. ASSUME NEW normal \in BOOLEAN, WorkerExits(w, normal) PROVE TypeOK'
    <2> DEFINE r == [run |-> w.run, issue |-> w.issue, attempt |-> w.attempt, normal |-> normal]
    <2>1. r \in Report
      BY DEF TypeOK, WorkerOf, Report
    <2>2. reports' = Append(reports, r)
      BY <1>2 DEF WorkerExits
    <2> HIDE DEF r
    <2>3. reports' \in Seq(Report)
      BY <2>1, <2>2 DEF TypeOK
    <2> QED
      BY <1>2, <2>3 DEF WorkerExits, TypeOK, sched, tasks, poll
  <1> QED
    BY <1>1, <1>2

\* on_worker_exit keeps the types.
LEMMA ConsumeType == TypeOK /\ ConsumeReport => TypeOK'
  <1> SUFFICES ASSUME TypeOK, ConsumeReport PROVE TypeOK'
    OBVIOUS
  <1> DEFINE r == Head(reports)
  <1>1. /\ reports # <<>> /\ reports' = Tail(reports)
        /\ running' = [running EXCEPT ![r.issue] = NoEntry]
        /\ Schedule(r.issue, Bump(r.attempt))
        /\ UNCHANGED <<tracker, firing, workers, poll, cut>>
    BY DEF ConsumeReport
  <1>2. r \in Report /\ reports' \in Seq(Report)
    BY <1>1 DEF TypeOK
  <1> HIDE DEF r
  <1>3. r.issue \in Issues /\ r.attempt \in Attempts
    BY <1>2 DEF Report
  <1>4. /\ claimed' \subseteq Issues /\ retries' \in [Issues -> Attempts]
        /\ timers' \in [Issues -> 0..MaxTimers]
    BY <1>1, <1>3, BumpType, ScheduleType
  <1>5. running' \in [Issues -> Entry \cup {NoEntry}]
    BY <1>1, <1>3 DEF TypeOK
  <1> QED
    BY <1>1, <1>2, <1>4, <1>5 DEF TypeOK, poll

\* Ticket moves and restarts keep the types.
LEMMA EnvironmentType == TypeOK /\ Environment => TypeOK'
  <1>1. ASSUME TypeOK, Crash PROVE TypeOK'
    BY <1>1, BoundsAssumption DEF Crash, GoTo, NoViews, TypeOK, Attempts
  <1>2. ASSUME TypeOK, NEW i \in Issues, NEW s \in States \cup {Gone}, MoveIssue(i, s)
        PROVE  TypeOK'
    BY <1>2 DEF MoveIssue, TypeOK, sched, tasks, work, poll
  <1> QED
    BY <1>1, <1>2 DEF Environment

\* Every step of the daemon and of its environment keeps the types.
LEMMA NextType == TypeOK /\ [Next]_vars => TypeOK'
  <1>1. TypeOK /\ UNCHANGED vars => TypeOK'
    BY DEF TypeOK, vars
  <1> QED
    BY <1>1, TickType, RetryType, WorkerType, ConsumeType, EnvironmentType DEF Next

\* Whatever the interleaving of ticks, timers, workers and crashes, every
\* variable of the scheduler keeps a value of its type.
THEOREM TypeCorrect == Spec => []TypeOK
  <1> QED
    BY InitType, NextType, PTL DEF Spec

-----------------------------------------------------------------------------
(***************************************************************************)
(* No claim leaks and no retry entry is orphaned: with the types, the two  *)
(* facts are inductive together.  The three lemmas say it of the pieces    *)
(* the handlers share.                                                     *)
(***************************************************************************)
Accounted == ClaimIsAccountedFor /\ RetryHasTimer

\* What the rest of a step may do to issue j without losing account of it.
Keeps(j) ==
    /\ j \in Running => (j \in Running)'
    /\ FiringOf(j) # {} => FiringOf(j)' # {}

\* A step that forgets no queued, running or deciding issue keeps the accounting.
LEMMA KeepsAll ==
    ASSUME TypeOK, Accounted, claimed' \subseteq claimed,
           retries' = retries, timers' = timers,
           \A j \in Issues : j \in claimed' => Keeps(j)
    PROVE  Accounted'
  BY DEF Accounted, ClaimIsAccountedFor, RetryHasTimer, Keeps, TypeOK

\* retries::schedule puts the issue it claims into the queue, with a timer.
LEMMA ScheduleAccounts ==
    ASSUME TypeOK, Accounted, NEW i \in Issues, NEW a \in 1..MaxAttempt, Schedule(i, a),
           \A j \in Issues \ {i} : Keeps(j)
    PROVE  Accounted'
  <1>1. retries' = [retries EXCEPT ![i] = a] /\ claimed' = claimed \cup {i}
    BY DEF Schedule
  <1>2. retries'[i] # 0 /\ \A j \in Issues \ {i} : retries'[j] = retries[j]
    BY <1>1 DEF TypeOK
  <1>3. timers'[i] > 0 /\ \A j \in Issues \ {i} : timers'[j] = timers[j]
    BY BoundsAssumption DEF TypeOK, Schedule
  <1>4. ClaimIsAccountedFor'
    BY <1>1, <1>2 DEF Accounted, ClaimIsAccountedFor, Keeps, TypeOK
  <1>5. RetryHasTimer'
    BY <1>2, <1>3 DEF Accounted, RetryHasTimer
  <1> QED
    BY <1>4, <1>5 DEF Accounted

\* A new run takes the place of whatever the issue had.
LEMMA SpawnAccounts ==
    ASSUME TypeOK, Accounted, NEW i \in Issues, NEW s \in States, NEW a \in Attempts,
           Spawn(i, s, a), timers' = timers,
           \A j \in Issues \ {i} : FiringOf(j) # {} => FiringOf(j)' # {}
    PROVE  Accounted'
  <1>1. PICK r \in Runs :
          /\ running' = [running EXCEPT ![i] = [state |-> s, attempt |-> a, run |-> r]]
          /\ claimed' = claimed \cup {i}
          /\ retries' = [retries EXCEPT ![i] = 0]
    BY DEF Spawn
  <1>2. [state |-> s, attempt |-> a, run |-> r] # NoEntry
    BY AbsentAssumption DEF Entry
  <1>3. (i \in Running)' /\ \A j \in Issues \ {i} : j \in Running => (j \in Running)'
    BY <1>1, <1>2 DEF TypeOK, Running
  <1>4. \A j \in Issues \ {i} : retries'[j] = retries[j]
    BY <1>1 DEF TypeOK
  <1>5. ClaimIsAccountedFor'
    BY <1>1, <1>3, <1>4 DEF Accounted, ClaimIsAccountedFor, TypeOK
  <1>6. RetryHasTimer'
    BY <1>1, <1>4 DEF Accounted, RetryHasTimer, TypeOK
  <1> QED
    BY <1>5, <1>6 DEF Accounted

\* Dropping the record of one decision leaves those of the other issues.
LEMMA FiringRemoved ==
    ASSUME NEW f \in firing, firing \ {f} \subseteq firing',
           NEW j \in Issues \ {f.issue}, FiringOf(j) # {}
    PROVE  FiringOf(j)' # {}
  <1>1. PICK g \in firing : g.issue = j
    BY DEF FiringOf
  <1>2. g \in firing'
    BY <1>1
  <1> QED
    BY <1>1, <1>2 DEF FiringOf

\* The poll task leaks no claim and strands no retry entry.
LEMMA TickAccounts == TypeOK /\ Accounted /\ Tick => Accounted'
  <1> SUFFICES ASSUME TypeOK, Accounted, Tick PROVE Accounted'
    OBVIOUS
  <1>1. CASE UNCHANGED <<running, claimed, retries, timers, firing>>
    BY <1>1, KeepsAll DEF Keeps, Running, FiringOf
  <1>2. CASE TickStall
    <2>1. PICK i \in todo :
            IF i \in Running
              THEN TakeEntry(i) /\ Schedule(i, Bump(running[i].attempt))
              ELSE UNCHANGED <<sched, timers, cut>>
      BY <1>2 DEF TickStall
    <2>2. i \in Issues /\ firing' = firing
      BY <1>2 DEF TypeOK, TickStall
    <2>3. CASE i \in Running
      <3>1. \A j \in Issues \ {i} : Keeps(j)
        BY <2>1, <2>2, <2>3 DEF TakeEntry, Keeps, Running, FiringOf, TypeOK
      <3> QED
        BY <2>1, <2>2, <2>3, <3>1, EntryOfRunning, BumpType, ScheduleAccounts
    <2> QED
      BY <1>1, <2>1, <2>2, <2>3 DEF sched
  <1>3. CASE TickApply
    <2>1. PICK i \in todo :
            IF StillActive(views[i])
              THEN /\ running' = IF i \in Running
                                   THEN [running EXCEPT ![i].state = views[i].state]
                                   ELSE running
                   /\ UNCHANGED <<claimed, retries, cut>>
              ELSE Terminate(i)
      BY <1>3 DEF TickApply
    <2>2. i \in Issues /\ UNCHANGED <<timers, firing>>
      BY <1>3 DEF TypeOK, TickApply, tasks
    <2>3. CASE StillActive(views[i]) /\ i \in Running
      <3>1. views[i] \in View /\ views[i].state \in States
        BY <2>2, <2>3 DEF TypeOK, StillActive, View
      <3>2. [running[i] EXCEPT !.state = views[i].state] \in Entry
        BY <2>3, <3>1, EntryOfRunning DEF Entry
      <3>3. [running[i] EXCEPT !.state = views[i].state] # NoEntry
        BY <3>2, AbsentAssumption
      <3>4. running' = [running EXCEPT ![i] = [running[i] EXCEPT !.state = views[i].state]]
        BY <2>1, <2>3
      <3>5. \A j \in Issues : Keeps(j)
        BY <2>2, <3>3, <3>4 DEF Keeps, Running, FiringOf, TypeOK
      <3> QED
        BY <2>1, <2>2, <2>3, <3>5, KeepsAll
    <2>4. CASE ~StillActive(views[i]) /\ i \in Running
      <3>1. /\ running' = [running EXCEPT ![i] = NoEntry]
            /\ claimed' = claimed \ {i} /\ retries' = [retries EXCEPT ![i] = 0]
        BY <2>1, <2>4 DEF Terminate, TakeEntry
      <3>2. \A j \in Issues \ {i} : Keeps(j) /\ retries'[j] = retries[j]
        BY <2>2, <3>1 DEF Keeps, Running, FiringOf, TypeOK
      <3>3. retries'[i] = 0
        BY <2>2, <3>1 DEF TypeOK
      <3>4. ClaimIsAccountedFor'
        BY <3>1, <3>2 DEF Accounted, ClaimIsAccountedFor, Keeps, TypeOK
      <3>5. RetryHasTimer'
        BY <2>2, <3>2, <3>3 DEF Accounted, RetryHasTimer
      <3> QED
        BY <3>4, <3>5 DEF Accounted
    <2>5. CASE i \notin Running
      BY <1>1, <2>1, <2>2, <2>5 DEF Terminate, sched
    <2> QED
      BY <2>3, <2>4, <2>5
  <1>4. CASE TickDispatch
    <2>1. PICK i \in todo :
            IF Outcome(i, views[i], FALSE) = "Dispatched" THEN Spawn(i, views[i].state, 0)
              ELSE UNCHANGED <<sched, workers>>
      BY <1>4 DEF TickDispatch
    <2>2. i \in Issues /\ UNCHANGED <<timers, firing>>
      BY <1>4 DEF TypeOK, TickDispatch, tasks
    <2>3. CASE Outcome(i, views[i], FALSE) = "Dispatched"
      <3>1. views[i].state \in States /\ 0 \in Attempts
        BY <2>3, BoundsAssumption DEF Outcome, Eligible, States, Attempts
      <3>2. \A j \in Issues \ {i} : FiringOf(j) # {} => FiringOf(j)' # {}
        BY <2>2 DEF FiringOf
      <3> QED
        BY <2>1, <2>2, <2>3, <3>1, <3>2, SpawnAccounts
    <2> QED
      BY <1>1, <2>1, <2>2, <2>3 DEF sched
  <1> QED
    BY <1>1, <1>2, <1>3, <1>4
      DEF Tick, TickStart, TickRefreshed, TickRefreshFails, TickFetchFails, TickFetched,
          sched, tasks

\* Nor does fire_retry, whose claim rests on its own record between two locks.
LEMMA RetryAccounts == TypeOK /\ Accounted /\ Retry => Accounted'
  <1> SUFFICES ASSUME TypeOK, Accounted, Retry PROVE Accounted'
    OBVIOUS
  <1>1. ASSUME NEW i \in Issues, RetryFires(i) PROVE Accounted'
    <2>1. /\ timers' = [timers EXCEPT ![i] = @ - 1] /\ retries' = [retries EXCEPT ![i] = 0]
          /\ UNCHANGED <<running, claimed>>
      BY <1>1 DEF RetryFires
    <2>2. /\ retries'[i] = 0
          /\ \A j \in Issues \ {i} : retries'[j] = retries[j] /\ timers'[j] = timers[j]
      BY <2>1 DEF TypeOK
    <2>3. /\ firing \subseteq firing'
          /\ retries[i] # 0 => \E g \in firing' : g.issue = i
      <3>1. CASE retries[i] = 0
        BY <1>1, <3>1 DEF RetryFires
      <3>2. CASE retries[i] # 0
        <4>1. PICK f \in Fires :
                firing' = firing \cup {[id |-> f, issue |-> i, attempt |-> retries[i],
                                        phase |-> "fetch", view |-> NoView]}
          BY <1>1, <3>2 DEF RetryFires
        <4> DEFINE g == [id |-> f, issue |-> i, attempt |-> retries[i],
                         phase |-> "fetch", view |-> NoView]
        <4>2. g \in firing' /\ g.issue = i
          BY <4>1
        <4> QED
          BY <4>1, <4>2
      <3> QED
        BY <3>1, <3>2
    <2>4. \A j \in Issues : FiringOf(j) # {} => FiringOf(j)' # {}
      BY <2>3 DEF FiringOf
    <2>5. retries[i] # 0 => FiringOf(i)' # {}
      BY <2>3 DEF FiringOf
    <2>6. ClaimIsAccountedFor'
      BY <2>1, <2>2, <2>4, <2>5 DEF Accounted, ClaimIsAccountedFor, Running, TypeOK
    <2>7. RetryHasTimer'
      BY <2>2 DEF Accounted, RetryHasTimer
    <2> QED
      BY <2>6, <2>7 DEF Accounted
  <1>2. ASSUME NEW f \in firing, RetryStep(f) PROVE Accounted'
    <2>1. f.issue \in Issues /\ f.attempt \in 1..MaxAttempt /\ f.attempt \in Attempts
      BY BoundsAssumption DEF TypeOK, Firing, Attempts
    <2>2. firing \ {f} \subseteq firing'
      BY <1>2 DEF RetryStep, RetryFetchFails, RetryFetched, RetryReleases,
                  RetryDispatches, RetryRequeues
    <2>3. \A j \in Issues \ {f.issue} : FiringOf(j) # {} => FiringOf(j)' # {}
      BY <2>2, FiringRemoved
    <2>4. CASE RetryFetchFails(f) \/ RetryRequeues(f)
      <3>1. Schedule(f.issue, Bump(f.attempt)) /\ running' = running
        BY <2>4 DEF RetryFetchFails, RetryRequeues
      <3>2. \A j \in Issues \ {f.issue} : Keeps(j)
        BY <2>3, <3>1 DEF Keeps, Running
      <3> QED
        BY <2>1, <3>1, <3>2, BumpType, ScheduleAccounts
    <2>5. CASE RetryReleases(f)
      <3>1. \A j \in Issues : j \in claimed' => Keeps(j)
        BY <2>3, <2>5 DEF RetryReleases, Keeps, Running
      <3> QED
        BY <2>5, <3>1, KeepsAll DEF RetryReleases
    <2>6. CASE RetryDispatches(f) /\ Outcome(f.issue, f.view, TRUE) = "Dispatched"
      <3>1. Spawn(f.issue, f.view.state, f.attempt) /\ timers' = timers
        BY <2>6 DEF RetryDispatches
      <3>2. f.view.state \in States
        BY <2>6 DEF Outcome, Eligible, States
      <3> QED
        BY <2>1, <2>3, <3>1, <3>2, SpawnAccounts
    <2>7. CASE \/ RetryFetched(f)
               \/ RetryDispatches(f) /\ Outcome(f.issue, f.view, TRUE) # "Dispatched"
      <3>1. UNCHANGED <<running, claimed, retries, timers>>
        BY <2>7 DEF RetryFetched, RetryDispatches, sched
      <3>2. \E g \in firing' : g.issue = f.issue
        <4>1. CASE RetryFetched(f)
          <5> DEFINE g == [f EXCEPT !.phase = "decide",
                                    !.view = IF f.issue \in Candidates
                                               THEN ViewOf(f.issue) ELSE NoView]
          <5>1. g \in firing' /\ g.issue = f.issue
            BY <4>1 DEF RetryFetched, TypeOK, Firing
          <5> QED
            BY <5>1
        <4>2. CASE RetryDispatches(f) /\ Outcome(f.issue, f.view, TRUE) # "Dispatched"
          <5> DEFINE g == [f EXCEPT !.phase = "requeue", !.view = NoView]
          <5>1. g \in firing' /\ g.issue = f.issue
            BY <4>2 DEF RetryDispatches, TypeOK, Firing
          <5> QED
            BY <5>1
        <4> QED
          BY <2>7, <4>1, <4>2
      <3>3. \A j \in Issues : Keeps(j)
        BY <2>3, <3>1, <3>2 DEF Keeps, Running, FiringOf
      <3> QED
        BY <3>1, <3>3, KeepsAll
    <2> QED
      BY <1>2, <2>4, <2>5, <2>6, <2>7 DEF RetryStep
  <1> QED
    BY <1>1, <1>2 DEF Retry

\* Nor does on_worker_exit.
LEMMA ConsumeAccounts == TypeOK /\ Accounted /\ ConsumeReport => Accounted'
  <1> SUFFICES ASSUME TypeOK, Accounted, ConsumeReport PROVE Accounted'
    OBVIOUS
  <1> DEFINE r == Head(reports)
  <1>1. /\ reports # <<>> /\ firing' = firing
        /\ running' = [running EXCEPT ![r.issue] = NoEntry]
        /\ Schedule(r.issue, Bump(r.attempt))
    BY DEF ConsumeReport
  <1>2. r \in Report
    BY <1>1 DEF TypeOK
  <1> HIDE DEF r
  <1>3. r.issue \in Issues /\ r.attempt \in Attempts
    BY <1>2 DEF Report
  <1>4. \A j \in Issues \ {r.issue} : Keeps(j)
    BY <1>1, <1>3 DEF Keeps, Running, FiringOf, TypeOK
  <1> QED
    BY <1>1, <1>3, <1>4, BumpType, ScheduleAccounts

\* Nor do workers, ticket moves, restarts and stutters.
LEMMA RestAccounts == TypeOK /\ Accounted /\ (Worker \/ Environment \/ UNCHANGED vars) => Accounted'
  <1> SUFFICES ASSUME TypeOK, Accounted, Worker \/ Environment \/ UNCHANGED vars
               PROVE  Accounted'
    OBVIOUS
  <1>1. CASE UNCHANGED <<running, claimed, retries, timers, firing>>
    BY <1>1, KeepsAll DEF Keeps, Running, FiringOf
  <1>2. CASE Crash
    BY <1>2 DEF Crash, Accounted, ClaimIsAccountedFor, RetryHasTimer
  <1> QED
    BY <1>1, <1>2
      DEF Worker, Environment, WorkerPanics, WorkerExits, MoveIssue, sched, tasks, vars

\* A claimed issue is running, queued for a retry or being decided about, in
\* every reachable state: no interleaving strands an issue behind its own claim.
THEOREM ClaimAccounting == Spec => []ClaimIsAccountedFor
  <1>1. Init => Accounted
    BY DEF Init, Accounted, ClaimIsAccountedFor, RetryHasTimer
  <1>2. TypeOK /\ Accounted /\ [Next]_vars => Accounted'
    BY TickAccounts, RetryAccounts, ConsumeAccounts, RestAccounts DEF Next
  <1>3. Accounted => ClaimIsAccountedFor
    BY DEF Accounted
  <1> QED
    BY <1>1, <1>2, <1>3, TypeCorrect, PTL DEF Spec

\* Every entry of the retry queue has a timer asleep that will pop it.
THEOREM TimerAccounting == Spec => []RetryHasTimer
  <1>1. Init => Accounted
    BY DEF Init, Accounted, ClaimIsAccountedFor, RetryHasTimer
  <1>2. TypeOK /\ Accounted /\ [Next]_vars => Accounted'
    BY TickAccounts, RetryAccounts, ConsumeAccounts, RestAccounts DEF Next
  <1>3. Accounted => RetryHasTimer
    BY DEF Accounted
  <1> QED
    BY <1>1, <1>2, <1>3, TypeCorrect, PTL DEF Spec

-----------------------------------------------------------------------------
(***************************************************************************)
(* The slot bound.  The set of running issues grows only in Spawn, by one  *)
(* issue, under HasSlot, in the same critical section.                     *)
(***************************************************************************)
\* A running map with no new issue holds no more runs than before.
LEMMA FewerRunning ==
    ASSUME SlotBound, Running' \subseteq Running
    PROVE  SlotBound'
  <1>1. IsFiniteSet(Running)
    BY IssuesAssumption, FS_Subset DEF Running
  <1>2. Cardinality(Running') <= Cardinality(Running) /\ IsFiniteSet(Running')
    BY <1>1, FS_Subset
  <1> QED
    BY <1>1, <1>2, FS_CardinalityType, BoundsAssumption DEF SlotBound

\* A run started while a slot is free keeps the bound.
LEMMA SpawnBound ==
    ASSUME TypeOK, SlotBound, NEW i \in Issues, NEW s, NEW a, Spawn(i, s, a), HasSlot(s)
    PROVE  SlotBound'
  <1>1. \A j \in Issues \ {i} : running'[j] = running[j]
    BY DEF Spawn, TypeOK
  <1>2. Running' \subseteq Running \cup {i}
    BY <1>1 DEF Running
  <1>3. IsFiniteSet(Running)
    BY IssuesAssumption, FS_Subset DEF Running
  <1>4. IsFiniteSet(Running \cup {i}) /\ Cardinality(Running \cup {i}) <= Cardinality(Running) + 1
    BY <1>3, FS_AddElement, FS_CardinalityType
  <1>5. IsFiniteSet(Running') /\ Cardinality(Running') <= Cardinality(Running \cup {i})
    BY <1>2, <1>4, FS_Subset
  <1>6. Cardinality(Running) < MaxConcurrent
    BY DEF HasSlot
  <1> QED
    BY <1>3, <1>4, <1>5, <1>6, FS_CardinalityType, BoundsAssumption DEF SlotBound

\* Every step keeps the number of running issues within the slots.
LEMMA NextBound == TypeOK /\ SlotBound /\ [Next]_vars => SlotBound'
  <1> SUFFICES ASSUME TypeOK, SlotBound, [Next]_vars PROVE SlotBound'
    OBVIOUS
  <1>1. CASE UNCHANGED running
    BY <1>1, FewerRunning DEF Running
  <1>2. CASE TickStall
    <2>1. \/ UNCHANGED running
          \/ \E i \in Issues : running' = [running EXCEPT ![i] = NoEntry]
      BY <1>2 DEF TickStall, TakeEntry, TypeOK, sched
    <2> QED
      BY <1>1, <2>1, FewerRunning DEF Running, TypeOK
  <1>3. CASE TickApply
    <2>1. PICK i \in Issues :
            \/ UNCHANGED running
            \/ i \in Running /\ \E e : running' = [running EXCEPT ![i] = e]
      <3>1. PICK i \in todo :
              IF StillActive(views[i])
                THEN running' = IF i \in Running
                                  THEN [running EXCEPT ![i].state = views[i].state]
                                  ELSE running
                ELSE Terminate(i)
        BY <1>3 DEF TickApply
      <3>2. CASE StillActive(views[i]) /\ i \in Running
        <4>1. running' = [running EXCEPT ![i] = [running[i] EXCEPT !.state = views[i].state]]
          BY <3>1, <3>2
        <4> QED
          BY <3>2, <4>1 DEF TypeOK
      <3>3. CASE ~(StillActive(views[i]) /\ i \in Running)
        BY <3>1, <3>3 DEF Terminate, TakeEntry, TypeOK, sched
      <3> QED
        BY <3>2, <3>3
    <2>2. CASE i \in Running /\ \E e : running' = [running EXCEPT ![i] = e]
      <3>1. Running' \subseteq Running
        BY <2>2 DEF Running, TypeOK
      <3> QED
        BY <3>1, FewerRunning
    <2> QED
      BY <1>1, <2>1, <2>2
  <1>4. CASE TickDispatch
    <2>1. PICK i \in todo :
            IF Outcome(i, views[i], FALSE) = "Dispatched" THEN Spawn(i, views[i].state, 0)
              ELSE UNCHANGED <<sched, workers>>
      BY <1>4 DEF TickDispatch
    <2>2. CASE Outcome(i, views[i], FALSE) = "Dispatched"
      BY <2>1, <2>2, SpawnBound DEF Outcome, TypeOK
    <2> QED
      BY <1>1, <2>1, <2>2 DEF sched
  <1>5. ASSUME NEW f \in firing, RetryDispatches(f) PROVE SlotBound'
    <2>1. CASE Outcome(f.issue, f.view, TRUE) = "Dispatched"
      <3>1. HasSlot(f.view.state) /\ f.issue \in Issues
        BY <2>1 DEF Outcome, TypeOK, Firing
      <3>2. Spawn(f.issue, f.view.state, f.attempt)
        BY <1>5, <2>1 DEF RetryDispatches
      <3> QED
        BY <3>1, <3>2, SpawnBound
    <2> QED
      BY <1>1, <1>5, <2>1 DEF RetryDispatches, sched
  <1>6. CASE Retry
    <2>1. CASE \E f \in firing : RetryDispatches(f)
      BY <1>5, <2>1
    <2> QED
      BY <1>1, <1>6, <2>1
        DEF Retry, RetryStep, RetryFires, RetryFetchFails, RetryFetched, RetryReleases,
            RetryRequeues, sched
  <1>7. CASE ConsumeReport
    <2>1. Running' \subseteq Running
      BY <1>7 DEF ConsumeReport, Running, TypeOK
    <2> QED
      BY <2>1, FewerRunning
  <1>8. CASE Crash
    <2>1. Running' \subseteq Running
      BY <1>8 DEF Crash, Running
    <2> QED
      BY <2>1, FewerRunning
  <1> QED
    BY <1>1, <1>2, <1>3, <1>4, <1>6, <1>7, <1>8
      DEF Next, Tick, TickStart, TickRefreshed, TickRefreshFails, TickFetchFails, TickFetched,
          Worker, WorkerPanics, WorkerExits, Environment, MoveIssue, sched, vars

\* The daemon never runs more issues at once than agent.max_concurrent_agents,
\* for every number of issues, timers and interleaving of the dispatch paths.
THEOREM SlotsBounded == Spec => []SlotBound
  <1>1. Init => SlotBound
    <2>1. Init => Running = {}
      BY DEF Init, Running
    <2> QED
      BY <2>1, FS_EmptySet, BoundsAssumption DEF SlotBound
  <1> QED
    BY <1>1, NextBound, TypeCorrect, PTL DEF Spec

-----------------------------------------------------------------------------
(***************************************************************************)
(* The caps of the states, and the candidates a tick passes over.          *)
(***************************************************************************)
\* No run is started: who runs afterwards ran before, with the same run.
NoneStarted == \A i \in Running' : i \in Running /\ running'[i].run = running[i].run

Started(i, s, a) == Spawn(i, s, a) /\ HasSlot(s) /\ i \notin Running

\* An entry that goes, or is given another state, starts nothing.
LEMMA EntryGoes ==
    ASSUME TypeOK, NEW i, running' = [running EXCEPT ![i] = NoEntry]
    PROVE  NoneStarted
  BY DEF TypeOK, NoneStarted, Running

LEMMA NoneStartedByTick ==
    ASSUME TypeOK, Tick, ~TickDispatch
    PROVE  NoneStarted
  <1>1. CASE UNCHANGED running
    BY <1>1 DEF NoneStarted, Running
  <1>2. CASE TickStall
    <2>1. \/ UNCHANGED running
          \/ \E i : running' = [running EXCEPT ![i] = NoEntry]
      BY <1>2 DEF TickStall, TakeEntry, sched
    <2> QED
      BY <1>1, <2>1, EntryGoes
  <1>3. CASE TickApply
    <2>1. PICK i \in todo :
            IF StillActive(views[i])
              THEN running' = IF i \in Running
                                THEN [running EXCEPT ![i].state = views[i].state]
                                ELSE running
              ELSE Terminate(i)
      BY <1>3 DEF TickApply
    <2>2. CASE StillActive(views[i]) /\ i \in Running
      <3>1. running[i] \in Entry /\ i \in Issues
        BY <2>2, EntryOfRunning
      <3>2. running' = [running EXCEPT ![i] = [running[i] EXCEPT !.state = views[i].state]]
        BY <2>1, <2>2
      <3>3. running'[i].run = running[i].run
        BY <3>1, <3>2 DEF TypeOK, Entry
      <3>4. \A j \in Issues \ {i} : running'[j] = running[j]
        BY <3>2 DEF TypeOK
      <3> QED
        BY <2>2, <3>3, <3>4 DEF NoneStarted, Running
    <2>3. CASE ~(StillActive(views[i]) /\ i \in Running)
      <3>1. \/ UNCHANGED running
            \/ running' = [running EXCEPT ![i] = NoEntry]
        BY <2>1, <2>3 DEF Terminate, TakeEntry, sched
      <3> QED
        BY <1>1, <3>1, EntryGoes
    <2> QED
      BY <2>2, <2>3
  <1> QED
    BY <1>1, <1>2, <1>3
      DEF Tick, TickStart, TickRefreshed, TickRefreshFails, TickFetchFails, TickFetched, sched

\* Every step starts one run, for an issue without an entry and in a slot that is
\* free at that moment, or none.
LEMMA StartsOne ==
    ASSUME TypeOK, [Next]_vars
    PROVE  NoneStarted \/ \E i \in Issues, s \in States, a \in Attempts : Started(i, s, a)
  <1>1. CASE UNCHANGED running
    BY <1>1 DEF NoneStarted, Running
  <1>2. CASE TickDispatch
    <2>1. PICK i \in todo :
            IF Outcome(i, views[i], FALSE) = "Dispatched" THEN Spawn(i, views[i].state, 0)
              ELSE UNCHANGED <<sched, workers>>
      BY <1>2 DEF TickDispatch
    <2>2. CASE Outcome(i, views[i], FALSE) = "Dispatched"
      <3>1. i \in Issues /\ 0 \in Attempts
        BY BoundsAssumption DEF TypeOK, Attempts
      <3>2. Eligible(i, views[i]) /\ i \notin Running /\ HasSlot(views[i].state)
        BY <2>2 DEF Outcome
      <3>3. views[i].state \in States
        BY <3>2 DEF Eligible, States
      <3> QED
        BY <2>1, <2>2, <3>1, <3>2, <3>3 DEF Started
    <2> QED
      BY <1>1, <2>1, <2>2 DEF sched
  <1>3. ASSUME NEW f \in firing, RetryDispatches(f), ~UNCHANGED running
        PROVE  \E i \in Issues, s \in States, a \in Attempts : Started(i, s, a)
    <2>1. /\ Outcome(f.issue, f.view, TRUE) = "Dispatched"
          /\ Spawn(f.issue, f.view.state, f.attempt)
      BY <1>3 DEF RetryDispatches, sched
    <2>2. f.issue \in Issues /\ f.attempt \in Attempts
      BY BoundsAssumption DEF TypeOK, Firing, Attempts
    <2>3. Eligible(f.issue, f.view) /\ f.issue \notin Running /\ HasSlot(f.view.state)
      BY <2>1 DEF Outcome
    <2>4. f.view.state \in States
      BY <2>3 DEF Eligible, States
    <2> QED
      BY <2>1, <2>2, <2>3, <2>4 DEF Started
  <1>4. CASE Retry
    <2>1. CASE \E f \in firing : RetryDispatches(f)
      BY <1>1, <1>3, <2>1
    <2> QED
      BY <1>1, <1>4, <2>1
        DEF Retry, RetryStep, RetryFires, RetryFetchFails, RetryFetched, RetryReleases,
            RetryRequeues, sched
  <1>5. CASE ConsumeReport
    BY <1>5, EntryGoes DEF ConsumeReport
  <1>6. CASE Crash
    BY <1>6 DEF Crash, NoneStarted, Running
  <1> QED
    BY <1>1, <1>2, <1>4, <1>5, <1>6, NoneStartedByTick
      DEF Next, Worker, WorkerPanics, WorkerExits, Environment, MoveIssue, sched, vars

\* A state that has room takes one run more.
LEMMA StartedInRoom ==
    ASSUME TypeOK, NEW i \in Issues, NEW t \in States, NEW a \in Attempts, Started(i, t, a),
           NEW s \in DOMAIN StateCap, i \in RunningIn(s)'
    PROVE  Cardinality(RunningIn(s)') <= StateCap[s]
  <1>1. PICK r : running' = [running EXCEPT ![i] = [state |-> t, attempt |-> a, run |-> r]]
    BY DEF Started, Spawn
  <1>2. running'[i].state = t /\ \A j \in Issues \ {i} : running'[j] = running[j]
    BY <1>1 DEF TypeOK
  <1>3. s = t
    BY <1>2 DEF RunningIn
  <1>4. RunningIn(s)' \subseteq RunningIn(s) \cup {i}
    BY <1>2 DEF RunningIn, Running
  <1>5. IsFiniteSet(RunningIn(s))
    BY IssuesAssumption, FS_Subset DEF RunningIn, Running
  <1>6. IsFiniteSet(RunningIn(s) \cup {i})
        /\ Cardinality(RunningIn(s) \cup {i}) <= Cardinality(RunningIn(s)) + 1
    <2>1. PICK now : now = RunningIn(s)
      OBVIOUS
    <2>2. /\ IsFiniteSet(now \cup {i})
          /\ Cardinality(now \cup {i}) = Cardinality(now)
               \/ Cardinality(now \cup {i}) = Cardinality(now) + 1
      BY <1>5, <2>1, FS_AddElement
    <2>3. Cardinality(now) \in Nat
      BY <1>5, <2>1, FS_CardinalityType
    <2> QED
      BY <2>1, <2>2, <2>3
  <1>7. IsFiniteSet(RunningIn(s)')
        /\ Cardinality(RunningIn(s)') <= Cardinality(RunningIn(s) \cup {i})
    BY <1>4, <1>6, FS_Subset
  <1>8. Cardinality(RunningIn(s)) < StateCap[s]
    BY <1>3 DEF Started, HasSlot, RunningIn
  <1>9. StateCap[s] \in Nat
    BY BoundsAssumption
  <1>10. /\ Cardinality(RunningIn(s)') \in Nat /\ Cardinality(RunningIn(s)) \in Nat
         /\ Cardinality(RunningIn(s) \cup {i}) \in Nat
    BY <1>5, <1>6, <1>7, FS_CardinalityType
  <1>11. ASSUME NEW before \in Nat, NEW one \in Nat, NEW after \in Nat, NEW cap \in Nat,
                one <= before + 1, after <= one, before < cap
         PROVE  after <= cap
    BY <1>11
  <1> QED
    BY <1>6, <1>7, <1>8, <1>9, <1>10, <1>11

\* Where a state has more runs than its cap, a refresh moved a running issue there:
\* no dispatch did, from whatever stale candidate list.
THEOREM CapsKept == Spec => OverCapByMovesOnly
  <1> DEFINE Kept == \A s \in DOMAIN StateCap :
                        Cardinality(RunningIn(s)') > StateCap[s] =>
                            \A i \in RunningIn(s)' :
                                i \in Running /\ running'[i].run = running[i].run
  <1>1. TypeOK /\ [Next]_vars => [Kept]_vars
    <2> SUFFICES ASSUME TypeOK, [Next]_vars, NEW s \in DOMAIN StateCap,
                        Cardinality(RunningIn(s)') > StateCap[s], NEW j \in RunningIn(s)'
                 PROVE  j \in Running /\ running'[j].run = running[j].run
      OBVIOUS
    <2>1. CASE NoneStarted
      BY <2>1 DEF NoneStarted, RunningIn
    <2>2. CASE \E i \in Issues, t \in States, a \in Attempts : Started(i, t, a)
      <3>1. PICK i \in Issues, t \in States, a \in Attempts : Started(i, t, a)
        BY <2>2
      <3>2. i \notin RunningIn(s)'
        <4> SUFFICES ASSUME i \in RunningIn(s)' PROVE FALSE
          OBVIOUS
        <4>1. Cardinality(RunningIn(s)') <= StateCap[s]
          BY <3>1, StartedInRoom
        <4>2. RunningIn(s)' \subseteq Issues
          BY DEF RunningIn, Running
        <4>3. Cardinality(RunningIn(s)') \in Nat /\ StateCap[s] \in Nat
          BY <4>2, IssuesAssumption, FS_Subset, FS_CardinalityType, BoundsAssumption
        <4> QED
          BY <4>1, <4>3
      <3>3. \A k \in Issues \ {i} : running'[k] = running[k]
        BY <3>1 DEF Started, Spawn, TypeOK
      <3> QED
        BY <3>2, <3>3 DEF RunningIn, Running
    <2> QED
      BY <2>1, <2>2, StartsOne
  <1> QED
    BY <1>1, TypeCorrect, PTL DEF Spec, OverCapByMovesOnly

\* A candidate that leaves the list of a tick unstarted was not to be started, or
\* the tick ended for want of a slot.
LEMMA PassedOver ==
    ASSUME TypeOK, TickDispatch, NEW i \in Issues, Waiting(i), i \notin todo', i \notin Running'
    PROVE  /\ running' = running
           /\ \/ Cardinality(Running) >= MaxConcurrent
              \/ \E j \in todo : Waiting(j) /\ Rank[j] <= Rank[i] /\ Full(views[j].state)
  <1>1. PICK j \in todo :
          /\ \A k \in todo : Rank[j] <= Rank[k]
          /\ LET o == Outcome(j, views[j], FALSE) IN
              /\ IF o = "Dispatched" THEN Spawn(j, views[j].state, 0)
                   ELSE UNCHANGED <<sched, workers>>
              /\ o # "NoSlot" => todo' = todo \ {j}
    BY DEF TickDispatch
  <1>2. i \in todo /\ Rank[j] <= Rank[i]
    BY <1>1 DEF Waiting
  <1>3. CASE Outcome(j, views[j], FALSE) = "Dispatched"
    <2>1. i = j
      BY <1>1, <1>2, <1>3
    <2>2. PICK r \in Runs :
            running' = [running EXCEPT ![j] = [state |-> views[j].state, attempt |-> 0, run |-> r]]
      BY <1>1, <1>3 DEF Spawn
    <2>3. views[j].state \in States /\ 0 \in Attempts
      BY <2>1, BoundsAssumption DEF Waiting, Eligible, States, Attempts
    <2>4. [state |-> views[j].state, attempt |-> 0, run |-> r] # NoEntry
      BY <2>2, <2>3, AbsentAssumption DEF Entry
    <2>5. i \in Running'
      BY <2>1, <2>2, <2>4 DEF Running, TypeOK
    <2> QED
      BY <2>5
  <1>4. CASE Outcome(j, views[j], FALSE) = "Skipped"
    <2>1. i = j
      BY <1>1, <1>2, <1>4
    <2> QED
      BY <1>4, <2>1 DEF Waiting, Outcome
  <1>5. CASE Outcome(j, views[j], FALSE) = "NoSlot"
    <2>1. running' = running
      BY <1>1, <1>5 DEF sched
    <2>2. Waiting(j) /\ ~HasSlot(views[j].state)
      BY <1>5 DEF Waiting, Outcome, TickDispatch
    <2>3. Cardinality(Running) \in Nat /\ Cardinality(RunningIn(views[j].state)) \in Nat
      <3>1. Running \subseteq Issues /\ RunningIn(views[j].state) \subseteq Issues
        BY DEF Running, RunningIn
      <3> QED
        BY <3>1, IssuesAssumption, FS_Subset, FS_CardinalityType
    <2>4. \/ Cardinality(Running) >= MaxConcurrent
          \/ Full(views[j].state)
      BY <2>2, <2>3, BoundsAssumption DEF HasSlot, Full, RunningIn
    <2> QED
      BY <1>2, <2>1, <2>2, <2>4
  <1> QED
    BY <1>3, <1>4, <1>5 DEF Outcome

\* A tick passes nobody over but for want of a slot, of the daemon's or of the state
\* of a candidate in front, whatever retries and reports come in between.
THEOREM PassedOverCorrect == Spec => PassedOverForSlots
  <1> DEFINE Fair == \A i \in Issues : Waiting(i) /\ i \notin todo' /\ i \notin Running' =>
                        \/ Crash
                        \/ /\ running' = running
                           /\ \/ Cardinality(Running) >= MaxConcurrent
                              \/ \E j \in todo :
                                    Waiting(j) /\ Rank[j] <= Rank[i] /\ Full(views[j].state)
  <1>1. TypeOK /\ [Next]_vars => [Fair]_vars
    <2> SUFFICES ASSUME TypeOK, [Next]_vars, ~Crash,
                        NEW i \in Issues, Waiting(i), i \notin todo', i \notin Running'
                 PROVE  /\ running' = running
                        /\ \/ Cardinality(Running) >= MaxConcurrent
                           \/ \E j \in todo :
                                 Waiting(j) /\ Rank[j] <= Rank[i] /\ Full(views[j].state)
      OBVIOUS
    <2>1. todo' # todo /\ pc = "dispatch" /\ todo # {}
      BY DEF Waiting
    <2>2. ~UNCHANGED poll /\ ~UNCHANGED vars
      BY <2>1 DEF poll, vars
    <2>3. TickDispatch
      BY <2>1, <2>2
        DEF Next, Tick, TickStart, TickStall, TickRefreshed, TickRefreshFails, TickApply,
            TickFetchFails, TickFetched, Reconciled, Retry, RetryStep, RetryFires,
            RetryFetchFails, RetryFetched, RetryReleases, RetryDispatches, RetryRequeues,
            Worker, WorkerPanics, WorkerExits, ConsumeReport, Environment, MoveIssue
    <2> QED
      BY <2>3, PassedOver
  <1> QED
    BY <1>1, TypeCorrect, PTL DEF Spec, PassedOverForSlots
=============================================================================
