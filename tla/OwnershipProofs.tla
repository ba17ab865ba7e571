--------------------------- MODULE OwnershipProofs ---------------------------
(***************************************************************************)
(* An issue whose runs were left alone is in one place at a time, and the  *)
(* scheduler then implements ClaimLifecycle: for every set of issues,      *)
(* states and task identities, and every bound of Scheduler.               *)
(*                                                                         *)
(* Both theorems go over the same list of effects a step can have on one   *)
(* issue, so the list is proved once.                                      *)
(***************************************************************************)
EXTENDS SchedulerProofs

\* A run of issue i whose task lives or whose report nobody has read, and the
\* attempt number it was given.
Alive(i, r, a) ==
    \/ \E w \in workers : w.issue = i /\ w.run = r /\ w.attempt = a
    \/ \E k \in DOMAIN reports :
          reports[k].issue = i /\ reports[k].run = r /\ reports[k].attempt = a

\* A run is one task or one report.
Distinct ==
    /\ \A v, w \in workers : v.run = w.run => v = w
    /\ \A k, n \in DOMAIN reports : reports[k].run = reports[n].run => k = n
    /\ \A w \in workers, k \in DOMAIN reports : w.run # reports[k].run

Placed(i) ==
    /\ i \in Running => retries[i] = 0 /\ FiringOf(i) = {}
    /\ retries[i] # 0 => FiringOf(i) = {}
    /\ \A f, g \in FiringOf(i) : f = g
    /\ i \in claimed <=> (i \in Running \/ retries[i] # 0 \/ FiringOf(i) # {})

Matched(i) ==
    \A r, a : Alive(i, r, a) => i \in Running /\ running[i].run = r /\ running[i].attempt = a

Owned == Distinct /\ \A i \in Issues \ cut : Placed(i) /\ Matched(i)

-----------------------------------------------------------------------------
(* What a step does to the issues it is not about, and to the one it is.   *)

Same(j) ==
    /\ running'[j] = running[j] /\ retries'[j] = retries[j]
    /\ (j \in claimed' <=> j \in claimed) /\ (j \in cut' <=> j \in cut)
    /\ FiringOf(j)' = FiringOf(j)

Aside(i) == \A j \in Issues \ {i} : Same(j)

\* No run comes to life.
NoneNew == \A j, r, a : Alive(j, r, a)' => Alive(j, r, a)

Still == NoneNew /\ \A j \in Issues : Same(j)

\* A run stalls: its entry goes, and a retry is scheduled.
Taken(i) ==
    /\ i \in Running /\ Aside(i) /\ NoneNew
    /\ running'[i] = NoEntry /\ i \in claimed' /\ FiringOf(i)' = FiringOf(i)
    /\ retries'[i] = Bump(running[i].attempt)
    /\ i \in cut' <=> (i \in cut \/ running[i].run \in Unfinished(i))

\* It is terminated: entry, claim and retry go.
Terminated(i) ==
    /\ i \in Running /\ Aside(i) /\ NoneNew
    /\ running'[i] = NoEntry /\ i \notin claimed' /\ FiringOf(i)' = FiringOf(i)
    /\ retries'[i] = 0
    /\ i \in cut' <=> (i \in cut \/ running[i].run \in Unfinished(i))

\* Its entry is given the state the tracker answered.
Restated(i) ==
    /\ i \in Running /\ Aside(i) /\ NoneNew
    /\ running'[i] # NoEntry /\ running'[i].run = running[i].run
    /\ running'[i].attempt = running[i].attempt
    /\ retries'[i] = retries[i] /\ FiringOf(i)' = FiringOf(i)
    /\ (i \in claimed' <=> i \in claimed) /\ (i \in cut' <=> i \in cut)

\* A run starts.
Spawned(i, a) ==
    /\ i \notin Running /\ Aside(i) /\ Cardinality(Running) < MaxConcurrent
    /\ running'[i] # NoEntry /\ running'[i].attempt = a
    /\ i \in claimed' /\ retries'[i] = 0 /\ (i \in cut' <=> i \in cut)
    /\ \A j, q, b : Alive(j, q, b)' =>
          Alive(j, q, b) \/ (j = i /\ q = running'[i].run /\ b = a)

SpawnedByTick(i)     == Spawned(i, 0) /\ i \notin claimed /\ FiringOf(i)' = FiringOf(i)
SpawnedByRetry(i, f) == Spawned(i, f.attempt) /\ FiringOf(i)' = FiringOf(i) \ {f}

\* A timer pops the entry of the queue.
Fired(i) ==
    /\ retries[i] # 0 /\ Aside(i) /\ NoneNew
    /\ running'[i] = running[i] /\ retries'[i] = 0
    /\ (i \in claimed' <=> i \in claimed) /\ (i \in cut' <=> i \in cut)
    /\ \E g : g.attempt = retries[i] /\ FiringOf(i)' = FiringOf(i) \cup {g}

\* A retry goes back into the queue, releases the claim, or goes on.
Requeued(i, f) ==
    /\ Aside(i) /\ NoneNew
    /\ running'[i] = running[i] /\ retries'[i] = Bump(f.attempt)
    /\ i \in claimed' /\ (i \in cut' <=> i \in cut)
    /\ FiringOf(i)' = FiringOf(i) \ {f}

Released(i, f) ==
    /\ Aside(i) /\ NoneNew
    /\ running'[i] = running[i] /\ retries'[i] = retries[i]
    /\ i \notin claimed' /\ (i \in cut' <=> i \in cut)
    /\ FiringOf(i)' = FiringOf(i) \ {f}

GoneOn(i, f) ==
    /\ Aside(i) /\ NoneNew
    /\ running'[i] = running[i] /\ retries'[i] = retries[i]
    /\ (i \in claimed' <=> i \in claimed) /\ (i \in cut' <=> i \in cut)
    /\ \E g : g.attempt = f.attempt /\ FiringOf(i)' = (FiringOf(i) \ {f}) \cup {g}

\* A report is read: the entry goes, whichever run it belongs to.
Ends(i, r, a) ==
    /\ Alive(i, r, a) /\ Aside(i) /\ a \in Attempts
    /\ running'[i] = NoEntry /\ retries'[i] = Bump(a)
    /\ i \in claimed' /\ (i \in cut' <=> i \in cut) /\ FiringOf(i)' = FiringOf(i)
    /\ \A j, q, b : Alive(j, q, b)' => Alive(j, q, b) /\ q # r

Consumed(i) == \E r, a : Ends(i, r, a)

Effect ==
    \/ Still
    \/ \E i \in Issues :
          \/ Taken(i) \/ Terminated(i) \/ Restated(i) \/ SpawnedByTick(i) \/ Fired(i)
          \/ Consumed(i)
          \/ \E f \in FiringOf(i) :
                Requeued(i, f) \/ Released(i, f) \/ GoneOn(i, f) \/ SpawnedByRetry(i, f)

-----------------------------------------------------------------------------
(* The list is complete.                                                   *)

\* Nothing comes to life while tasks and reports stay.
LEMMA NoneNewHere == UNCHANGED <<workers, reports>> => NoneNew
  BY DEF NoneNew, Alive

\* A step that leaves the scheduling variables leaves every issue.
LEMMA StillHere ==
    ASSUME UNCHANGED <<running, claimed, retries, firing, cut>>, NoneNew
    PROVE  Still
  BY DEF Still, Same, FiringOf

\* Taking an entry away.
LEMMA TakeEntryHere ==
    ASSUME TypeOK, NEW i \in Running, TakeEntry(i)
    PROVE  /\ running'[i] = NoEntry
           /\ \A j \in Issues \ {i} : running'[j] = running[j] /\ (j \in cut' <=> j \in cut)
           /\ i \in cut' <=> (i \in cut \/ running[i].run \in Unfinished(i))
  BY DEF TakeEntry, TypeOK, Running

\* Scheduling a retry.
LEMMA ScheduleHere ==
    ASSUME TypeOK, NEW i \in Issues, NEW a, Schedule(i, a)
    PROVE  /\ retries'[i] = a /\ i \in claimed'
           /\ \A j \in Issues \ {i} : retries'[j] = retries[j] /\ (j \in claimed' <=> j \in claimed)
  BY DEF Schedule, TypeOK

\* Starting a run.
LEMMA SpawnHere ==
    ASSUME TypeOK, NEW i \in Issues, NEW s \in States, NEW a \in Attempts,
           Spawn(i, s, a), UNCHANGED <<reports, cut>>, HasSlot(s), i \notin Running,
           \A j \in Issues \ {i} : FiringOf(j)' = FiringOf(j)
    PROVE  Spawned(i, a)
  <1>1. PICK r \in Runs \ UsedRuns :
          /\ running' = [running EXCEPT ![i] = [state |-> s, attempt |-> a, run |-> r]]
          /\ claimed' = claimed \cup {i}
          /\ retries' = [retries EXCEPT ![i] = 0]
          /\ workers' = workers \cup {[run |-> r, issue |-> i, attempt |-> a]}
    BY DEF Spawn
  <1>2. [state |-> s, attempt |-> a, run |-> r] # NoEntry
    BY AbsentAssumption DEF Entry
  <1>3. running'[i] = [state |-> s, attempt |-> a, run |-> r] /\ retries'[i] = 0
    BY <1>1 DEF TypeOK
  <1>4. Aside(i)
    BY <1>1 DEF Aside, Same, TypeOK
  <1>5. ASSUME NEW j, NEW q, NEW b, Alive(j, q, b)'
        PROVE  Alive(j, q, b) \/ (j = i /\ q = r /\ b = a)
    BY <1>1, <1>5 DEF Alive
  <1>6. Cardinality(Running) < MaxConcurrent
    BY DEF HasSlot
  <1> QED
    BY <1>1, <1>2, <1>3, <1>4, <1>5, <1>6 DEF Spawned

\* The poll task.
LEMMA TickEffects == TypeOK /\ Tick => Effect
  <1> SUFFICES ASSUME TypeOK, Tick PROVE Effect
    OBVIOUS
  <1>1. CASE UNCHANGED <<running, claimed, retries, firing, cut, workers, reports>>
    BY <1>1, NoneNewHere, StillHere DEF Effect
  <1>2. CASE TickStall
    <2>1. PICK i \in todo :
            IF i \in Running
              THEN TakeEntry(i) /\ Schedule(i, Bump(running[i].attempt))
              ELSE UNCHANGED <<sched, timers, cut>>
      BY <1>2 DEF TickStall
    <2>2. i \in Issues /\ UNCHANGED <<firing, workers, reports>>
      BY <1>2 DEF TypeOK, TickStall, work
    <2>3. CASE i \in Running
      <3>1. TakeEntry(i) /\ Schedule(i, Bump(running[i].attempt))
        BY <2>1, <2>3
      <3>2. \A j : FiringOf(j)' = FiringOf(j)
        BY <2>2 DEF FiringOf
      <3>3. Taken(i)
        BY <2>2, <2>3, <3>1, <3>2, TakeEntryHere, ScheduleHere, NoneNewHere DEF Taken, Aside, Same
      <3> QED
        BY <2>2, <3>3 DEF Effect
    <2> QED
      BY <1>1, <2>1, <2>2, <2>3 DEF sched
  <1>3. CASE TickApply
    <2>1. PICK i \in todo :
            IF StillActive(views[i])
              THEN /\ running' = IF i \in Running
                                   THEN [running EXCEPT ![i].state = views[i].state]
                                   ELSE running
                   /\ UNCHANGED <<claimed, retries, cut>>
              ELSE Terminate(i)
      BY <1>3 DEF TickApply
    <2>2. i \in Issues /\ UNCHANGED <<firing, workers, reports>>
      BY <1>3 DEF TypeOK, TickApply, tasks, work
    <2>3. \A j : FiringOf(j)' = FiringOf(j)
      BY <2>2 DEF FiringOf
    <2>4. CASE StillActive(views[i]) /\ i \in Running
      <3>1. views[i] \in View /\ views[i].state \in States
        BY <2>2, <2>4 DEF TypeOK, StillActive, View
      <3> DEFINE e == [running[i] EXCEPT !.state = views[i].state]
      <3>2. e \in Entry /\ e.run = running[i].run /\ e.attempt = running[i].attempt
        BY <2>4, <3>1, EntryOfRunning DEF Entry
      <3>3. e # NoEntry
        BY <3>2, AbsentAssumption
      <3>4. running' = [running EXCEPT ![i] = e]
        BY <2>1, <2>4
      <3> HIDE DEF e
      <3>5. running'[i] = e /\ \A j \in Issues \ {i} : running'[j] = running[j]
        BY <2>2, <3>4 DEF TypeOK
      <3>6. UNCHANGED <<claimed, retries, cut>>
        BY <2>1, <2>4
      <3>7. Restated(i)
        BY <2>2, <2>3, <2>4, <3>2, <3>3, <3>5, <3>6, NoneNewHere DEF Restated, Aside, Same
      <3> QED
        BY <2>2, <3>7 DEF Effect
    <2>5. CASE ~StillActive(views[i]) /\ i \in Running
      <3>1. /\ TakeEntry(i) /\ claimed' = claimed \ {i}
            /\ retries' = [retries EXCEPT ![i] = 0]
        BY <2>1, <2>5 DEF Terminate
      <3>2. retries'[i] = 0 /\ \A j \in Issues \ {i} : retries'[j] = retries[j]
        BY <2>2, <3>1 DEF TypeOK
      <3>3. Terminated(i)
        BY <2>2, <2>3, <2>5, <3>1, <3>2, TakeEntryHere, NoneNewHere DEF Terminated, Aside, Same
      <3> QED
        BY <2>2, <3>3 DEF Effect
    <2>6. CASE i \notin Running
      BY <1>1, <2>1, <2>2, <2>6 DEF Terminate, sched
    <2> QED
      BY <2>4, <2>5, <2>6
  <1>4. CASE TickDispatch
    <2>1. PICK i \in todo :
            IF Outcome(i, views[i], FALSE) = "Dispatched" THEN Spawn(i, views[i].state, 0)
              ELSE UNCHANGED <<sched, workers>>
      BY <1>4 DEF TickDispatch
    <2>2. i \in Issues /\ UNCHANGED <<firing, reports, cut>>
      BY <1>4 DEF TypeOK, TickDispatch, tasks
    <2>3. CASE Outcome(i, views[i], FALSE) = "Dispatched"
      <3>1. /\ views[i].state \in States /\ 0 \in Attempts
            /\ HasSlot(views[i].state) /\ i \notin Running /\ i \notin claimed
        BY <2>3, BoundsAssumption DEF Outcome, Eligible, States, Attempts
      <3>2. \A j : FiringOf(j)' = FiringOf(j)
        BY <2>2 DEF FiringOf
      <3>3. Spawned(i, 0)
        BY <2>1, <2>2, <2>3, <3>1, <3>2, SpawnHere
      <3> QED
        BY <2>2, <3>1, <3>2, <3>3 DEF Effect, SpawnedByTick
    <2> QED
      BY <1>1, <2>1, <2>2, <2>3 DEF sched
  <1> QED
    BY <1>1, <1>2, <1>3, <1>4
      DEF Tick, TickStart, TickRefreshed, TickRefreshFails, TickFetchFails, TickFetched,
          sched, tasks, work

\* The retry timers and their decisions.
LEMMA RetryEffects == TypeOK /\ Retry => Effect
  <1> SUFFICES ASSUME TypeOK, Retry PROVE Effect
    OBVIOUS
  <1>1. ASSUME NEW i \in Issues, RetryFires(i) PROVE Effect
    <2>1. /\ retries' = [retries EXCEPT ![i] = 0]
          /\ UNCHANGED <<running, claimed, workers, reports, cut>>
      BY <1>1 DEF RetryFires, work
    <2>2. retries'[i] = 0 /\ \A j \in Issues \ {i} : retries'[j] = retries[j]
      BY <2>1 DEF TypeOK
    <2>3. CASE retries[i] = 0
      <3>1. \A j : FiringOf(j)' = FiringOf(j)
        BY <1>1, <2>3 DEF RetryFires, FiringOf
      <3> QED
        BY <2>1, <2>2, <2>3, <3>1, NoneNewHere DEF Effect, Still, Same
    <2>4. CASE retries[i] # 0
      <3>1. PICK f \in Fires :
              firing' = firing \cup {[id |-> f, issue |-> i, attempt |-> retries[i],
                                      phase |-> "fetch", view |-> NoView]}
        BY <1>1, <2>4 DEF RetryFires
      <3> DEFINE g == [id |-> f, issue |-> i, attempt |-> retries[i],
                       phase |-> "fetch", view |-> NoView]
      <3>2. firing' = firing \cup {g} /\ g.issue = i /\ g.attempt = retries[i]
        BY <3>1
      <3> HIDE DEF g
      <3>3. /\ FiringOf(i)' = FiringOf(i) \cup {g}
            /\ \A j \in Issues \ {i} : FiringOf(j)' = FiringOf(j)
        BY <3>2 DEF FiringOf
      <3>4. Fired(i)
        BY <2>1, <2>2, <2>4, <3>2, <3>3, NoneNewHere DEF Fired, Aside, Same
      <3> QED
        BY <3>4 DEF Effect
    <2> QED
      BY <2>3, <2>4
  <1>2. ASSUME NEW f \in firing, RetryStep(f) PROVE Effect
    <2> DEFINE i == f.issue
    <2>1. i \in Issues /\ f \in FiringOf(i) /\ f.attempt \in Attempts
      BY BoundsAssumption DEF TypeOK, Firing, Attempts, FiringOf
    <2>2. ASSUME firing' = firing \ {f}
          PROVE  /\ FiringOf(i)' = FiringOf(i) \ {f}
                 /\ \A j \in Issues \ {i} : FiringOf(j)' = FiringOf(j)
      BY <2>2 DEF FiringOf
    <2>3. ASSUME NEW g, g.issue = i, firing' = (firing \ {f}) \cup {g}
          PROVE  /\ FiringOf(i)' = (FiringOf(i) \ {f}) \cup {g}
                 /\ \A j \in Issues \ {i} : FiringOf(j)' = FiringOf(j)
      BY <2>3 DEF FiringOf
    <2> HIDE DEF i
    <2>4. CASE RetryFetchFails(f) \/ RetryRequeues(f)
      <3>1. /\ firing' = firing \ {f} /\ Schedule(i, Bump(f.attempt))
            /\ UNCHANGED <<running, workers, reports, cut>>
        BY <2>4 DEF RetryFetchFails, RetryRequeues, work, i
      <3>2. Requeued(i, f)
        BY <2>1, <2>2, <3>1, ScheduleHere, NoneNewHere DEF Requeued, Aside, Same
      <3> QED
        BY <2>1, <3>2 DEF Effect
    <2>5. CASE RetryReleases(f)
      <3>1. /\ firing' = firing \ {f} /\ claimed' = claimed \ {i}
            /\ UNCHANGED <<running, retries, workers, reports, cut>>
        BY <2>5 DEF RetryReleases, work, i
      <3>2. Released(i, f)
        BY <2>1, <2>2, <3>1, NoneNewHere DEF Released, Aside, Same
      <3> QED
        BY <2>1, <3>2 DEF Effect
    <2>6. ASSUME NEW g, g.issue = i, g.attempt = f.attempt, firing' = (firing \ {f}) \cup {g},
                 UNCHANGED <<running, claimed, retries, workers, reports, cut>>
          PROVE  Effect
      <3>1. GoneOn(i, f)
        BY <2>1, <2>3, <2>6, NoneNewHere DEF GoneOn, Aside, Same
      <3> QED
        BY <2>1, <3>1 DEF Effect
    <2>7. CASE RetryFetched(f)
      <3> DEFINE g == [f EXCEPT !.phase = "decide",
                                !.view = IF f.issue \in Candidates
                                           THEN ViewOf(f.issue) ELSE NoView]
      <3>1. g.issue = i /\ g.attempt = f.attempt
        BY DEF TypeOK, Firing, i
      <3>2. /\ firing' = (firing \ {f}) \cup {g}
            /\ UNCHANGED <<running, claimed, retries, workers, reports, cut>>
        BY <2>7 DEF RetryFetched, sched, work
      <3> HIDE DEF g
      <3> QED
        BY <2>6, <3>1, <3>2
    <2>8. CASE RetryDispatches(f) /\ Outcome(f.issue, f.view, TRUE) # "Dispatched"
      <3> DEFINE g == [f EXCEPT !.phase = "requeue", !.view = NoView]
      <3>1. g.issue = i /\ g.attempt = f.attempt
        BY DEF TypeOK, Firing, i
      <3>2. /\ firing' = (firing \ {f}) \cup {g}
            /\ UNCHANGED <<running, claimed, retries, workers, reports, cut>>
        BY <2>8 DEF RetryDispatches, sched
      <3> HIDE DEF g
      <3> QED
        BY <2>6, <3>1, <3>2
    <2>9. CASE RetryDispatches(f) /\ Outcome(f.issue, f.view, TRUE) = "Dispatched"
      <3>1. /\ Spawn(i, f.view.state, f.attempt) /\ firing' = firing \ {f}
            /\ UNCHANGED <<reports, cut>>
        BY <2>9 DEF RetryDispatches, i
      <3>2. f.view.state \in States /\ HasSlot(f.view.state) /\ i \notin Running
        BY <2>9 DEF Outcome, Eligible, States, i
      <3>3. Spawned(i, f.attempt)
        BY <2>1, <2>2, <3>1, <3>2, SpawnHere
      <3> QED
        BY <2>1, <2>2, <3>1, <3>3 DEF Effect, SpawnedByRetry
    <2> QED
      BY <1>2, <2>4, <2>5, <2>7, <2>8, <2>9 DEF RetryStep
  <1> QED
    BY <1>1, <1>2 DEF Retry

\* The workers: a task that ends with a report is still the same run.
LEMMA WorkerEffects == TypeOK /\ Worker => Effect
  <1> SUFFICES ASSUME TypeOK, NEW w \in workers,
                      WorkerPanics(w) \/ \E normal \in BOOLEAN : WorkerExits(w, normal)
               PROVE  Effect
    BY DEF Worker
  <1>1. NoneNew
    <2>1. CASE WorkerPanics(w)
      BY <2>1 DEF WorkerPanics, NoneNew, Alive
    <2>2. ASSUME NEW normal \in BOOLEAN, WorkerExits(w, normal) PROVE NoneNew
      <3> DEFINE r == [run |-> w.run, issue |-> w.issue, attempt |-> w.attempt,
                       normal |-> normal]
      <3>1. r \in Report /\ r.run = w.run /\ r.issue = w.issue /\ r.attempt = w.attempt
        BY DEF TypeOK, WorkerOf, Report
      <3>2. reports' = Append(reports, r) /\ workers' = workers \ {w}
        BY <2>2 DEF WorkerExits
      <3> HIDE DEF r
      <3>3. /\ DOMAIN reports' = 1..(Len(reports) + 1) /\ DOMAIN reports = 1..Len(reports)
            /\ \A k \in 1..Len(reports) : reports'[k] = reports[k]
            /\ reports'[Len(reports) + 1] = r
        BY <3>1, <3>2 DEF TypeOK
      <3>4. \A k \in DOMAIN reports' : k \in DOMAIN reports \/ k = Len(reports) + 1
        BY <3>3 DEF TypeOK
      <3> QED
        BY <3>1, <3>2, <3>3, <3>4 DEF NoneNew, Alive
    <2> QED
      BY <2>1, <2>2
  <1>2. UNCHANGED <<running, claimed, retries, firing, cut>>
    BY DEF WorkerPanics, WorkerExits, sched, tasks
  <1> QED
    BY <1>1, <1>2, StillHere DEF Effect

\* The consumer of reports ends the run of the first one.
LEMMA ConsumeEnds ==
    ASSUME TypeOK, Distinct, ConsumeReport
    PROVE  /\ Head(reports).issue \in Issues
           /\ Ends(Head(reports).issue, Head(reports).run, Head(reports).attempt)
  <1> DEFINE r == Head(reports)
  <1>1. /\ reports # <<>> /\ reports' = Tail(reports) /\ UNCHANGED <<firing, workers, cut>>
        /\ running' = [running EXCEPT ![r.issue] = NoEntry]
        /\ Schedule(r.issue, Bump(r.attempt))
    BY DEF ConsumeReport
  <1>2. r \in Report /\ r = reports[1] /\ 1 \in DOMAIN reports
    BY <1>1 DEF TypeOK
  <1> HIDE DEF r
  <1>3. r.issue \in Issues /\ r.attempt \in Attempts
    BY <1>2 DEF Report
  <1>4. \A k \in DOMAIN reports' :
           /\ k + 1 \in DOMAIN reports /\ k + 1 # 1 /\ reports'[k] = reports[k + 1]
    BY <1>1 DEF TypeOK
  <1>5. ASSUME NEW j, NEW q, NEW b, Alive(j, q, b)' PROVE Alive(j, q, b) /\ q # r.run
    <2>1. CASE \E w \in workers : w.issue = j /\ w.run = q /\ w.attempt = b
      BY <1>2, <2>1 DEF Alive, Distinct
    <2>2. CASE \E k \in DOMAIN reports' :
                  reports'[k].issue = j /\ reports'[k].run = q /\ reports'[k].attempt = b
      <3>1. PICK k \in DOMAIN reports' :
                  reports'[k].issue = j /\ reports'[k].run = q /\ reports'[k].attempt = b
        BY <2>2
      <3>2. k + 1 \in DOMAIN reports /\ k + 1 # 1 /\ reports'[k] = reports[k + 1]
        BY <1>4
      <3>3. reports[k + 1].run # reports[1].run
        BY <1>2, <3>2 DEF Distinct
      <3> QED
        BY <1>2, <3>1, <3>2, <3>3 DEF Alive
    <2> QED
      BY <1>1, <1>5, <2>1, <2>2 DEF Alive
  <1>6. Alive(r.issue, r.run, r.attempt)
    BY <1>2 DEF Alive
  <1>7. \A j : FiringOf(j)' = FiringOf(j)
    BY <1>1 DEF FiringOf
  <1>8. /\ running'[r.issue] = NoEntry
        /\ \A j \in Issues \ {r.issue} : running'[j] = running[j]
    BY <1>1, <1>3 DEF TypeOK
  <1>9. PICK i \in Issues, q \in Runs, a \in Attempts : i = r.issue /\ q = r.run /\ a = r.attempt
    BY <1>2, <1>3 DEF Report
  <1>10. Schedule(i, Bump(a))
    BY <1>1, <1>9 DEF Schedule
  <1>11. Aside(i) /\ i \in claimed' /\ (i \in cut' <=> i \in cut) /\ retries'[i] = Bump(a)
    BY <1>1, <1>7, <1>8, <1>9, <1>10, ScheduleHere DEF Aside, Same
  <1>12. \A j, p, b : Alive(j, p, b)' => Alive(j, p, b) /\ p # q
    BY <1>5, <1>9
  <1>13. Ends(i, q, a)
    BY <1>6, <1>7, <1>8, <1>9, <1>11, <1>12 DEF Ends
  <1> QED
    BY <1>9, <1>13 DEF r

LEMMA ConsumeEffects == TypeOK /\ Distinct /\ ConsumeReport => Effect
  BY ConsumeEnds DEF Effect, Consumed

\* Every step but a restart is one of the effects.
LEMMA Effects == TypeOK /\ Distinct /\ [Next]_vars => Effect \/ Crash
  <1> SUFFICES ASSUME TypeOK, Distinct, [Next]_vars PROVE Effect \/ Crash
    OBVIOUS
  <1>1. CASE UNCHANGED <<running, claimed, retries, firing, cut, workers, reports>>
    BY <1>1, NoneNewHere, StillHere DEF Effect
  <1>2. CASE \E i \in Issues, s \in States \cup {Gone} : MoveIssue(i, s)
    BY <1>1, <1>2 DEF MoveIssue, sched, tasks, work
  <1> QED
    BY <1>1, <1>2, TickEffects, RetryEffects, WorkerEffects, ConsumeEffects
      DEF Next, Environment, vars

-----------------------------------------------------------------------------
(* Runs stay distinct.                                                     *)

\* A new run has an identity that no task and no report has.
LEMMA SpawnDistinct ==
    ASSUME Distinct, NEW i, NEW s, NEW a, Spawn(i, s, a), reports' = reports
    PROVE  Distinct'
  <1>1. PICK r \in Runs \ UsedRuns :
          workers' = workers \cup {[run |-> r, issue |-> i, attempt |-> a]}
    BY DEF Spawn
  <1>2. /\ \A w \in workers : w.run # r
        /\ \A k \in DOMAIN reports : reports[k].run # r
    BY <1>1 DEF UsedRuns
  <1> QED
    BY <1>1, <1>2 DEF Distinct

\* A task becomes its report.
LEMMA ExitDistinct ==
    ASSUME TypeOK, Distinct, NEW w \in workers, NEW normal \in BOOLEAN, WorkerExits(w, normal)
    PROVE  Distinct'
  <1> DEFINE r == [run |-> w.run, issue |-> w.issue, attempt |-> w.attempt, normal |-> normal]
  <1>1. r \in Report /\ r.run = w.run
    BY DEF TypeOK, WorkerOf, Report
  <1>2. reports' = Append(reports, r) /\ workers' = workers \ {w}
    BY DEF WorkerExits
  <1> HIDE DEF r
  <1>3. /\ DOMAIN reports = 1..Len(reports) /\ Len(reports) \in Nat
        /\ \A k \in 1..Len(reports) : reports'[k] = reports[k]
        /\ reports'[Len(reports) + 1] = r
        /\ DOMAIN reports' = 1..(Len(reports) + 1)
    BY <1>1, <1>2 DEF TypeOK
  <1>4. \A k \in DOMAIN reports' :
          \/ k \in DOMAIN reports /\ reports'[k] = reports[k]
          \/ k = Len(reports) + 1 /\ reports'[k].run = w.run
    BY <1>1, <1>3
  <1>5. \A k \in DOMAIN reports : reports[k].run # w.run
    BY DEF Distinct
  <1>6. \A k, n \in DOMAIN reports' : reports'[k].run = reports'[n].run => k = n
    BY <1>4, <1>5 DEF Distinct
  <1>7. \A v \in workers', k \in DOMAIN reports' : v.run # reports'[k].run
    BY <1>2, <1>4 DEF Distinct
  <1> QED
    BY <1>2, <1>6, <1>7 DEF Distinct

LEMMA NextDistinct == TypeOK /\ Distinct /\ [Next]_vars => Distinct'
  <1> SUFFICES ASSUME TypeOK, Distinct, [Next]_vars PROVE Distinct'
    OBVIOUS
  <1>1. CASE UNCHANGED <<workers, reports>>
    BY <1>1 DEF Distinct
  <1>2. ASSUME NEW i, NEW s, NEW a, Spawn(i, s, a), reports' = reports PROVE Distinct'
    BY <1>2, SpawnDistinct
  <1>3. CASE TickDispatch
    <2>1. reports' = reports
      BY <1>3 DEF TickDispatch
    <2>2. \/ UNCHANGED workers
          \/ \E i \in todo : Spawn(i, views[i].state, 0)
      BY <1>3 DEF TickDispatch
    <2> QED
      BY <1>1, <1>2, <2>1, <2>2
  <1>4. CASE \E f \in firing : RetryDispatches(f)
    <2>1. reports' = reports
      BY <1>4 DEF RetryDispatches
    <2>2. \/ UNCHANGED workers
          \/ \E f \in firing : Spawn(f.issue, f.view.state, f.attempt)
      BY <1>4 DEF RetryDispatches
    <2> QED
      BY <1>1, <1>2, <2>1, <2>2
  <1>5. CASE Worker
    <2>1. PICK w \in workers :
            WorkerPanics(w) \/ \E normal \in BOOLEAN : WorkerExits(w, normal)
      BY <1>5 DEF Worker
    <2>2. CASE WorkerPanics(w)
      BY <2>2 DEF WorkerPanics, Distinct
    <2> QED
      BY <2>1, <2>2, ExitDistinct
  <1>6. CASE ConsumeReport
    <2>1. reports # <<>> /\ reports' = Tail(reports) /\ workers' = workers
      BY <1>6 DEF ConsumeReport
    <2>2. \A k \in DOMAIN reports' :
             k \in Int /\ k + 1 \in DOMAIN reports /\ reports'[k] = reports[k + 1]
      BY <2>1 DEF TypeOK
    <2>3. \A k, n \in DOMAIN reports' : reports'[k].run = reports'[n].run => k = n
      <3> SUFFICES ASSUME NEW k \in DOMAIN reports', NEW n \in DOMAIN reports',
                          reports'[k].run = reports'[n].run
                   PROVE  k = n
        OBVIOUS
      <3>1. k + 1 = n + 1
        BY <2>2 DEF Distinct
      <3> QED
        BY <2>2, <3>1
    <2> QED
      BY <2>1, <2>2, <2>3 DEF Distinct
  <1>7. CASE Crash
    BY <1>7 DEF Crash, Distinct
  <1>8. CASE Tick /\ ~TickDispatch
    BY <1>1, <1>8
      DEF Tick, TickStart, TickStall, TickRefreshed, TickRefreshFails, TickApply,
          TickFetchFails, TickFetched, work
  <1>9. CASE Retry /\ ~\E f \in firing : RetryDispatches(f)
    BY <1>1, <1>9
      DEF Retry, RetryStep, RetryFires, RetryFetchFails, RetryFetched, RetryReleases,
          RetryRequeues, work
  <1>10. CASE \E i \in Issues, s \in States \cup {Gone} : MoveIssue(i, s)
    BY <1>1, <1>10 DEF MoveIssue, work
  <1> QED
    BY <1>1, <1>3, <1>4, <1>5, <1>6, <1>7, <1>8, <1>9, <1>10 DEF Next, Environment, vars

-----------------------------------------------------------------------------
(* One owner.                                                              *)

\* The run an entry records is unfinished exactly if it is alive.
LEMMA AliveUnfinished ==
    ASSUME NEW i, NEW r, NEW a, Alive(i, r, a)
    PROVE  r \in Unfinished(i)
  BY DEF Alive, Unfinished

LEMMA UnfinishedAlive ==
    ASSUME NEW i, NEW r \in Unfinished(i)
    PROVE  \E a : Alive(i, r, a)
  BY DEF Alive, Unfinished

\* An issue nothing happens to keeps its place, and its run.
LEMMA SamePlaced ==
    ASSUME NEW j \in Issues, Placed(j), Same(j)
    PROVE  Placed(j)'
  BY DEF Same, Placed, Running

LEMMA SameMatched ==
    ASSUME NEW j \in Issues, Matched(j), Same(j), \A r, a : Alive(j, r, a)' => Alive(j, r, a)
    PROVE  Matched(j)'
  BY DEF Same, Matched, Running

LEMMA BumpIsNo0 ==
    ASSUME NEW a \in Attempts
    PROVE  Bump(a) # 0
  BY BumpType

\* One issue, in each of the effects.
LEMMA OwnedHere ==
    ASSUME TypeOK, NEW i \in Issues, i \notin cut => Placed(i) /\ Matched(i), i \notin cut',
           \/ Taken(i) \/ Terminated(i) \/ Restated(i) \/ SpawnedByTick(i) \/ Fired(i)
           \/ Consumed(i)
           \/ \E f \in FiringOf(i) :
                 Requeued(i, f) \/ Released(i, f) \/ GoneOn(i, f) \/ SpawnedByRetry(i, f)
    PROVE  Placed(i)' /\ Matched(i)'
  <1>1. i \notin cut /\ Placed(i) /\ Matched(i)
    BY DEF Taken, Terminated, Restated, SpawnedByTick, Fired, Consumed, Ends, Requeued,
           Released, GoneOn, SpawnedByRetry, Spawned
  <1>2. CASE Taken(i) \/ Terminated(i)
    <2>1. \A r, a : ~Alive(i, r, a)
      <3>1. running[i].run \notin Unfinished(i)
        BY <1>1, <1>2 DEF Taken, Terminated
      <3> QED
        BY <1>1, <3>1, AliveUnfinished DEF Matched
    <2>2. Matched(i)'
      BY <1>2, <2>1 DEF Taken, Terminated, NoneNew, Matched
    <2>3. i \in Running => Bump(running[i].attempt) # 0
      BY EntryOfRunning, BumpIsNo0
    <2>4. Placed(i)'
      BY <1>1, <1>2, <2>3 DEF Taken, Terminated, Placed, Running
    <2> QED
      BY <2>2, <2>4
  <1>3. CASE Restated(i)
    BY <1>1, <1>3 DEF Restated, Placed, Matched, Running, NoneNew
  <1>4. CASE SpawnedByTick(i)
    <2>1. \A r, a : ~Alive(i, r, a)
      BY <1>1, <1>4 DEF SpawnedByTick, Spawned, Matched
    <2>2. Placed(i)'
      BY <1>1, <1>4 DEF SpawnedByTick, Spawned, Placed, Running
    <2>3. Matched(i)'
      BY <1>4, <2>1 DEF SpawnedByTick, Spawned, Matched, Running
    <2> QED
      BY <2>2, <2>3
  <1>5. CASE Fired(i)
    <2>1. i \notin Running /\ FiringOf(i) = {}
      BY <1>1, <1>5 DEF Fired, Placed
    <2>2. Placed(i)'
      BY <1>1, <1>5, <2>1 DEF Fired, Placed, Running
    <2>3. Matched(i)'
      BY <1>1, <1>5 DEF Fired, Matched, Running, NoneNew
    <2> QED
      BY <2>2, <2>3
  <1>6. CASE Consumed(i)
    <2>1. PICK r, a : Ends(i, r, a)
      BY <1>6 DEF Consumed
    <2>2. i \in Running /\ retries[i] = 0 /\ FiringOf(i) = {}
      BY <1>1, <2>1 DEF Ends, Matched, Placed
    <2>3. Placed(i)'
      BY <2>1, <2>2, BumpIsNo0 DEF Ends, Placed, Running
    <2>4. \A q, b : ~Alive(i, q, b)'
      BY <1>1, <2>1 DEF Ends, Matched
    <2> QED
      BY <2>3, <2>4 DEF Matched
  <1>7. ASSUME NEW f \in FiringOf(i),
               Requeued(i, f) \/ Released(i, f) \/ GoneOn(i, f) \/ SpawnedByRetry(i, f)
        PROVE  Placed(i)' /\ Matched(i)'
    <2>1. i \notin Running /\ retries[i] = 0 /\ FiringOf(i) = {f} /\ \A r, a : ~Alive(i, r, a)
      BY <1>1 DEF Placed, Matched
    <2>2. Bump(f.attempt) # 0
      <3>1. f.attempt \in Attempts
        BY BoundsAssumption DEF FiringOf, TypeOK, Firing, Attempts
      <3> QED
        BY <3>1, BumpIsNo0
    <2>3. CASE Requeued(i, f)
      BY <2>1, <2>2, <2>3 DEF Requeued, Placed, Matched, Running, NoneNew
    <2>4. CASE Released(i, f)
      BY <2>1, <2>4 DEF Released, Placed, Matched, Running, NoneNew
    <2>5. CASE GoneOn(i, f)
      BY <1>1, <2>1, <2>5 DEF GoneOn, Placed, Matched, Running, NoneNew
    <2>6. CASE SpawnedByRetry(i, f)
      BY <2>1, <2>6 DEF SpawnedByRetry, Spawned, Placed, Matched, Running
    <2> QED
      BY <1>7, <2>3, <2>4, <2>5, <2>6
  <1> QED
    BY <1>2, <1>3, <1>4, <1>5, <1>6, <1>7

\* Every step keeps the issues that were left alone in one place.
LEMMA NextOwned == TypeOK /\ Owned /\ [Next]_vars => Owned'
  <1> SUFFICES ASSUME TypeOK, Owned, [Next]_vars PROVE Owned'
    OBVIOUS
  <1>1. Distinct'
    BY NextDistinct DEF Owned
  <1>2. CASE Crash
    <2>1. \A i \in Issues : Placed(i)' /\ Matched(i)'
      BY <1>2 DEF Crash, Placed, Matched, Alive, Running, FiringOf
    <2> QED
      BY <1>1, <2>1 DEF Owned
  <1>3. CASE Still
    <2>1. ASSUME NEW j \in Issues, j \notin cut' PROVE Placed(j)' /\ Matched(j)'
      <3>1. Same(j) /\ Placed(j) /\ Matched(j) /\ \A r, a : Alive(j, r, a)' => Alive(j, r, a)
        BY <1>3, <2>1 DEF Still, Same, NoneNew, Owned
      <3> QED
        BY <3>1, SamePlaced, SameMatched
    <2> QED
      BY <1>1, <2>1 DEF Owned
  <1>4. ASSUME NEW i \in Issues,
               \/ Taken(i) \/ Terminated(i) \/ Restated(i) \/ SpawnedByTick(i) \/ Fired(i)
               \/ Consumed(i)
               \/ \E f \in FiringOf(i) :
                     Requeued(i, f) \/ Released(i, f) \/ GoneOn(i, f) \/ SpawnedByRetry(i, f)
        PROVE  Owned'
    <2>1. Aside(i) /\ \A j, r, a : j # i /\ Alive(j, r, a)' => Alive(j, r, a)
      BY <1>4 DEF Taken, Terminated, Restated, SpawnedByTick, Spawned, Fired, Consumed, Ends,
                  Requeued, Released, GoneOn, SpawnedByRetry, NoneNew
    <2>2. ASSUME NEW j \in Issues \ {i}, j \notin cut' PROVE Placed(j)' /\ Matched(j)'
      <3>1. Same(j) /\ Placed(j) /\ Matched(j) /\ \A r, a : Alive(j, r, a)' => Alive(j, r, a)
        BY <2>1, <2>2 DEF Aside, Same, Owned
      <3> QED
        BY <3>1, SamePlaced, SameMatched
    <2>3. ASSUME i \notin cut' PROVE Placed(i)' /\ Matched(i)'
      BY <1>4, <2>3, OwnedHere DEF Owned
    <2> QED
      BY <1>1, <2>2, <2>3 DEF Owned
  <1> QED
    BY <1>2, <1>3, <1>4, Effects DEF Effect, Owned

LEMMA InitOwned == Init => Owned
  BY DEF Init, Owned, Distinct, Placed, Matched, Alive, Running, FiringOf

\* An issue none of whose runs lost its entry alive is running, queued or being
\* decided about, never two of these, is claimed exactly then, and has no run
\* but the one its entry records: for every number of workers, timers and
\* retries beside each other (mod.rs:578, :716, retries.rs:42).
THEOREM OwnershipCorrect == Spec => []OneOwner
  <1>1. Owned => OneOwner
    <2> SUFFICES ASSUME Owned, NEW i \in Issues \ cut
                 PROVE  /\ i \in Running => retries[i] = 0 /\ FiringOf(i) = {}
                        /\ retries[i] # 0 => FiringOf(i) = {}
                        /\ Cardinality(FiringOf(i)) <= 1
                        /\ i \in claimed <=> i \in Running \/ retries[i] # 0 \/ FiringOf(i) # {}
                        /\ \A r \in Unfinished(i) : i \in Running /\ running[i].run = r
      BY DEF OneOwner
    <2>1. Placed(i) /\ Matched(i)
      BY DEF Owned
    <2>2. FiringOf(i) = {} \/ \E f : FiringOf(i) = {f}
      BY <2>1 DEF Placed
    <2>3. Cardinality(FiringOf(i)) <= 1
      <3>1. CASE FiringOf(i) = {}
        BY <3>1, FS_EmptySet
      <3>2. ASSUME NEW f, FiringOf(i) = {f} PROVE Cardinality(FiringOf(i)) <= 1
        <4>1. Cardinality({f}) = 1
          BY FS_Singleton
        <4> QED
          BY <3>2, <4>1
      <3> QED
        BY <2>2, <3>1, <3>2
    <2>4. \A r \in Unfinished(i) : i \in Running /\ running[i].run = r
      BY <2>1, UnfinishedAlive DEF Matched
    <2> QED
      BY <2>1, <2>3, <2>4 DEF Placed
  <1> QED
    BY <1>1, InitOwned, NextOwned, TypeCorrect, PTL DEF Spec


-----------------------------------------------------------------------------
(* The scheduler implements ClaimLifecycle.                                *)

\* The attempt number the lifecycle sees.
Attempted(i) == IF i \in cut THEN 0 ELSE AttemptOf(i)

\* What an issue that was left alone shows, place by place.
LEMMA ShownRunning ==
    ASSUME NEW i \in Issues \ cut, i \in Running
    PROVE  /\ StatusOf(i) = (IF Finished(i) THEN "finished" ELSE "running")
           /\ Attempted(i) = running[i].attempt
  BY DEF StatusOf, Attempted, AttemptOf

LEMMA ShownQueued ==
    ASSUME NEW i \in Issues \ cut, i \notin Running, retries[i] # 0
    PROVE  StatusOf(i) = "queued" /\ Attempted(i) = retries[i]
  BY DEF StatusOf, Attempted, AttemptOf

LEMMA ShownDeciding ==
    ASSUME NEW i \in Issues \ cut, i \notin Running, retries[i] = 0, NEW f, FiringOf(i) = {f}
    PROVE  StatusOf(i) = "deciding" /\ Attempted(i) = f.attempt
  BY DEF StatusOf, Attempted, AttemptOf

LEMMA ShownUnclaimed ==
    ASSUME NEW i \in Issues \ cut, i \notin Running, retries[i] = 0, FiringOf(i) = {}
    PROVE  StatusOf(i) = "unclaimed" /\ Attempted(i) = 0
  BY DEF StatusOf, Attempted, AttemptOf

LEMMA ShownDisturbed ==
    ASSUME NEW i \in cut
    PROVE  StatusOf(i) = "disturbed" /\ Attempted(i) = 0
  BY DEF StatusOf, Attempted

\* The same after a step.
LEMMA ShowsQueued ==
    ASSUME NEW i \in Issues, i \notin cut', running'[i] = NoEntry, retries'[i] # 0
    PROVE  StatusOf(i)' = "queued" /\ Attempted(i)' = retries'[i]
  BY DEF StatusOf, Attempted, AttemptOf, Running

LEMMA ShowsRunning ==
    ASSUME NEW i \in Issues, i \notin cut', running'[i] # NoEntry
    PROVE  /\ StatusOf(i)' = (IF Finished(i)' THEN "finished" ELSE "running")
           /\ Attempted(i)' = running'[i].attempt
  BY DEF StatusOf, Attempted, AttemptOf, Running

LEMMA ShowsDeciding ==
    ASSUME NEW i \in Issues, i \notin cut', running'[i] = NoEntry, retries'[i] = 0,
           NEW g, FiringOf(i)' = {g}
    PROVE  StatusOf(i)' = "deciding" /\ Attempted(i)' = g.attempt
  BY DEF StatusOf, Attempted, AttemptOf, Running

LEMMA ShowsUnclaimed ==
    ASSUME NEW i \in Issues, i \notin cut', running'[i] = NoEntry, retries'[i] = 0,
           FiringOf(i)' = {}
    PROVE  StatusOf(i)' = "unclaimed" /\ Attempted(i)' = 0
  BY DEF StatusOf, Attempted, AttemptOf, Running

LEMMA ShowsDisturbed ==
    ASSUME NEW i, i \in cut'
    PROVE  StatusOf(i)' = "disturbed" /\ Attempted(i)' = 0
  BY DEF StatusOf, Attempted

\* A normal end that nobody has acted on is that of the run in the entry.
LEMMA FinishedIsRunning ==
    ASSUME NEW i \in Issues, Matched(i), Finished(i)
    PROVE  i \in Running /\ running[i].run \in Unfinished(i)
  <1>1. PICK k \in DOMAIN reports : reports[k].issue = i /\ reports[k].normal
    BY DEF Finished
  <1>2. Alive(i, reports[k].run, reports[k].attempt)
    BY <1>1 DEF Alive
  <1>3. i \in Running /\ running[i].run = reports[k].run
    BY <1>2 DEF Matched
  <1> QED
    BY <1>1, <1>3 DEF Unfinished

LEMMA FinishedStays ==
    ASSUME UNCHANGED reports
    PROVE  \A j : Finished(j)' <=> Finished(j)
  BY DEF Finished

\* An issue nothing happens to shows the same.
LEMMA ShowsSame ==
    ASSUME NEW j \in Issues, Same(j), Finished(j)' <=> Finished(j)
    PROVE  StatusOf(j)' = StatusOf(j) /\ Attempted(j)' = Attempted(j)
  BY DEF Same, StatusOf, Attempted, AttemptOf, Running

LEMMA LifecycleStutters ==
    ASSUME \A j \in Issues : StatusOf(j)' = StatusOf(j) /\ Attempted(j)' = Attempted(j)
    PROVE  UNCHANGED Lifecycle!vars
  BY DEF Lifecycle!vars, Attempted

LEMMA LifecycleBecomes ==
    ASSUME NEW i \in Issues, Aside(i), NEW s, NEW a, StatusOf(i)' = s, Attempted(i)' = a,
           \A j \in Issues \ {i} : Finished(j)' <=> Finished(j)
    PROVE  Lifecycle!Becomes(i, s, a)
  <1>1. \A j \in Issues \ {i} : StatusOf(j)' = StatusOf(j) /\ Attempted(j)' = Attempted(j)
    BY ShowsSame DEF Aside
  <1> QED
    BY <1>1 DEF Lifecycle!Becomes, Attempted

\* The lifecycle counts with its own instance of the library.
LEMMA SameCardinality ==
    ASSUME NEW S
    PROVE  Lifecycle!Cardinality(S) = Cardinality(S)
  BY DEF Lifecycle!Cardinality, Cardinality

\* An issue that holds a slot of the lifecycle has an entry.
LEMMA SlotsHere ==
    ASSUME Cardinality(Running) < MaxConcurrent
    PROVE  Lifecycle!Cardinality(Lifecycle!HoldsSlot) < MaxConcurrent
  <1>1. Lifecycle!HoldsSlot \subseteq Running
    BY DEF Lifecycle!HoldsSlot, Lifecycle!Held, StatusOf
  <1>2. IsFiniteSet(Running)
    BY IssuesAssumption, FS_Subset DEF Running
  <1>3. /\ Cardinality(Lifecycle!HoldsSlot) <= Cardinality(Running)
        /\ Cardinality(Running) \in Nat /\ Cardinality(Lifecycle!HoldsSlot) \in Nat
    BY <1>1, <1>2, FS_Subset, FS_CardinalityType
  <1> QED
    BY <1>3, SameCardinality, BoundsAssumption

\* Each effect on an issue left alone is a step of its lifecycle, when no report is
\* sent or read.
LEMMA LifecycleHere ==
    ASSUME TypeOK, NEW i \in Issues, i \notin cut, Placed(i), Matched(i), UNCHANGED reports,
           \/ Taken(i) \/ Terminated(i) \/ Restated(i) \/ SpawnedByTick(i) \/ Fired(i)
           \/ Consumed(i)
           \/ \E f \in FiringOf(i) :
                 Requeued(i, f) \/ Released(i, f) \/ GoneOn(i, f) \/ SpawnedByRetry(i, f)
    PROVE  [Lifecycle!Next]_(Lifecycle!vars)
  <1> PICK tried : tried = Attempted(i)
    OBVIOUS
  <1>1. Aside(i) /\ \A j : Finished(j)' <=> Finished(j)
    BY FinishedStays
       DEF Taken, Terminated, Restated, SpawnedByTick, Spawned, Fired, Consumed, Ends,
           Requeued, Released, GoneOn, SpawnedByRetry
  <1>2. ASSUME StatusOf(i)' = StatusOf(i), Attempted(i)' = Attempted(i)
        PROVE  [Lifecycle!Next]_(Lifecycle!vars)
    BY <1>1, <1>2, ShowsSame, LifecycleStutters DEF Aside
  <1>3. ASSUME StatusOf(i) = "running" \/ StatusOf(i) = "deciding",
               StatusOf(i)' = "queued", Attempted(i)' = Bump(Attempted(i))
        PROVE  [Lifecycle!Next]_(Lifecycle!vars)
    <2>1. PICK a : a = Bump(tried)
      OBVIOUS
    <2>2. Lifecycle!Becomes(i, "queued", a)
      BY <1>1, <1>3, <2>1, LifecycleBecomes
    <2>3. Lifecycle!Requeue(i)
      BY <1>3, <2>1, <2>2 DEF Lifecycle!Requeue, Lifecycle!Becomes, Lifecycle!Counted, Bump, Attempted
    <2> QED
      BY <2>3 DEF Lifecycle!Next
  <1>4. ASSUME StatusOf(i) = "running" \/ StatusOf(i) = "deciding",
               StatusOf(i)' = "unclaimed", Attempted(i)' = 0
        PROVE  [Lifecycle!Next]_(Lifecycle!vars)
    <2>1. Lifecycle!Release(i)
      BY <1>1, <1>4, LifecycleBecomes DEF Lifecycle!Release
    <2> QED
      BY <2>1 DEF Lifecycle!Next
  <1>5. ASSUME StatusOf(i) \in {"running", "finished"}, i \in cut'
        PROVE  [Lifecycle!Next]_(Lifecycle!vars)
    <2>1. Lifecycle!Disturb(i)
      BY <1>1, <1>5, ShowsDisturbed, LifecycleBecomes DEF Lifecycle!Disturb, Lifecycle!Held
    <2> QED
      BY <2>1 DEF Lifecycle!Next
  <1>6. CASE Taken(i)
    <2>1. /\ StatusOf(i) = (IF Finished(i) THEN "finished" ELSE "running")
          /\ Attempted(i) = running[i].attempt
      BY <1>6, ShownRunning DEF Taken
    <2>2. CASE i \notin cut'
      <3>1. retries'[i] # 0 /\ retries'[i] = Bump(running[i].attempt)
        BY <1>6, EntryOfRunning, BumpIsNo0 DEF Taken
      <3>2. StatusOf(i)' = "queued" /\ Attempted(i)' = retries'[i]
        BY <1>6, <2>2, <3>1, ShowsQueued DEF Taken
      <3>3. ~Finished(i)
        BY <1>6, <2>2, FinishedIsRunning DEF Taken
      <3> QED
        BY <1>3, <2>1, <3>1, <3>2, <3>3
    <2> QED
      BY <1>5, <2>1, <2>2
  <1>7. CASE Terminated(i)
    <2>1. StatusOf(i) = (IF Finished(i) THEN "finished" ELSE "running")
      BY <1>7, ShownRunning DEF Terminated
    <2>2. FiringOf(i)' = {} /\ running'[i] = NoEntry /\ retries'[i] = 0
      BY <1>7 DEF Terminated, Placed
    <2>3. i \in cut' \/ ~Finished(i)
      BY <1>7, FinishedIsRunning DEF Terminated
    <2> QED
      BY <1>4, <1>5, <2>1, <2>2, <2>3, ShowsUnclaimed
  <1>8. CASE Restated(i)
    <2>1. /\ StatusOf(i) = (IF Finished(i) THEN "finished" ELSE "running")
          /\ Attempted(i) = running[i].attempt
      BY <1>8, ShownRunning DEF Restated
    <2>2. /\ StatusOf(i)' = (IF Finished(i)' THEN "finished" ELSE "running")
          /\ Attempted(i)' = running[i].attempt
      BY <1>8, ShowsRunning DEF Restated
    <2> QED
      BY <1>1, <1>2, <2>1, <2>2
  <1>9. CASE SpawnedByTick(i)
    <2>1. i \notin Running /\ retries[i] = 0 /\ FiringOf(i) = {}
      BY <1>9 DEF SpawnedByTick, Spawned, Placed
    <2>2. StatusOf(i)' = "running" /\ Attempted(i)' = 0
      BY <1>1, <1>9, <2>1, ShowsRunning, FinishedIsRunning DEF SpawnedByTick, Spawned
    <2>3. Lifecycle!Becomes(i, "running", 0)
      BY <1>1, <2>2, LifecycleBecomes
    <2>4. Lifecycle!Start(i)
      BY <1>9, <2>1, <2>3, ShownUnclaimed, SlotsHere
        DEF Lifecycle!Start, SpawnedByTick, Spawned
    <2> QED
      BY <2>4 DEF Lifecycle!Next
  <1>10. CASE Fired(i)
    <2>1. i \notin Running /\ running[i] = NoEntry /\ FiringOf(i) = {}
      BY <1>10 DEF Fired, Placed, Running
    <2>2. PICK g : g.attempt = retries[i] /\ FiringOf(i)' = {g}
      BY <1>10, <2>1 DEF Fired
    <2>3. StatusOf(i) = "queued" /\ Attempted(i) = retries[i]
      BY <1>10, <2>1, ShownQueued DEF Fired
    <2>4. StatusOf(i)' = "deciding" /\ Attempted(i)' = retries[i]
      BY <1>10, <2>1, <2>2, ShowsDeciding DEF Fired
    <2>5. Lifecycle!Becomes(i, "deciding", tried)
      BY <1>1, <2>3, <2>4, LifecycleBecomes
    <2>6. Lifecycle!Decide(i)
      BY <2>3, <2>5 DEF Lifecycle!Decide, Lifecycle!Becomes, Attempted
    <2> QED
      BY <2>6 DEF Lifecycle!Next
  <1>11. CASE Consumed(i)
    <2>1. PICK r, a : Ends(i, r, a)
      BY <1>11 DEF Consumed
    <2>2. i \in Running /\ running[i].attempt = a
      BY <2>1 DEF Ends, Matched
    <2>3. ~Finished(i)
      <3>1. SUFFICES ASSUME NEW k \in DOMAIN reports, reports[k].issue = i PROVE FALSE
        BY DEF Finished
      <3>2. Alive(i, reports[k].run, reports[k].attempt) /\ Alive(i, r, a)
        BY <2>1, <3>1 DEF Alive, Ends
      <3>3. reports[k].run = r
        BY <3>2 DEF Matched
      <3>4. Alive(i, reports[k].run, reports[k].attempt)'
        BY <3>1 DEF Alive
      <3> QED
        BY <2>1, <3>3, <3>4 DEF Ends
    <2>4. StatusOf(i) = "running" /\ Attempted(i) = a
      BY <2>2, <2>3, ShownRunning
    <2>5. StatusOf(i)' = "queued" /\ Attempted(i)' = Bump(a)
      BY <2>1, BumpIsNo0, ShowsQueued DEF Ends
    <2> QED
      BY <1>3, <2>4, <2>5
  <1>12. ASSUME NEW f \in FiringOf(i),
                Requeued(i, f) \/ Released(i, f) \/ GoneOn(i, f) \/ SpawnedByRetry(i, f)
         PROVE  [Lifecycle!Next]_(Lifecycle!vars)
    <2>1. /\ i \notin Running /\ running[i] = NoEntry
          /\ retries[i] = 0 /\ FiringOf(i) = {f}
      BY DEF Placed, Running
    <2>2. StatusOf(i) = "deciding" /\ Attempted(i) = f.attempt
      BY <2>1, ShownDeciding
    <2>3. CASE Requeued(i, f)
      <3>1. f.attempt \in Attempts
        BY BoundsAssumption DEF FiringOf, TypeOK, Firing, Attempts
      <3>2. StatusOf(i)' = "queued" /\ Attempted(i)' = Bump(f.attempt)
        BY <2>1, <2>3, <3>1, BumpIsNo0, ShowsQueued DEF Requeued
      <3> QED
        BY <1>3, <2>2, <3>2
    <2>4. CASE Released(i, f)
      <3>1. StatusOf(i)' = "unclaimed" /\ Attempted(i)' = 0
        BY <2>1, <2>4, ShowsUnclaimed DEF Released
      <3> QED
        BY <1>4, <2>2, <3>1
    <2>5. CASE GoneOn(i, f)
      <3>1. PICK g : g.attempt = f.attempt /\ FiringOf(i)' = {g}
        BY <2>1, <2>5 DEF GoneOn
      <3>2. StatusOf(i)' = "deciding" /\ Attempted(i)' = f.attempt
        BY <2>1, <2>5, <3>1, ShowsDeciding DEF GoneOn
      <3> QED
        BY <1>2, <2>2, <3>2
    <2>6. CASE SpawnedByRetry(i, f)
      <3>1. StatusOf(i)' = "running" /\ Attempted(i)' = f.attempt
        BY <1>1, <2>1, <2>6, ShowsRunning, FinishedIsRunning DEF SpawnedByRetry, Spawned
      <3>2. Lifecycle!Becomes(i, "running", tried)
        BY <1>1, <2>2, <3>1, LifecycleBecomes
      <3>3. Lifecycle!Restart(i)
        BY <2>2, <2>6, <3>2, SlotsHere
          DEF Lifecycle!Restart, Lifecycle!Becomes, Attempted, SpawnedByRetry, Spawned
      <3> QED
        BY <3>3 DEF Lifecycle!Next
    <2> QED
      BY <1>12, <2>3, <2>4, <2>5, <2>6
  <1> QED
    BY <1>6, <1>7, <1>8, <1>9, <1>10, <1>11, <1>12

\* The end of a run: the report tells whether it was a normal one.
LEMMA LifecycleFinish ==
    ASSUME TypeOK, Owned, NEW w \in workers, NEW normal \in BOOLEAN, WorkerExits(w, normal)
    PROVE  [Lifecycle!Next]_(Lifecycle!vars)
  <1> DEFINE r == [run |-> w.run, issue |-> w.issue, attempt |-> w.attempt, normal |-> normal]
  <1>1. r \in Report /\ r.issue = w.issue /\ r.normal = normal /\ w.issue \in Issues
    BY DEF TypeOK, WorkerOf, Report
  <1>2. reports' = Append(reports, r)
    BY DEF WorkerExits
  <1> HIDE DEF r
  <1>3. /\ DOMAIN reports = 1..Len(reports) /\ Len(reports) \in Nat
        /\ \A k \in DOMAIN reports : reports'[k] = reports[k]
        /\ reports'[Len(reports) + 1] = r
        /\ DOMAIN reports' = DOMAIN reports \cup {Len(reports) + 1}
    BY <1>1, <1>2 DEF TypeOK
  <1>4. \A j : Finished(j)' <=> Finished(j) \/ (j = w.issue /\ normal)
    BY <1>1, <1>3 DEF Finished
  <1>5. UNCHANGED <<running, claimed, retries, firing, cut>>
    BY DEF WorkerExits, sched, tasks
  <1>6. \A j : Same(j)
    BY <1>5 DEF Same, FiringOf
  <1>7. CASE w.issue \in cut \/ ~normal
    <2>1. ASSUME NEW j \in Issues
          PROVE  StatusOf(j)' = StatusOf(j) /\ Attempted(j)' = Attempted(j)
      <3>1. CASE j \in cut
        BY <1>5, <3>1, ShownDisturbed, ShowsDisturbed
      <3>2. CASE j \notin cut
        BY <1>4, <1>6, <1>7, <3>2, ShowsSame
      <3> QED
        BY <3>1, <3>2
    <2> QED
      BY <2>1, LifecycleStutters
  <1>8. CASE w.issue \notin cut /\ normal
    <2>1. PICK i \in Issues \ cut : i = w.issue
      BY <1>1, <1>8
    <2>2. Matched(i) /\ Alive(i, w.run, w.attempt)
      BY <2>1 DEF Owned, Alive
    <2>3. i \in Running /\ running[i].run = w.run
      BY <2>2 DEF Matched
    <2>4. ~Finished(i)
      <3>1. SUFFICES ASSUME NEW k \in DOMAIN reports, reports[k].issue = i PROVE FALSE
        BY DEF Finished
      <3>2. Alive(i, reports[k].run, reports[k].attempt)
        BY <3>1 DEF Alive
      <3>3. reports[k].run = w.run
        BY <2>2, <2>3, <3>2 DEF Matched
      <3> QED
        BY <3>3 DEF Owned, Distinct
    <2>5. StatusOf(i) = "running" /\ Attempted(i) = running[i].attempt
      BY <2>3, <2>4, ShownRunning
    <2>6. Finished(i)' /\ running'[i] # NoEntry /\ i \notin cut'
      BY <1>4, <1>5, <1>8, <2>1, <2>3 DEF Running
    <2>7. StatusOf(i)' = "finished" /\ Attempted(i)' = running[i].attempt
      BY <1>5, <2>6, ShowsRunning
    <2>8. PICK tried : tried = Attempted(i)
      OBVIOUS
    <2>9. Lifecycle!Becomes(i, "finished", tried)
      BY <1>4, <1>6, <2>1, <2>5, <2>7, <2>8, LifecycleBecomes DEF Aside
    <2>10. Lifecycle!Finish(i)
      BY <2>5, <2>8, <2>9 DEF Lifecycle!Finish, Lifecycle!Becomes, Attempted
    <2> QED
      BY <2>10 DEF Lifecycle!Next
  <1> QED
    BY <1>7, <1>8

\* Reading a report: a continuation after a normal end, else another attempt.
LEMMA LifecycleConsume ==
    ASSUME TypeOK, Owned, ConsumeReport
    PROVE  [Lifecycle!Next]_(Lifecycle!vars)
  <1>1. /\ reports # <<>> /\ reports' = Tail(reports)
        /\ Head(reports) = reports[1] /\ 1 \in DOMAIN reports
    BY DEF ConsumeReport, TypeOK
  <1> PICK r, a : r = reports[1].run /\ a = reports[1].attempt
    OBVIOUS
  <1>2. PICK i \in Issues : Ends(i, r, a) /\ i = reports[1].issue
    BY <1>1, ConsumeEnds DEF Owned
  <1>3. \A k \in DOMAIN reports' : k + 1 \in DOMAIN reports /\ reports'[k] = reports[k + 1]
    BY <1>1 DEF TypeOK
  <1>4. \A k \in DOMAIN reports : k # 1 => k - 1 \in DOMAIN reports' /\ reports'[k - 1] = reports[k]
    <2>1. ASSUME NEW k \in DOMAIN reports, k # 1
          PROVE  k - 1 \in DOMAIN reports' /\ reports'[k - 1] = reports[k]
      BY <1>1, <2>1 DEF TypeOK
    <2> QED
      BY <2>1
  <1>5. ASSUME NEW j \in Issues \ {i} PROVE Finished(j)' <=> Finished(j)
    BY <1>2, <1>3, <1>4 DEF Finished
  <1>6. Aside(i)
    BY <1>2 DEF Ends
  <1>7. CASE i \in cut
    <2>1. StatusOf(i)' = StatusOf(i) /\ Attempted(i)' = Attempted(i)
      BY <1>2, <1>7, ShownDisturbed, ShowsDisturbed DEF Ends
    <2> QED
      BY <1>5, <1>6, <2>1, ShowsSame, LifecycleStutters DEF Aside
  <1>8. CASE i \notin cut
    <2>1. Matched(i) /\ Alive(i, r, a)
      BY <1>2, <1>8 DEF Owned, Ends
    <2>2. i \in Running /\ running[i].run = r /\ running[i].attempt = a
      BY <2>1 DEF Matched
    <2>3. StatusOf(i) \in {"running", "finished"} /\ Attempted(i) = a
      BY <1>8, <2>2, ShownRunning
    <2>4. StatusOf(i)' = "queued" /\ Attempted(i)' = Bump(a)
      BY <1>2, <1>8, BumpIsNo0, ShowsQueued DEF Ends
    <2>5. PICK tried, next : tried = Attempted(i) /\ next = Bump(tried)
      OBVIOUS
    <2>6. Lifecycle!Becomes(i, "queued", next)
      BY <1>5, <1>6, <2>3, <2>4, <2>5, LifecycleBecomes
    <2>7. next = Lifecycle!Counted(tried)
      BY <2>5 DEF Lifecycle!Counted, Bump
    <2>8. CASE StatusOf(i) = "running"
      <3>1. Lifecycle!Requeue(i)
        BY <2>5, <2>6, <2>7, <2>8 DEF Lifecycle!Requeue, Lifecycle!Becomes, Attempted
      <3> QED
        BY <3>1 DEF Lifecycle!Next
    <2>9. CASE StatusOf(i) = "finished"
      <3>1. Lifecycle!Continue(i)
        BY <2>5, <2>6, <2>7, <2>9 DEF Lifecycle!Continue, Lifecycle!Becomes, Attempted
      <3> QED
        BY <3>1 DEF Lifecycle!Next
    <2> QED
      BY <2>3, <2>8, <2>9
  <1> QED
    BY <1>7, <1>8

\* An issue that was disturbed stays so, and the others see nothing.
LEMMA LifecycleDisturbed ==
    ASSUME NEW i \in Issues, i \in cut, UNCHANGED reports,
           \/ Taken(i) \/ Terminated(i) \/ Restated(i) \/ SpawnedByTick(i) \/ Fired(i)
           \/ Consumed(i)
           \/ \E f \in FiringOf(i) :
                 Requeued(i, f) \/ Released(i, f) \/ GoneOn(i, f) \/ SpawnedByRetry(i, f)
    PROVE  [Lifecycle!Next]_(Lifecycle!vars)
  <1>1. Aside(i) /\ i \in cut'
    BY DEF Taken, Terminated, Restated, SpawnedByTick, Spawned, Fired, Consumed, Ends,
           Requeued, Released, GoneOn, SpawnedByRetry
  <1>2. StatusOf(i)' = StatusOf(i) /\ Attempted(i)' = Attempted(i)
    BY <1>1, ShownDisturbed, ShowsDisturbed
  <1> QED
    BY <1>1, <1>2, ShowsSame, FinishedStays, LifecycleStutters DEF Aside

\* Only the workers and the consumer touch the channel of reports.
LEMMA ReportsTold ==
    ASSUME [Next]_vars
    PROVE  \/ UNCHANGED reports \/ Crash \/ ConsumeReport
           \/ \E w \in workers, normal \in BOOLEAN : WorkerExits(w, normal)
  <1>1. CASE Tick
    BY <1>1 DEF Tick, TickStart, TickStall, TickRefreshed, TickRefreshFails, TickApply,
                TickFetchFails, TickFetched, TickDispatch, work
  <1>2. CASE Retry
    BY <1>2 DEF Retry, RetryFires, RetryStep, RetryFetchFails, RetryFetched, RetryReleases,
                RetryDispatches, RetryRequeues, work
  <1>3. CASE Worker
    BY <1>3 DEF Worker, WorkerPanics
  <1> QED
    BY <1>1, <1>2, <1>3 DEF Next, Environment, MoveIssue, work, vars

\* Every step is a step of the lifecycle or a stutter.
LEMMA LifecycleNext == TypeOK /\ Owned /\ [Next]_vars => [Lifecycle!Next]_(Lifecycle!vars)
  <1> SUFFICES ASSUME TypeOK, Owned, [Next]_vars PROVE [Lifecycle!Next]_(Lifecycle!vars)
    OBVIOUS
  <1>1. CASE Crash
    <2>1. \A j \in Issues : StatusOf(j)' = "unclaimed" /\ Attempted(j)' = 0
      BY <1>1 DEF Crash, StatusOf, Attempted, AttemptOf, Running, FiringOf
    <2>2. Lifecycle!Reboot
      BY <2>1 DEF Lifecycle!Reboot, Attempted
    <2> QED
      BY <2>2 DEF Lifecycle!Next
  <1>2. CASE ConsumeReport
    BY <1>2, LifecycleConsume
  <1>3. ASSUME NEW w \in workers, NEW normal \in BOOLEAN, WorkerExits(w, normal)
        PROVE  [Lifecycle!Next]_(Lifecycle!vars)
    BY <1>3, LifecycleFinish
  <1>4. CASE Still /\ UNCHANGED reports
    BY <1>4, ShowsSame, FinishedStays, LifecycleStutters DEF Still
  <1>5. ASSUME UNCHANGED reports, NEW i \in Issues,
               \/ Taken(i) \/ Terminated(i) \/ Restated(i) \/ SpawnedByTick(i) \/ Fired(i)
               \/ Consumed(i)
               \/ \E f \in FiringOf(i) :
                     Requeued(i, f) \/ Released(i, f) \/ GoneOn(i, f) \/ SpawnedByRetry(i, f)
        PROVE  [Lifecycle!Next]_(Lifecycle!vars)
    <2>1. CASE i \in cut
      BY <1>5, <2>1, LifecycleDisturbed
    <2>2. CASE i \notin cut
      <3>1. Placed(i) /\ Matched(i)
        BY <2>2 DEF Owned
      <3> QED
        BY <1>5, <2>2, <3>1, LifecycleHere
    <2> QED
      BY <2>1, <2>2
  <1>6. CASE UNCHANGED reports
    BY <1>1, <1>4, <1>5, <1>6, Effects DEF Effect, Owned
  <1> QED
    BY <1>1, <1>2, <1>3, <1>6, ReportsTold

LEMMA LifecycleInit == Init => Lifecycle!Init
  BY DEF Init, Lifecycle!Init, StatusOf, AttemptOf, Running, FiringOf

\* The poll task, the timers, the workers and their reports together behave
\* like the claim protocol: an issue leaves the queue by its backoff only, a
\* retry keeps its attempt number, a failure counts it on, and a release is a
\* decision (mod.rs:258, :466), until the entry of a living run is taken away.
\* The number of a continuation after a normal end is left open (mod.rs:586).
THEOREM LifecycleImplemented == Spec => RefinesLifecycle
  <1> QED
    BY InitOwned, NextOwned, TypeCorrect, LifecycleInit, LifecycleNext, PTL
      DEF Spec, RefinesLifecycle, Lifecycle!Spec

-----------------------------------------------------------------------------
(* The scheduler implements RunProtocol, on which the model of an attempt  *)
(* relies.                                                                 *)

SameHolder(j) == HolderOf(j)' = HolderOf(j)
SameTasks(j)  == LiveOf(j)' = LiveOf(j) /\ ReportedOf(j)' = ReportedOf(j)

LEMMA HoldersKept ==
    ASSUME UNCHANGED running
    PROVE  \A j \in Issues : SameHolder(j)
  BY DEF SameHolder, HolderOf, Running

LEMMA TasksKept ==
    ASSUME UNCHANGED <<workers, reports>>
    PROVE  \A j \in Issues : SameTasks(j)
  BY DEF SameTasks, LiveOf, ReportedOf

LEMMA HolderGoes ==
    ASSUME TypeOK, NEW i \in Issues, running' = [running EXCEPT ![i] = NoEntry]
    PROVE  HolderOf(i)' = {} /\ \A j \in Issues \ {i} : SameHolder(j)
  <1>1. running'[i] = NoEntry /\ \A j \in Issues \ {i} : running'[j] = running[j]
    BY DEF TypeOK
  <1> QED
    BY <1>1 DEF SameHolder, HolderOf, Running

LEMMA ProtocolStutters ==
    ASSUME \A j \in Issues : SameHolder(j) /\ SameTasks(j)
    PROVE  UNCHANGED Protocol!vars
  BY DEF Protocol!vars, SameHolder, SameTasks

\* An entry is taken away while tasks and reports stay.
LEMMA ProtocolForgets ==
    ASSUME TypeOK, NEW i \in Issues, running' = [running EXCEPT ![i] = NoEntry],
           UNCHANGED <<workers, reports>>
    PROVE  Protocol!Forget(i)
  <1>1. HolderOf(i)' = {} /\ \A j \in Issues \ {i} : SameHolder(j)
    BY HolderGoes
  <1>2. [j \in Issues |-> HolderOf(j)'] = [[j \in Issues |-> HolderOf(j)] EXCEPT ![i] = {}]
    BY <1>1 DEF SameHolder
  <1> QED
    BY <1>2, TasksKept DEF Protocol!Forget, SameTasks

\* A run starts where there is no entry, under an identity nobody uses.
LEMMA ProtocolDispatches ==
    ASSUME TypeOK, NEW i \in Issues, NEW s \in States, NEW a \in Attempts,
           Spawn(i, s, a), i \notin Running, reports' = reports
    PROVE  \E r \in Runs : Protocol!Dispatch(i, r)
  <1>1. PICK r \in Runs \ UsedRuns :
          /\ running' = [running EXCEPT ![i] = [state |-> s, attempt |-> a, run |-> r]]
          /\ workers' = workers \cup {[run |-> r, issue |-> i, attempt |-> a]}
    BY DEF Spawn
  <1>2. [state |-> s, attempt |-> a, run |-> r] # NoEntry
    BY AbsentAssumption DEF Entry
  <1>3. /\ running'[i] = [state |-> s, attempt |-> a, run |-> r]
        /\ \A j \in Issues \ {i} : running'[j] = running[j]
    BY <1>1 DEF TypeOK
  <1>4. HolderOf(i) = {} /\ HolderOf(i)' = {r} /\ \A j \in Issues \ {i} : SameHolder(j)
    BY <1>2, <1>3 DEF HolderOf, SameHolder, Running
  <1>5. LiveOf(i)' = LiveOf(i) \cup {r} /\ \A j \in Issues \ {i} : LiveOf(j)' = LiveOf(j)
    <2> DEFINE new == [run |-> r, issue |-> i, attempt |-> a]
    <2>1. new.run = r /\ new.issue = i /\ workers' = workers \cup {new}
      BY <1>1
    <2> HIDE DEF new
    <2> QED
      BY <2>1 DEF LiveOf
  <1>6. \A j \in Issues : ReportedOf(j)' = ReportedOf(j)
    BY DEF ReportedOf
  <1>7. \A j \in Issues : r \notin LiveOf(j) /\ r \notin ReportedOf(j)
    BY <1>1 DEF UsedRuns, LiveOf, ReportedOf
  <1>8. r \notin Protocol!Used
    BY <1>7 DEF Protocol!Used
  <1>9. [j \in Issues |-> HolderOf(j)'] = [[j \in Issues |-> HolderOf(j)] EXCEPT ![i] = {r}]
    BY <1>4 DEF SameHolder
  <1>10. [j \in Issues |-> LiveOf(j)']
           = [[j \in Issues |-> LiveOf(j)] EXCEPT ![i] = @ \cup {r}]
    BY <1>5
  <1> QED
    BY <1>4, <1>6, <1>8, <1>9, <1>10 DEF Protocol!Dispatch

\* A task ends.
LEMMA TaskEnds ==
    ASSUME TypeOK, Distinct, NEW w \in workers, workers' = workers \ {w}
    PROVE  /\ w.issue \in Issues /\ w.run \in Runs /\ w.run \in LiveOf(w.issue)
           /\ LiveOf(w.issue)' = LiveOf(w.issue) \ {w.run}
           /\ \A j \in Issues \ {w.issue} : LiveOf(j)' = LiveOf(j)
  <1>1. w.issue \in Issues /\ w.run \in Runs
    BY DEF TypeOK, WorkerOf
  <1>2. \A v \in workers : v.run = w.run => v = w
    BY DEF Distinct
  <1> QED
    BY <1>1, <1>2 DEF LiveOf

LEMMA ProtocolPanics ==
    ASSUME TypeOK, Distinct, NEW w \in workers, WorkerPanics(w)
    PROVE  Protocol!Panic(w.issue, w.run) /\ w.issue \in Issues /\ w.run \in Runs
  <1>1. workers' = workers \ {w} /\ running' = running /\ reports' = reports
    BY DEF WorkerPanics, sched
  <1>2. /\ w.issue \in Issues /\ w.run \in Runs /\ w.run \in LiveOf(w.issue)
        /\ LiveOf(w.issue)' = LiveOf(w.issue) \ {w.run}
        /\ \A j \in Issues \ {w.issue} : LiveOf(j)' = LiveOf(j)
    BY <1>1, TaskEnds
  <1>3. \A j \in Issues : ReportedOf(j)' = ReportedOf(j) /\ HolderOf(j)' = HolderOf(j)
    BY <1>1 DEF ReportedOf, HolderOf, Running
  <1>4. [j \in Issues |-> LiveOf(j)']
          = [[j \in Issues |-> LiveOf(j)] EXCEPT ![w.issue] = @ \ {w.run}]
    BY <1>2
  <1> QED
    BY <1>2, <1>3, <1>4 DEF Protocol!Panic

LEMMA ProtocolReports ==
    ASSUME TypeOK, Distinct, NEW w \in workers, NEW normal \in BOOLEAN, WorkerExits(w, normal)
    PROVE  Protocol!Report(w.issue, w.run) /\ w.issue \in Issues /\ w.run \in Runs
  <1> DEFINE r == [run |-> w.run, issue |-> w.issue, attempt |-> w.attempt, normal |-> normal]
  <1>1. r \in Report /\ r.run = w.run /\ r.issue = w.issue
    BY DEF TypeOK, WorkerOf, Report
  <1>2. workers' = workers \ {w} /\ running' = running /\ reports' = Append(reports, r)
    BY DEF WorkerExits, sched
  <1> HIDE DEF r
  <1>3. /\ w.issue \in Issues /\ w.run \in Runs /\ w.run \in LiveOf(w.issue)
        /\ LiveOf(w.issue)' = LiveOf(w.issue) \ {w.run}
        /\ \A j \in Issues \ {w.issue} : LiveOf(j)' = LiveOf(j)
    BY <1>2, TaskEnds
  <1>4. /\ DOMAIN reports = 1..Len(reports) /\ Len(reports) \in Nat
        /\ DOMAIN reports' = DOMAIN reports \cup {Len(reports) + 1}
        /\ Len(reports) + 1 \notin DOMAIN reports
        /\ reports'[Len(reports) + 1] = r
        /\ \A k \in DOMAIN reports : reports'[k] = reports[k]
    BY <1>1, <1>2 DEF TypeOK
  <1>5. PICK last : /\ DOMAIN reports' = DOMAIN reports \cup {last} /\ last \notin DOMAIN reports
                    /\ reports'[last] = r
                    /\ \A k \in DOMAIN reports : reports'[k] = reports[k]
    BY <1>4
  <1>6. /\ ReportedOf(w.issue)' = ReportedOf(w.issue) \cup {w.run}
        /\ \A j \in Issues \ {w.issue} : ReportedOf(j)' = ReportedOf(j)
    BY <1>1, <1>5 DEF ReportedOf
  <1>7. \A j \in Issues : HolderOf(j)' = HolderOf(j)
    BY <1>2 DEF HolderOf, Running
  <1>8. [j \in Issues |-> LiveOf(j)']
          = [[j \in Issues |-> LiveOf(j)] EXCEPT ![w.issue] = @ \ {w.run}]
    BY <1>3
  <1>9. [j \in Issues |-> ReportedOf(j)']
          = [[j \in Issues |-> ReportedOf(j)] EXCEPT ![w.issue] = @ \cup {w.run}]
    BY <1>3, <1>6
  <1> QED
    BY <1>3, <1>7, <1>8, <1>9 DEF Protocol!Report

LEMMA ProtocolReads ==
    ASSUME TypeOK, Distinct, ConsumeReport
    PROVE  \E i \in Issues, r \in Runs : Protocol!Read(i, r)
  <1>1. PICK r : r = Head(reports)
    OBVIOUS
  <1>2. /\ reports # <<>> /\ reports' = Tail(reports) /\ workers' = workers
        /\ running' = [running EXCEPT ![r.issue] = NoEntry]
    BY <1>1 DEF ConsumeReport
  <1>3. /\ 1 \in DOMAIN reports /\ reports[1] = r /\ r \in Report
        /\ \A k \in DOMAIN reports' :
              k \in Int /\ k + 1 \in DOMAIN reports /\ reports'[k] = reports[k + 1]
        /\ \A n \in DOMAIN reports : n = 1 \/ (n - 1 \in DOMAIN reports' /\ n = (n - 1) + 1)
    BY <1>1, <1>2 DEF TypeOK
  <1>4. r.issue \in Issues /\ r.run \in Runs
    BY <1>3 DEF Report
  <1>5. \A n \in DOMAIN reports : reports[n].run = r.run => n = 1
    BY <1>3 DEF Distinct
  <1>6. \A k \in DOMAIN reports' : \E n \in DOMAIN reports : n # 1 /\ reports'[k] = reports[n]
    <2> SUFFICES ASSUME NEW k \in DOMAIN reports' PROVE k + 1 # 1
      BY <1>3
    <2>1. k \in 1..Len(reports')
      BY <1>2 DEF TypeOK
    <2> QED
      BY <2>1
  <1>7. \A n \in DOMAIN reports : n # 1 => \E k \in DOMAIN reports' : reports'[k] = reports[n]
    BY <1>3
  <1>8. /\ r.run \in ReportedOf(r.issue)
        /\ ReportedOf(r.issue)' = ReportedOf(r.issue) \ {r.run}
    <2>1. r.run \in ReportedOf(r.issue)
      BY <1>3 DEF ReportedOf
    <2>2. ASSUME NEW q \in ReportedOf(r.issue)' PROVE q \in ReportedOf(r.issue) \ {r.run}
      <3>1. PICK k \in DOMAIN reports' : reports'[k].issue = r.issue /\ q = reports'[k].run
        BY <2>2 DEF ReportedOf
      <3>2. PICK n \in DOMAIN reports : n # 1 /\ reports'[k] = reports[n]
        BY <1>6
      <3> QED
        BY <1>5, <3>1, <3>2 DEF ReportedOf
    <2>3. ASSUME NEW q \in ReportedOf(r.issue) \ {r.run} PROVE q \in ReportedOf(r.issue)'
      <3>1. PICK n \in DOMAIN reports : reports[n].issue = r.issue /\ q = reports[n].run
        BY <2>3 DEF ReportedOf
      <3>2. n # 1
        BY <1>3, <2>3, <3>1
      <3>3. PICK k \in DOMAIN reports' : reports'[k] = reports[n]
        BY <1>7, <3>2
      <3> QED
        BY <3>1, <3>3 DEF ReportedOf
    <2> QED
      BY <2>1, <2>2, <2>3
  <1>9. ASSUME NEW j \in Issues \ {r.issue} PROVE ReportedOf(j)' = ReportedOf(j)
    <2>1. ASSUME NEW q \in ReportedOf(j)' PROVE q \in ReportedOf(j)
      <3>1. PICK k \in DOMAIN reports' : reports'[k].issue = j /\ q = reports'[k].run
        BY <2>1 DEF ReportedOf
      <3>2. PICK n \in DOMAIN reports : n # 1 /\ reports'[k] = reports[n]
        BY <1>6
      <3> QED
        BY <3>1, <3>2 DEF ReportedOf
    <2>2. ASSUME NEW q \in ReportedOf(j) PROVE q \in ReportedOf(j)'
      <3>1. PICK n \in DOMAIN reports : reports[n].issue = j /\ q = reports[n].run
        BY <2>2 DEF ReportedOf
      <3>2. n # 1
        BY <1>3, <3>1
      <3>3. PICK k \in DOMAIN reports' : reports'[k] = reports[n]
        BY <1>7, <3>2
      <3> QED
        BY <3>1, <3>3 DEF ReportedOf
    <2> QED
      BY <2>1, <2>2
  <1>10. HolderOf(r.issue)' = {} /\ \A j \in Issues \ {r.issue} : SameHolder(j)
    BY <1>2, <1>4, HolderGoes
  <1>11. [j \in Issues |-> HolderOf(j)'] = [[j \in Issues |-> HolderOf(j)] EXCEPT ![r.issue] = {}]
    BY <1>10 DEF SameHolder
  <1>12. [j \in Issues |-> ReportedOf(j)']
           = [[j \in Issues |-> ReportedOf(j)] EXCEPT ![r.issue] = @ \ {r.run}]
    BY <1>8, <1>9
  <1>13. \A j \in Issues : LiveOf(j)' = LiveOf(j)
    BY <1>2 DEF LiveOf
  <1>14. Protocol!Read(r.issue, r.run)
    BY <1>4, <1>8, <1>11, <1>12, <1>13 DEF Protocol!Read
  <1> QED
    BY <1>4, <1>14

\* The poll task takes entries away, gives them another state, and starts runs.
LEMMA ProtocolTick ==
    ASSUME TypeOK, Tick
    PROVE  [Protocol!Next]_(Protocol!vars)
  <1>1. reports' = reports
    BY DEF Tick, TickStart, TickStall, TickRefreshed, TickRefreshFails, TickApply,
           TickFetchFails, TickFetched, TickDispatch, work
  <1>2. CASE UNCHANGED <<running, workers>>
    BY <1>1, <1>2, HoldersKept, TasksKept, ProtocolStutters
  <1>3. ASSUME NEW i \in Issues, running' = [running EXCEPT ![i] = NoEntry], workers' = workers
        PROVE  [Protocol!Next]_(Protocol!vars)
    BY <1>1, <1>3, ProtocolForgets DEF Protocol!Next
  <1>4. CASE TickStall
    <2>1. workers' = workers
      BY <1>4 DEF TickStall, work
    <2>2. \/ UNCHANGED running
          \/ \E i \in Issues : running' = [running EXCEPT ![i] = NoEntry]
      BY <1>4 DEF TickStall, TakeEntry, TypeOK, sched
    <2> QED
      BY <1>2, <1>3, <2>1, <2>2
  <1>5. CASE TickApply
    <2>1. workers' = workers
      BY <1>5 DEF TickApply, work
    <2>2. PICK i \in todo :
            IF StillActive(views[i])
              THEN running' = IF i \in Running
                                THEN [running EXCEPT ![i].state = views[i].state]
                                ELSE running
              ELSE Terminate(i)
      BY <1>5 DEF TickApply
    <2>3. CASE StillActive(views[i]) /\ i \in Running
      <3>1. running[i] \in Entry /\ i \in Issues
        BY <2>3, EntryOfRunning
      <3>2. running' = [running EXCEPT ![i] = [running[i] EXCEPT !.state = views[i].state]]
        BY <2>2, <2>3
      <3>3. \A j \in Issues \ {i} : running'[j] = running[j]
        BY <3>2 DEF TypeOK
      <3>4. running'[i].run = running[i].run /\ running'[i] \in Entry
        <4>1. running'[i] = [running[i] EXCEPT !.state = views[i].state]
          BY <3>1, <3>2 DEF TypeOK
        <4>2. views[i].state \in States
          BY <2>3 DEF StillActive, States
        <4> QED
          BY <3>1, <4>1, <4>2 DEF Entry
      <3>5. \A j \in Issues : SameHolder(j)
        BY <2>3, <3>3, <3>4, AbsentAssumption DEF SameHolder, HolderOf, Running
      <3> QED
        BY <1>1, <2>1, <3>5, TasksKept, ProtocolStutters
    <2>4. CASE ~(StillActive(views[i]) /\ i \in Running)
      <3>1. i \in Issues
        BY DEF TypeOK
      <3>2. \/ UNCHANGED running
            \/ running' = [running EXCEPT ![i] = NoEntry]
        BY <2>2, <2>4 DEF Terminate, TakeEntry, sched
      <3> QED
        BY <1>2, <1>3, <2>1, <3>1, <3>2
    <2> QED
      BY <2>3, <2>4
  <1>6. CASE TickDispatch
    <2>1. PICK i \in todo :
            IF Outcome(i, views[i], FALSE) = "Dispatched" THEN Spawn(i, views[i].state, 0)
              ELSE UNCHANGED <<sched, workers>>
      BY <1>6 DEF TickDispatch
    <2>2. CASE Outcome(i, views[i], FALSE) = "Dispatched"
      <3>1. i \in Issues /\ 0 \in Attempts
        BY BoundsAssumption DEF TypeOK, Attempts
      <3>2. Eligible(i, views[i]) /\ i \notin Running
        BY <2>2 DEF Outcome
      <3>3. views[i].state \in States
        BY <3>2 DEF Eligible, States
      <3>4. \E r \in Runs : Protocol!Dispatch(i, r)
        BY <1>1, <2>1, <2>2, <3>1, <3>2, <3>3, ProtocolDispatches
      <3> QED
        BY <3>1, <3>4 DEF Protocol!Next
    <2> QED
      BY <1>2, <2>1, <2>2 DEF sched
  <1> QED
    BY <1>2, <1>4, <1>5, <1>6
      DEF Tick, TickStart, TickRefreshed, TickRefreshFails, TickFetchFails, TickFetched,
          sched, work

LEMMA ProtocolNext == TypeOK /\ Distinct /\ [Next]_vars => [Protocol!Next]_(Protocol!vars)
  <1> SUFFICES ASSUME TypeOK, Distinct, [Next]_vars PROVE [Protocol!Next]_(Protocol!vars)
    OBVIOUS
  <1>1. CASE UNCHANGED <<running, workers, reports>>
    BY <1>1, HoldersKept, TasksKept, ProtocolStutters
  <1>2. ASSUME NEW f \in firing, RetryDispatches(f) PROVE [Protocol!Next]_(Protocol!vars)
    <2>1. reports' = reports
      BY <1>2 DEF RetryDispatches
    <2>2. CASE Outcome(f.issue, f.view, TRUE) = "Dispatched"
      <3>1. Spawn(f.issue, f.view.state, f.attempt)
        BY <1>2, <2>2 DEF RetryDispatches
      <3>2. f.issue \in Issues /\ f.attempt \in Attempts
        BY BoundsAssumption DEF TypeOK, Firing, Attempts
      <3>3. Eligible(f.issue, f.view) /\ f.issue \notin Running
        BY <2>2 DEF Outcome
      <3>4. f.view.state \in States
        BY <3>3 DEF Eligible, States
      <3>5. \E r \in Runs : Protocol!Dispatch(f.issue, r)
        BY <2>1, <3>1, <3>2, <3>3, <3>4, ProtocolDispatches
      <3> QED
        BY <3>2, <3>5 DEF Protocol!Next
    <2> QED
      BY <1>1, <1>2, <2>1, <2>2 DEF RetryDispatches, sched
  <1>3. CASE Retry
    <2>1. CASE \E f \in firing : RetryDispatches(f)
      BY <1>2, <2>1
    <2> QED
      BY <1>1, <1>3, <2>1
        DEF Retry, RetryStep, RetryFires, RetryFetchFails, RetryFetched, RetryReleases,
            RetryRequeues, sched, work
  <1>4. CASE Worker
    <2>1. PICK w \in workers :
            WorkerPanics(w) \/ \E normal \in BOOLEAN : WorkerExits(w, normal)
      BY <1>4 DEF Worker
    <2> QED
      BY <2>1, ProtocolPanics, ProtocolReports DEF Protocol!Next
  <1>5. CASE ConsumeReport
    BY <1>5, ProtocolReads DEF Protocol!Next
  <1>6. CASE Crash
    <2>1. \A j \in Issues : HolderOf(j)' = {} /\ LiveOf(j)' = {} /\ ReportedOf(j)' = {}
      BY <1>6 DEF Crash, HolderOf, LiveOf, ReportedOf, Running
    <2>2. Protocol!Restart
      BY <2>1 DEF Protocol!Restart, Protocol!Nothing
    <2> QED
      BY <2>2 DEF Protocol!Next
  <1>7. CASE \E i \in Issues, s \in States \cup {Gone} : MoveIssue(i, s)
    BY <1>1, <1>7 DEF MoveIssue, sched, work
  <1> QED
    BY <1>1, <1>3, <1>4, <1>5, <1>6, <1>7, ProtocolTick DEF Next, Environment, vars

LEMMA ProtocolInit == Init => Protocol!Init
  <1> SUFFICES ASSUME Init PROVE Protocol!Init
    OBVIOUS
  <1>1. \A j \in Issues : HolderOf(j) = {} /\ LiveOf(j) = {} /\ ReportedOf(j) = {}
    BY DEF Init, HolderOf, LiveOf, ReportedOf, Running
  <1> QED
    BY <1>1 DEF Protocol!Init, Protocol!Nothing

\* Ticks, timers and the consumer of reports keep the protocol of runs: none is
\* started over an entry or under an identity in use, each reports once, and what
\* it reports is read once (mod.rs dispatch_one, on_worker_exit).
THEOREM ProtocolKept == Spec => KeepsProtocol
  <1>1. Init => Distinct
    BY DEF Init, Distinct
  <1> QED
    BY <1>1, NextDistinct, TypeCorrect, ProtocolInit, ProtocolNext, PTL
      DEF Spec, KeepsProtocol, Protocol!Spec
====
