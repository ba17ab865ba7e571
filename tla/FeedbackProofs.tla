---------------------------- MODULE FeedbackProofs ----------------------------
(***************************************************************************)
(* Theorems about Feedback for every number of handlers, attempts, CI runs *)
(* and deliveries, on Jira and on Linear.                                  *)
(***************************************************************************)
EXTENDS Feedback, FiniteSetTheorems, SequenceTheorems, TLAPS

(***************************************************************************)
(* The inductive invariant.                                                *)
(***************************************************************************)
CiSteps == Reading \cup {"log", "category", "attempts", "bounce", "block", "promote", "labels"}

\* A job is well formed: its step fits what it is for, and what it will write
\* or has loaded respects the cap.
JobOK(h) ==
    ~Idle(h) =>
        /\ jobs[h].for \in Deliveries => jobs[h].pc \in CiSteps
        /\ jobs[h].for \in {Session, Debounce} => jobs[h].pc \in {"tokens", "cost", "exceed"}
        /\ jobs[h].next <= cap
        /\ jobs[h].copy \in Fields => jobs[h].copy.attempts <= cap
        /\ jobs[h].copy # NotLoaded => jobs[h].pc \in FieldSteps
Jobs == \A h \in Handlers : JobOK(h)

\* Deliveries whose handler is past reading, or gone.
Counted == recorded \ {jobs[h].for : h \in {g \in Handlers : ~Idle(g) /\ jobs[g].pc \in Reading}}

Holds(h, d) == ~Idle(h) /\ jobs[h].for = d

\* One handler at most holds a delivery, and it is a recorded one.
OneHolder ==
    /\ \A h \in Handlers : ~Idle(h) /\ jobs[h].for \in Deliveries => jobs[h].for \in recorded
    /\ \A g, h \in Handlers, d \in Deliveries : Holds(g, d) /\ Holds(h, d) => g = h

\* Every count there is anywhere was earned by deliveries.
Earned ==
    /\ fields.attempts <= Cardinality(Counted)
    /\ \A h \in Handlers : ~Idle(h) =>
        /\ jobs[h].next <= Cardinality(Counted)
        /\ jobs[h].copy \in Fields => jobs[h].copy.attempts <= Cardinality(Counted)

\* While writers have not overlapped there is one at most, and it works on a
\* faithful copy of the comment.
Alone ==
    ~overlapped =>
        /\ \A g, h \in Handlers : g \in Busy /\ h \in Busy => g = h
        /\ \A h \in Busy :
            /\ jobs[h].copy \in Fields => jobs[h].copy = fields
            /\ jobs[h].copy = Absent => ~comment
Uncommented == marker /\ ~comment => fields = Blank

\* The context is written before the ticket moves.
Context ==
    \/ marker /\ overlapped
    \/ /\ ticket = "fixes" => fields.log /\ fields.category
       /\ \A h \in Busy :
            /\ jobs[h].pc \in {"category", "attempts", "bounce"} => fields.log
            /\ jobs[h].pc \in {"attempts", "bounce"} => fields.category

\* The count is raised before the ticket moves, and a blocked ticket has no
\* attempt left.
Guarded ==
    ~overlapped =>
        /\ bounces <= fields.attempts
        /\ ticket = "blocked" => fields.attempts = cap
        /\ \A h \in Busy :
            /\ jobs[h].pc \in {"log", "category", "attempts"} => jobs[h].next = fields.attempts + 1
            /\ jobs[h].pc = "bounce" => bounces < fields.attempts /\ ticket # "blocked"
            /\ jobs[h].pc = "block" => fields.attempts = cap

Inv == TypeOK /\ Jobs /\ OneHolder /\ Earned /\ Alone /\ Uncommented /\ Context /\ Guarded

(***************************************************************************)
(* How the handlers' jobs change.                                          *)
(***************************************************************************)
JobsType == jobs \in [Handlers -> Job \cup {NoJob}]
Others(h) == \A g \in Handlers \ {h} : jobs'[g] = jobs[g]

\* The fields of a job that task h has.
LEMMA JobFields ==
    ASSUME JobsType, NEW h \in Handlers, ~Idle(h)
    PROVE  /\ jobs[h] \in Job
           /\ jobs[h].pc \in Reading \cup Writing
           /\ jobs[h].for \in Deliveries \cup {Session, Debounce}
           /\ jobs[h].next \in 0..MaxAttempts
           /\ jobs[h].copy \in Fields \cup {NotLoaded, Absent}
  BY DEF JobsType, Idle, Job

\* A step that gives task h the job j leaves the others alone.
LEMMA Assign ==
    ASSUME JobsType, NEW h \in Handlers, NEW j \in Job \cup {NoJob},
           jobs' = [jobs EXCEPT ![h] = j]
    PROVE  JobsType' /\ jobs'[h] = j /\ Others(h)
  BY DEF JobsType, Others

LEMMA Stops ==
    ASSUME JobsType, NEW h \in Handlers, Stop(h)
    PROVE  JobsType' /\ Idle(h)' /\ Others(h)
  BY Assign DEF Stop, Idle

LEMMA Starts ==
    ASSUME JobsType, NEW h \in Handlers, NEW what \in Deliveries \cup {Session, Debounce},
           NEW p \in Reading \cup Writing,
           jobs' = [jobs EXCEPT ![h] = NewJob(what, p)]
    PROVE  /\ JobsType' /\ ~Idle(h)' /\ Others(h)
           /\ jobs'[h].pc = p /\ jobs'[h].for = what
           /\ jobs'[h].next = 0 /\ jobs'[h].copy = NotLoaded
  <1>1. NewJob(what, p) \in Job
    BY BoundsAssumption DEF NewJob, Job
  <1>2. JobsType' /\ jobs'[h] = NewJob(what, p) /\ Others(h)
    BY <1>1, Assign
  <1> QED
    BY <1>1, <1>2, DistinctAssumption DEF NewJob, Idle

LEMMA Goes ==
    ASSUME JobsType, NEW h \in Handlers, ~Idle(h), NEW p \in Reading \cup Writing, Goto(h, p)
    PROVE  /\ JobsType' /\ ~Idle(h)' /\ Others(h)
           /\ jobs'[h].pc = p /\ jobs'[h].for = jobs[h].for
           /\ jobs'[h].next = jobs[h].next /\ jobs'[h].copy = NotLoaded
  <1> DEFINE j == [jobs[h] EXCEPT !.pc = p, !.copy = NotLoaded]
  <1>1. jobs[h] \in Job
    BY JobFields
  <1>2. j \in Job
    BY <1>1 DEF Job
  <1>3. jobs' = [jobs EXCEPT ![h] = j]
    BY DEF Goto, JobsType
  <1>4. JobsType' /\ jobs'[h] = j /\ Others(h)
    BY <1>2, <1>3, Assign
  <1>5. j.pc = p /\ j.for = jobs[h].for /\ j.next = jobs[h].next /\ j.copy = NotLoaded
    BY <1>1 DEF Job
  <1> QED
    BY <1>2, <1>4, <1>5, DistinctAssumption DEF Idle

\* attempts::decide raises the count by one, or finds it at the cap.
LEMMA DecideFacts ==
    ASSUME TypeOK
    PROVE  LET d == Decide(fields.attempts) IN
           \/ /\ d.pc = "log" /\ d.next = fields.attempts + 1 /\ d.next <= cap
              /\ d.next \in 0..MaxAttempts
           \/ /\ d.pc = "block" /\ d.next = fields.attempts /\ d.next = cap
              /\ d.next \in 0..MaxAttempts
  <1> fields.attempts \in Nat /\ fields.attempts <= cap /\ cap \in Nat /\ cap <= MaxAttempts
    BY BoundsAssumption DEF TypeOK, Fields
  <1> QED
    BY BoundsAssumption DEF Decide

LEMMA Decides ==
    ASSUME TypeOK, JobsType, NEW h \in Handlers, ReadAndDecide(h)
    PROVE  /\ JobsType' /\ ~Idle(h) /\ ~Idle(h)' /\ Others(h)
           /\ jobs'[h].for = jobs[h].for /\ jobs'[h].copy = jobs[h].copy
           /\ \/ /\ jobs'[h].pc = "log" /\ jobs'[h].next = fields.attempts + 1
                 /\ jobs'[h].next <= cap
              \/ /\ jobs'[h].pc = "block" /\ jobs'[h].next = fields.attempts
                 /\ jobs'[h].next = cap
  <1> DEFINE d == Decide(fields.attempts)
             j == [jobs[h] EXCEPT !.pc = d.pc, !.next = d.next]
  <1>1. ~Idle(h) /\ jobs[h] \in Job
    BY JobFields DEF ReadAndDecide, At
  <1>2. d.pc \in Writing /\ d.next \in 0..MaxAttempts
    BY DecideFacts DEF Writing
  <1>3. jobs' = [jobs EXCEPT ![h] = j]
    BY DEF ReadAndDecide, JobsType
  <1> HIDE DEF d
  <1>4. j \in Job
    BY <1>1, <1>2 DEF Job
  <1>5. JobsType' /\ jobs'[h] = j /\ Others(h)
    BY <1>3, <1>4, Assign
  <1>6. j.pc = d.pc /\ j.for = jobs[h].for /\ j.next = d.next /\ j.copy = jobs[h].copy
    BY <1>1 DEF Job
  <1> QED
    BY <1>1, <1>4, <1>5, <1>6, DecideFacts, DistinctAssumption DEF Idle, d

LEMMA Loads ==
    ASSUME TypeOK, JobsType, NEW h \in Handlers, LoadComment(h)
    PROVE  /\ JobsType' /\ ~Idle(h) /\ ~Idle(h)' /\ Others(h)
           /\ jobs'[h].pc = jobs[h].pc /\ jobs'[h].for = jobs[h].for
           /\ jobs'[h].next = jobs[h].next
           /\ jobs'[h].copy = IF comment THEN fields ELSE Absent
  <1> DEFINE c == IF comment THEN fields ELSE Absent
             j == [jobs[h] EXCEPT !.copy = c]
  <1>1. ~Idle(h) /\ jobs[h] \in Job
    BY JobFields DEF LoadComment
  <1>2. c \in Fields \cup {NotLoaded, Absent}
    BY DEF TypeOK
  <1>3. jobs' = [jobs EXCEPT ![h] = j]
    BY DEF LoadComment, JobsType
  <1> HIDE DEF c
  <1>4. j \in Job
    BY <1>1, <1>2 DEF Job
  <1>5. JobsType' /\ jobs'[h] = j /\ Others(h)
    BY <1>3, <1>4, Assign
  <1>6. j.pc = jobs[h].pc /\ j.for = jobs[h].for /\ j.next = jobs[h].next /\ j.copy = c
    BY <1>1 DEF Job
  <1> QED
    BY <1>1, <1>4, <1>5, <1>6, DistinctAssumption DEF Idle, c

\* Writing one field changes that field only.
LEMMA WrittenFacts ==
    ASSUME NEW e \in Fields, NEW j \in Job
    PROVE  /\ Written(e, j) \in Fields
           /\ Written(e, j).attempts = IF j.pc = "attempts" THEN j.next ELSE e.attempts
           /\ Written(e, j).log = (j.pc = "log" \/ e.log)
           /\ Written(e, j).category = (j.pc = "category" \/ e.category)
  <1> e.attempts \in 0..MaxAttempts /\ e.log \in BOOLEAN /\ e.category \in BOOLEAN
      /\ j.next \in 0..MaxAttempts
    BY DEF Fields, Job
  <1>1. CASE j.pc = "attempts"
    BY <1>1 DEF Written, Fields
  <1>2. CASE j.pc = "log"
    BY <1>2 DEF Written, Fields
  <1>3. CASE j.pc = "category"
    BY <1>3 DEF Written, Fields
  <1>4. CASE j.pc \notin {"attempts", "log", "category"}
    BY <1>4 DEF Written, Fields
  <1> QED
    BY <1>1, <1>2, <1>3, <1>4


LEMMA Proceeds ==
    ASSUME JobsType, NEW h \in Handlers, ~Idle(h), jobs[h].pc \in FieldSteps, Proceed(h)
    PROVE  /\ JobsType' /\ Others(h)
           /\ \/ Idle(h)'
              \/ /\ ~Idle(h)' /\ jobs'[h].for = jobs[h].for
                 /\ jobs'[h].next = jobs[h].next /\ jobs'[h].copy = NotLoaded
                 /\ jobs'[h].pc = After(jobs[h])
  <1>1. After(jobs[h]) \in Writing
    BY DEF After, FieldSteps, Writing
  <1>2. CASE Stop(h)
    BY <1>2, Stops
  <1>3. CASE Goto(h, After(jobs[h]))
    BY <1>1, <1>3, Goes
  <1> QED
    BY <1>2, <1>3 DEF Proceed

(***************************************************************************)
(* Who holds which delivery, and what it counted.                          *)
(***************************************************************************)
\* A step of task h that ends its job, goes on with it, or starts a flush.
Onward(h) ==
    /\ JobsType' /\ Others(h)
    /\ \/ Idle(h)'
       \/ ~Idle(h)' /\ jobs'[h].for \in {Session, Debounce} /\ jobs'[h].pc \notin Reading
       \/ /\ ~Idle(h) /\ ~Idle(h)' /\ jobs'[h].for = jobs[h].for
          /\ jobs'[h].pc \in Reading => jobs[h].pc \in Reading

LEMMA HolderKeeps ==
    ASSUME JobsType, OneHolder, NEW h \in Handlers, Onward(h), UNCHANGED recorded
    PROVE  OneHolder'
  <1>1. ASSUME NEW g \in Handlers, ~Idle(g)'
        PROVE  \/ jobs'[g].for \notin Deliveries
               \/ ~Idle(g) /\ jobs'[g].for = jobs[g].for
    BY <1>1, DistinctAssumption DEF Onward, Others, Idle
  <1> QED
    BY <1>1 DEF OneHolder, Holds

LEMMA CountedFinite ==
    ASSUME TypeOK
    PROVE  IsFiniteSet(Counted) /\ IsFiniteSet(recorded)
           /\ Cardinality(Counted) \in Nat /\ Cardinality(Counted) <= Cardinality(recorded)
  <1>1. IsFiniteSet(Deliveries)
    <2>1. IsFiniteSet(1..MaxRuns)
      BY FS_Interval, BoundsAssumption
    <2> QED
      BY <2>1, FS_Product, BoundsAssumption DEF Deliveries
  <1>2. recorded \subseteq Deliveries /\ Counted \subseteq recorded
    BY DEF TypeOK, Counted
  <1>3. IsFiniteSet(recorded)
    BY <1>1, <1>2, FS_Subset
  <1> QED
    BY <1>2, <1>3, FS_Subset, FS_CardinalityType

LEMMA CountedKeeps ==
    ASSUME TypeOK, TypeOK', NEW h \in Handlers, Onward(h), UNCHANGED recorded
    PROVE  /\ Counted \subseteq Counted'
           /\ Cardinality(Counted) <= Cardinality(Counted')
  <1>1. ASSUME NEW g \in Handlers, ~Idle(g)', jobs'[g].pc \in Reading
        PROVE  ~Idle(g) /\ jobs[g].pc \in Reading /\ jobs'[g].for = jobs[g].for
    BY <1>1 DEF Onward, Others, Idle
  <1>2. Counted \subseteq Counted'
    BY <1>1 DEF Counted
  <1>3. IsFiniteSet(Counted')
    <2>1. IsFiniteSet(recorded)
      BY CountedFinite
    <2> QED
      BY <2>1, FS_Subset DEF Counted
  <1> QED
    BY <1>2, <1>3, FS_Subset

LEMMA EarnedKeeps ==
    ASSUME TypeOK, TypeOK', Earned, NEW h \in Handlers, Onward(h), UNCHANGED recorded,
           fields'.attempts <= Cardinality(Counted),
           ~Idle(h)' =>
             /\ \/ ~Idle(h) /\ jobs'[h].next = jobs[h].next
                \/ jobs'[h].next <= Cardinality(Counted')
             /\ \/ ~Idle(h) /\ jobs'[h].copy = jobs[h].copy
                \/ jobs'[h].copy \in {NotLoaded, Absent, fields}
    PROVE  Earned'
  <1>1. /\ Cardinality(Counted) <= Cardinality(Counted')
        /\ Cardinality(Counted) \in Nat /\ Cardinality(Counted') \in Nat
    <2>1. IsFiniteSet(recorded)
      BY CountedFinite
    <2>2. IsFiniteSet(Counted')
      BY <2>1, FS_Subset DEF Counted
    <2> QED
      BY <2>2, CountedFinite, CountedKeeps, FS_CardinalityType
  <1>2. fields.attempts \in Nat /\ fields'.attempts \in Nat
    BY BoundsAssumption DEF TypeOK, Fields
  <1>3. fields'.attempts <= Cardinality(Counted')
    BY <1>1, <1>2
  <1>4. ASSUME NEW g \in Handlers, ~Idle(g)
        PROVE  /\ jobs[g].next <= Cardinality(Counted')
               /\ jobs[g].copy \in Fields => jobs[g].copy.attempts <= Cardinality(Counted')
    <2>1. jobs[g].next \in Nat
      BY <1>4, JobFields, BoundsAssumption DEF TypeOK, JobsType
    <2>2. jobs[g].copy \in Fields => jobs[g].copy.attempts \in Nat
      BY BoundsAssumption DEF Fields
    <2> QED
      BY <1>1, <1>4, <2>1, <2>2 DEF Earned
  <1>5. fields.attempts <= Cardinality(Counted')
    BY <1>1, <1>2 DEF Earned
  <1>6. ASSUME NEW g \in Handlers, ~Idle(g)'
        PROVE  /\ jobs'[g].next <= Cardinality(Counted')
               /\ jobs'[g].copy \in Fields => jobs'[g].copy.attempts <= Cardinality(Counted')
    <2>1. CASE g # h
      BY <1>4, <1>6, <2>1 DEF Onward, Others, Idle
    <2>2. CASE g = h
      BY <1>4, <1>5, <1>6, <2>2, DistinctAssumption
    <2> QED
      BY <2>1, <2>2
  <1> QED
    BY <1>3, <1>6 DEF Earned

(***************************************************************************)
(* Writers that are alone.                                                 *)
(***************************************************************************)
\* A step of task h after which, if no writers have overlapped, it is not
\* writing, or was the writer already, or is the only one now.
Takes(h) ==
    /\ Others(h)
    /\ overlapped => overlapped'
    /\ ~overlapped' /\ h \in Busy' => h \in Busy \/ Busy \subseteq {h}

LEMMA BusyOthers ==
    ASSUME NEW h \in Handlers, Others(h)
    PROVE  \A g \in Handlers \ {h} : (g \in Busy') <=> (g \in Busy)
  BY DEF Others, Busy, Idle

LEMMA AloneKeeps ==
    ASSUME Alone, NEW h \in Handlers, Takes(h),
           UNCHANGED <<fields, comment>> \/ h \in Busy,
           ~overlapped' /\ h \in Busy' =>
             /\ jobs'[h].copy \in Fields => jobs'[h].copy = fields'
             /\ jobs'[h].copy = Absent => ~comment'
    PROVE  Alone'
  <1> SUFFICES ASSUME ~overlapped'
               PROVE  /\ \A f, g \in Handlers : f \in Busy' /\ g \in Busy' => f = g
                      /\ \A g \in Busy' :
                           /\ jobs'[g].copy \in Fields => jobs'[g].copy = fields'
                           /\ jobs'[g].copy = Absent => ~comment'
    BY DEF Alone
  <1>1. ~overlapped
    BY DEF Takes
  <1>2. \A f, g \in Handlers : f \in Busy /\ g \in Busy => f = g
    BY <1>1 DEF Alone
  <1>3. \A g \in Handlers \ {h} : (g \in Busy') <=> (g \in Busy)
    BY BusyOthers DEF Takes
  <1>4. h \in Busy' => h \in Busy \/ Busy \subseteq {h}
    BY DEF Takes
  <1>5. \A f, g \in Handlers : f \in Busy' /\ g \in Busy' => f = g
    BY <1>2, <1>3, <1>4
  <1>6. ASSUME NEW g \in Busy'
        PROVE  /\ jobs'[g].copy \in Fields => jobs'[g].copy = fields'
               /\ jobs'[g].copy = Absent => ~comment'
    <2>1. g \in Handlers
      BY DEF Busy
    <2>2. CASE g = h
      BY <2>2
    <2>3. CASE g # h
      <3>1. g \in Busy /\ jobs'[g] = jobs[g]
        BY <1>3, <2>1, <2>3 DEF Takes, Others
      <3>2. UNCHANGED <<fields, comment>>
        BY <1>2, <2>1, <2>3, <3>1
      <3> QED
        BY <1>1, <3>1, <3>2 DEF Alone
    <2> QED
      BY <2>2, <2>3
  <1> QED
    BY <1>5, <1>6

\* What task h, if it is writing, has done of the order of its writes.
Ordered(h) ==
    /\ jobs[h].pc \in {"category", "attempts", "bounce"} => fields.log
    /\ jobs[h].pc \in {"attempts", "bounce"} => fields.category

LEMMA ContextKeeps ==
    ASSUME Context, Alone, NEW h \in Handlers, Takes(h), UNCHANGED marker,
           fields.log => fields'.log \/ (h \in Busy /\ marker),
           fields.category => fields'.category \/ (h \in Busy /\ marker),
           ~(marker /\ overlapped) /\ h \in Busy' => Ordered(h)',
           ticket' = "fixes" /\ ~(marker /\ overlapped) => fields'.log /\ fields'.category
    PROVE  Context'
  <1> SUFFICES ASSUME ~(marker /\ overlapped')
               PROVE  \A g \in Busy' : Ordered(g)'
    BY DEF Context, Ordered, Takes
  <1>1. ~(marker /\ overlapped)
    BY DEF Takes
  <1> SUFFICES ASSUME NEW g \in Busy' PROVE Ordered(g)'
    OBVIOUS
  <1>2. g \in Handlers
    BY DEF Busy
  <1>3. CASE g = h
    BY <1>1, <1>3
  <1>4. CASE g # h
    <2>1. g \in Busy /\ jobs'[g] = jobs[g]
      BY <1>2, <1>4, BusyOthers DEF Takes, Others
    <2>2. ~(h \in Busy /\ marker)
      BY <1>1, <1>2, <1>4, <2>1 DEF Alone
    <2>3. Ordered(g)
      BY <1>1, <2>1 DEF Context, Ordered
    <2> QED
      BY <2>1, <2>2, <2>3 DEF Ordered
  <1> QED
    BY <1>3, <1>4

\* What the count is to task h, if it is writing.
Fits(h) ==
    /\ jobs[h].pc \in {"log", "category", "attempts"} => jobs[h].next = fields.attempts + 1
    /\ jobs[h].pc = "bounce" => bounces < fields.attempts /\ ticket # "blocked"
    /\ jobs[h].pc = "block" => fields.attempts = cap

LEMMA GuardedKeeps ==
    ASSUME Guarded, Alone, NEW h \in Handlers, Takes(h),
           UNCHANGED <<cap, bounces>> \/ h \in Busy,
           fields'.attempts = fields.attempts \/ h \in Busy,
           ticket' # "blocked" \/ ticket = "blocked" \/ h \in Busy,
           ~overlapped' =>
             /\ bounces' <= fields'.attempts
             /\ ticket' = "blocked" => fields'.attempts = cap'
             /\ h \in Busy' => Fits(h)'
    PROVE  Guarded'
  <1> SUFFICES ASSUME ~overlapped', NEW g \in Busy' PROVE Fits(g)'
    BY DEF Guarded, Fits
  <1>1. ~overlapped /\ g \in Handlers
    BY DEF Takes, Busy
  <1>2. CASE g = h
    BY <1>2
  <1>3. CASE g # h
    <2>1. g \in Busy /\ jobs'[g] = jobs[g]
      BY <1>1, <1>3, BusyOthers DEF Takes, Others
    <2>2. h \notin Busy
      BY <1>1, <1>3, <2>1 DEF Alone
    <2>3. Fits(g)
      BY <1>1, <2>1 DEF Guarded, Fits
    <2> QED
      BY <2>1, <2>2, <2>3 DEF Fits
  <1> QED
    BY <1>2, <1>3

(***************************************************************************)
(* The steps of a task.                                                    *)
(***************************************************************************)
\* A task that does not write a field keeps the invariant if its own share does.
LEMMA StepKeeps ==
    ASSUME Inv, TypeOK', NEW h \in Handlers, Onward(h), Takes(h), JobOK(h)',
           UNCHANGED <<marker, cap, recorded, fields, comment>>,
           bounces' = bounces \/ h \in Busy,
           ticket' # "blocked" \/ ticket = "blocked" \/ h \in Busy,
           ticket' = "fixes" /\ ~(marker /\ overlapped) => fields.log /\ fields.category,
           ~Idle(h)' =>
             /\ \/ ~Idle(h) /\ jobs'[h].next = jobs[h].next
                \/ jobs'[h].next <= Cardinality(Counted')
             /\ \/ ~Idle(h) /\ jobs'[h].copy = jobs[h].copy
                \/ jobs'[h].copy \in {NotLoaded, Absent, fields},
           ~(marker /\ overlapped) /\ h \in Busy' => Ordered(h)',
           ~overlapped' =>
             /\ bounces' <= fields.attempts
             /\ ticket' = "blocked" => fields.attempts = cap
             /\ h \in Busy' =>
                  /\ Fits(h)'
                  /\ jobs'[h].copy \in Fields => jobs'[h].copy = fields
                  /\ jobs'[h].copy = Absent => ~comment
    PROVE  Inv'
  <1>0. JobsType /\ TypeOK
    BY DEF Inv, TypeOK, JobsType
  <1>1. Jobs'
    BY DEF Inv, Jobs, JobOK, Onward, Others, Idle
  <1>2. OneHolder'
    BY <1>0, HolderKeeps DEF Inv
  <1>3. fields'.attempts <= Cardinality(Counted)
    BY DEF Inv, Earned
  <1>4. Earned'
    BY <1>0, <1>3, EarnedKeeps DEF Inv
  <1>5. Alone'
    BY AloneKeeps DEF Inv
  <1>6. Uncommented'
    BY DEF Inv, Uncommented
  <1>7. Context'
    <2>1. UNCHANGED marker /\ fields' = fields
      OBVIOUS
    <2>2. /\ fields.log => fields'.log
          /\ fields.category => fields'.category
      BY <2>1
    <2>3. ticket' = "fixes" /\ ~(marker /\ overlapped) => fields'.log /\ fields'.category
      BY <2>1
    <2>4. Context /\ Alone
      BY DEF Inv
    <2> QED
      BY <2>1, <2>2, <2>3, <2>4, ContextKeeps
  <1>8. Guarded'
    BY GuardedKeeps DEF Inv
  <1> QED
    BY <1>1, <1>2, <1>4, <1>5, <1>6, <1>7, <1>8 DEF Inv

\* A task that ends its job.
LEMMA EndKeeps ==
    ASSUME Inv, NEW h \in Handlers, ~Idle(h), Stop(h),
           UNCHANGED <<marker, cap, recorded, fields, comment, runs, linked, overlapped>>,
           mail' \subseteq mail, bounces' \in Nat, ticket' \in Tickets,
           bounces' = bounces \/ h \in Busy,
           ticket' # "blocked" \/ ticket = "blocked" \/ h \in Busy,
           ticket' = "fixes" /\ ~(marker /\ overlapped) => fields.log /\ fields.category,
           ~overlapped => /\ bounces' <= fields.attempts
                          /\ ticket' = "blocked" => fields.attempts = cap
    PROVE  Inv'
  <1>0. JobsType
    BY DEF Inv, TypeOK, JobsType
  <1>1. JobsType' /\ Idle(h)' /\ Others(h)
    BY <1>0, Stops
  <1>2. TypeOK'
    BY <1>1 DEF Inv, TypeOK, JobsType
  <1>3. Onward(h) /\ Takes(h) /\ JobOK(h)' /\ h \notin Busy'
    BY <1>1 DEF Onward, Takes, JobOK, Busy
  <1> QED
    BY <1>1, <1>2, <1>3, StepKeeps

\* What a handler in step p is, and what it leaves when it answers.
LEMMA AtFacts ==
    ASSUME Inv, NEW h \in Handlers, NEW p, At(h, p)
    PROVE  /\ ~Idle(h) /\ jobs[h].pc = p /\ JobsType /\ jobs[h] \in Job
           /\ p \in Writing => h \in Busy
  BY JobFields DEF Inv, TypeOK, JobsType, At, Busy

LEMMA EndsKeep ==
    ASSUME Inv, NEW h \in Handlers,
           Unmapped(h) \/ Label(h) \/ Bounce(h) \/ Block(h) \/ Exceed(h) \/ CiFails(h)
    PROVE  Inv'
  <1> USE DEF config, github, history, ticketVars, inbox, Tickets, Active
  <1>0. bounces \in Nat /\ fields.attempts \in Nat /\ ticket \in Tickets
    BY BoundsAssumption DEF Inv, TypeOK, Fields
  <1>1. /\ ~(marker /\ overlapped) /\ ticket = "fixes" => fields.log /\ fields.category
        /\ ~overlapped => /\ bounces <= fields.attempts
                          /\ ticket = "blocked" => fields.attempts = cap
    BY DEF Inv, Context, Guarded
  <1>2. CASE Unmapped(h)
    BY <1>0, <1>1, <1>2, EndKeeps DEF Unmapped, Answer, At
  <1>3. CASE Label(h)
    BY <1>0, <1>1, <1>3, EndKeeps DEF Label, Answer, At
  <1>4. CASE CiFails(h)
    BY <1>0, <1>1, <1>4, EndKeeps DEF CiFails
  <1>5. CASE Exceed(h)
    BY <1>0, <1>1, <1>5, EndKeeps DEF Exceed, At
  <1>6. CASE Bounce(h)
    <2>1. ~Idle(h) /\ jobs[h].pc = "bounce" /\ h \in Busy
      BY <1>6, AtFacts DEF Bounce, Writing
    <2>2. ~(marker /\ overlapped) => fields.log /\ fields.category
      BY <2>1 DEF Inv, Context
    <2>3. ~overlapped => bounces < fields.attempts
      BY <2>1 DEF Inv, Guarded
    <2>4. bounces' \in Nat /\ (~overlapped => bounces' <= fields.attempts)
      BY <1>0, <1>6, <2>3 DEF Bounce
    <2> QED
      BY <1>6, <2>1, <2>2, <2>4, EndKeeps DEF Bounce, Answer
  <1>7. CASE Block(h)
    <2>1. ~Idle(h) /\ jobs[h].pc = "block" /\ h \in Busy
      BY <1>7, AtFacts DEF Block, Writing
    <2>2. ~overlapped => fields.attempts = cap
      BY <2>1 DEF Inv, Guarded
    <2> QED
      BY <1>0, <1>1, <1>7, <2>1, <2>2, EndKeeps DEF Block, Answer
  <1> QED
    BY <1>2, <1>3, <1>4, <1>5, <1>6, <1>7

\* A job of a step that only CI handlers take is about a delivery.
LEMMA CiJobs ==
    ASSUME Inv, NEW h \in Handlers, ~Idle(h), jobs[h].pc \notin {"tokens", "cost", "exceed"}
    PROVE  jobs[h].for \in Deliveries
  BY JobFields DEF Inv, TypeOK, JobsType, Jobs, JobOK

LEMMA SeqAt ==
    ASSUME NEW S, NEW s \in Seq(S), NEW k \in DOMAIN s
    PROVE  s[k] \in S
  BY ElementOfSeq, LenProperties

LEMMA ReadKeeps ==
    ASSUME Inv, NEW h \in Handlers, ReadSummary(h)
    PROVE  Inv'
  <1> USE DEF config, github, history, ticketVars, inbox
  <1>0. ~Idle(h) /\ jobs[h].pc = "summary" /\ JobsType
    BY AtFacts DEF ReadSummary
  <1>1. PICK k \in DOMAIN runs :
          IF runs[k].result = "pending" THEN Answer(h)
          ELSE Goto(h, runs[k].result) /\ UNCHANGED inbox
    BY DEF ReadSummary
  <1>2. /\ ~(marker /\ overlapped) /\ ticket = "fixes" => fields.log /\ fields.category
        /\ ~overlapped => /\ bounces <= fields.attempts
                          /\ ticket = "blocked" => fields.attempts = cap
    BY DEF Inv, Context, Guarded
  <1>3. CASE Answer(h)
    <2>1. bounces \in Nat /\ ticket \in Tickets
      BY DEF Inv, TypeOK
    <2> QED
      BY <1>0, <1>2, <1>3, <2>1, EndKeeps DEF ReadSummary, Answer
  <1>4. CASE runs[k].result # "pending" /\ Goto(h, runs[k].result) /\ UNCHANGED inbox
    <2>1. runs[k].result \in {"green", "red"}
      <3>1. runs \in Seq([head: 1..MaxRuns, result: {"pending", "green", "red"}])
        BY DEF Inv, TypeOK
      <3>2. runs[k] \in [head: 1..MaxRuns, result: {"pending", "green", "red"}]
        BY <1>1, <3>1, SeqAt
      <3> QED
        BY <1>4, <3>2
    <2>2. /\ JobsType' /\ ~Idle(h)' /\ Others(h)
          /\ jobs'[h].pc = runs[k].result /\ jobs'[h].for = jobs[h].for
          /\ jobs'[h].next = jobs[h].next /\ jobs'[h].copy = NotLoaded
      BY <1>0, <1>4, <2>1, Goes DEF Reading
    <2>3. TypeOK'
      BY <1>4, <2>2 DEF Inv, TypeOK, JobsType, ReadSummary
    <2>4. Onward(h) /\ Takes(h) /\ h \notin Busy'
      BY <1>0, <2>1, <2>2 DEF Onward, Takes, Reading, Writing, Busy, ReadSummary
    <2>5. JobOK(h)'
      BY <1>0, <2>1, <2>2, CiJobs, DistinctAssumption
      DEF Inv, Jobs, JobOK, CiSteps, Reading, ReadSummary
    <2> QED
      BY <1>0, <1>2, <1>4, <2>2, <2>3, <2>4, <2>5, StepKeeps DEF ReadSummary
  <1> QED
    BY <1>1, <1>3, <1>4

LEMMA GreensKeep ==
    ASSUME Inv, NEW h \in Handlers, Greens(h) \/ Promote(h)
    PROVE  Inv'
  <1> USE DEF config, github, history, ticketVars, inbox
  <1>0. ~Idle(h) /\ jobs[h].pc \in {"green", "promote"} /\ JobsType
    BY AtFacts DEF Greens, Promote
  <1>1. PICK p \in {"promote", "labels"} : Goto(h, p)
    BY DEF Greens, Promote
  <1>2. /\ ~(marker /\ overlapped) /\ ticket = "fixes" => fields.log /\ fields.category
        /\ ~overlapped => /\ bounces <= fields.attempts
                          /\ ticket = "blocked" => fields.attempts = cap
    BY DEF Inv, Context, Guarded
  <1>3. /\ JobsType' /\ ~Idle(h)' /\ Others(h)
        /\ jobs'[h].pc = p /\ jobs'[h].for = jobs[h].for
        /\ jobs'[h].next = jobs[h].next /\ jobs'[h].copy = NotLoaded
    BY <1>0, <1>1, Goes DEF Writing
  <1>4. TypeOK'
    BY <1>3 DEF Inv, TypeOK, JobsType, Greens, Promote, NoteOverlap, Tickets
  <1>5. Onward(h)
    BY <1>0, <1>3 DEF Onward, Reading
  <1>6. Takes(h) /\ (overlapped => overlapped')
    <2>1. CASE Greens(h)
      BY <1>3, <2>1 DEF Takes, NoteOverlap, Greens
    <2>2. CASE Promote(h)
      <3>1. h \in Busy
        BY <2>2, AtFacts DEF Promote, Writing
      <3> QED
        BY <1>3, <2>2, <3>1 DEF Takes, Promote
    <2> QED
      BY <2>1, <2>2
  <1>7. JobOK(h)'
    BY <1>0, <1>3, CiJobs, DistinctAssumption
    DEF Inv, Jobs, JobOK, CiSteps, Greens, Promote
  <1>8. Ordered(h)' /\ Fits(h)'
    BY <1>3 DEF Ordered, Fits
  <1>9. UNCHANGED <<marker, cap, recorded, fields, comment, bounces>> /\ ticket' \in {ticket, "review"}
    BY DEF Greens, Promote
  <1> QED
    BY <1>0, <1>2, <1>3, <1>4, <1>5, <1>6, <1>7, <1>8, <1>9, StepKeeps, DistinctAssumption

LEMMA CountsOne ==
    ASSUME Inv, TypeOK', NEW h \in Handlers, Onward(h), UNCHANGED recorded,
           ~Idle(h), jobs[h].pc \in Reading, ~Idle(h)', jobs'[h].pc \notin Reading
    PROVE  Cardinality(Counted') >= Cardinality(Counted) + 1
  <1> DEFINE d == jobs[h].for
  <1>1. d \in Deliveries
    BY CiJobs DEF Reading
  <1>2. d \in recorded /\ d \notin Counted
    BY <1>1 DEF Inv, OneHolder, Counted
  <1>3. \A g \in Handlers : ~Idle(g)' /\ jobs'[g].pc \in Reading => jobs'[g].for # d
    BY <1>1 DEF Inv, OneHolder, Holds, Onward, Others, Idle
  <1>4. d \in Counted'
    BY <1>2, <1>3 DEF Counted
  <1>5. Counted \cup {d} \subseteq Counted'
    BY <1>4, CountedKeeps DEF Inv
  <1>6. IsFiniteSet(Counted) /\ IsFiniteSet(Counted')
    <2>1. IsFiniteSet(recorded) /\ IsFiniteSet(Counted)
      BY CountedFinite DEF Inv
    <2> QED
      BY <2>1, FS_Subset DEF Counted
  <1>7. Cardinality(Counted \cup {d}) = Cardinality(Counted) + 1
    BY <1>2, <1>6, FS_AddElement
  <1>8. Cardinality(Counted \cup {d}) <= Cardinality(Counted')
    BY <1>5, <1>6, FS_Subset
  <1> QED
    BY <1>6, <1>7, <1>8, FS_CardinalityType

LEMMA DecideKeeps ==
    ASSUME Inv, NEW h \in Handlers, ReadAndDecide(h)
    PROVE  Inv'
  <1> USE DEF config, github, history, ticketVars, inbox
  <1>0. ~Idle(h) /\ jobs[h].pc = "red" /\ JobsType /\ TypeOK
    BY AtFacts DEF ReadAndDecide, Inv
  <1>1. /\ JobsType' /\ ~Idle(h)' /\ Others(h)
        /\ jobs'[h].for = jobs[h].for /\ jobs'[h].copy = jobs[h].copy
        /\ \/ /\ jobs'[h].pc = "log" /\ jobs'[h].next = fields.attempts + 1
              /\ jobs'[h].next <= cap
           \/ /\ jobs'[h].pc = "block" /\ jobs'[h].next = fields.attempts
              /\ jobs'[h].next = cap
    BY <1>0, Decides
  <1>2. /\ ~(marker /\ overlapped) /\ ticket = "fixes" => fields.log /\ fields.category
        /\ ~overlapped => /\ bounces <= fields.attempts
                          /\ ticket = "blocked" => fields.attempts = cap
    BY DEF Inv, Context, Guarded
  <1>3. TypeOK'
    BY <1>1 DEF Inv, TypeOK, JobsType, ReadAndDecide, NoteOverlap
  <1>4. /\ UNCHANGED <<marker, cap, recorded, fields, comment, bounces, ticket>>
        /\ overlapped => overlapped'
    BY DEF ReadAndDecide, NoteOverlap
  <1>5. Onward(h)
    BY <1>0, <1>1 DEF Onward, Reading
  <1>6. Takes(h)
    BY <1>0, <1>1 DEF Takes, NoteOverlap, ReadAndDecide
  <1>7. jobs[h].copy = NotLoaded
    BY <1>0 DEF Inv, Jobs, JobOK, FieldSteps
  <1>8. JobOK(h)'
    <2>1. fields.attempts \in Nat /\ cap \in Nat
      BY BoundsAssumption DEF Inv, TypeOK, Fields
    <2> QED
      BY <1>0, <1>1, <1>4, <1>7, <2>1, CiJobs, DistinctAssumption
      DEF JobOK, CiSteps
  <1>9. jobs'[h].next <= Cardinality(Counted')
    <2>1. Cardinality(Counted') >= Cardinality(Counted) + 1
      BY <1>0, <1>1, <1>3, <1>4, <1>5, CountsOne DEF Reading
    <2>2. fields.attempts <= Cardinality(Counted) /\ fields.attempts \in Nat
      BY BoundsAssumption DEF Inv, Earned, TypeOK, Fields
    <2>3. Cardinality(Counted) \in Nat /\ Cardinality(Counted') \in Nat
      BY <1>0, <1>3, <1>4, CountedFinite, FS_Subset, FS_CardinalityType DEF Counted
    <2> QED
      BY <1>1, <2>1, <2>2, <2>3
  <1>10. Ordered(h)' /\ Fits(h)'
    BY <1>1, <1>4 DEF Ordered, Fits
  <1> QED
    BY <1>1, <1>2, <1>3, <1>4, <1>5, <1>6, <1>7, <1>8, <1>9, <1>10, StepKeeps, DistinctAssumption

\* A task that starts: a delivery was received, or a flush begins.
LEMMA FlushStarts ==
    ASSUME Inv, NEW h \in Handlers, SessionCrossesCap(h) \/ FlushDue(h)
    PROVE  Inv'
  <1> USE DEF config, github, history, ticketVars, inbox
  <1>0. Idle(h) /\ JobsType /\ TypeOK
    BY DEF SessionCrossesCap, FlushDue, Inv, TypeOK, JobsType
  <1>1. PICK what \in {Session, Debounce} : jobs' = [jobs EXCEPT ![h] = NewJob(what, "tokens")]
    BY DEF SessionCrossesCap, FlushDue
  <1>2. /\ ~(marker /\ overlapped) /\ ticket = "fixes" => fields.log /\ fields.category
        /\ ~overlapped => /\ bounces <= fields.attempts
                          /\ ticket = "blocked" => fields.attempts = cap
    BY DEF Inv, Context, Guarded
  <1>3. /\ JobsType' /\ ~Idle(h)' /\ Others(h)
        /\ jobs'[h].pc = "tokens" /\ jobs'[h].for = what
        /\ jobs'[h].next = 0 /\ jobs'[h].copy = NotLoaded
    BY <1>0, <1>1, Starts DEF Writing
  <1>4. /\ UNCHANGED <<marker, cap, recorded, fields, comment, bounces, ticket>>
        /\ NoteOverlap(h)
    BY DEF SessionCrossesCap, FlushDue
  <1>5. TypeOK'
    BY <1>3 DEF Inv, TypeOK, JobsType, SessionCrossesCap, FlushDue, NoteOverlap
  <1>6. Onward(h)
    BY <1>3 DEF Onward, Reading
  <1>7. Takes(h)
    BY <1>3, <1>4 DEF Takes, NoteOverlap
  <1>8. JobOK(h)'
    BY <1>3, <1>4, <1>5, DistinctAssumption DEF JobOK, TypeOK
  <1>9. jobs'[h].next <= Cardinality(Counted')
    <2>1. Cardinality(Counted') \in Nat
      BY <1>0, <1>4, CountedFinite, FS_Subset, FS_CardinalityType DEF Counted
    <2> QED
      BY <1>3, <2>1
  <1>10. Ordered(h)' /\ Fits(h)'
    BY <1>3 DEF Ordered, Fits
  <1>11. overlapped => overlapped'
    BY <1>4 DEF NoteOverlap
  <1> QED
    BY <1>0, <1>2, <1>3, <1>4, <1>5, <1>6, <1>7, <1>8, <1>9, <1>10, <1>11,
       StepKeeps, DistinctAssumption

LEMMA FlushFailsKeeps ==
    ASSUME Inv, NEW h \in Handlers, FlushFails(h)
    PROVE  Inv'
  <1> USE DEF config, github, history, ticketVars, inbox
  <1>0. /\ ~Idle(h) /\ JobsType /\ jobs[h].for \in {Session, Debounce}
        /\ jobs[h].pc \in {"tokens", "cost", "exceed"}
    BY DEF FlushFails, Inv, TypeOK, JobsType, Jobs, JobOK
  <1>1. /\ ~(marker /\ overlapped) /\ ticket = "fixes" => fields.log /\ fields.category
        /\ ~overlapped => /\ bounces <= fields.attempts
                          /\ ticket = "blocked" => fields.attempts = cap
    BY DEF Inv, Context, Guarded
  <1>2. /\ UNCHANGED <<marker, cap, recorded, fields, comment, bounces, ticket, overlapped>>
        /\ UNCHANGED <<runs, linked, mail>>
    BY DEF FlushFails
  <1>3. CASE Stop(h)
    <2>1. bounces \in Nat /\ ticket \in Tickets
      BY DEF Inv, TypeOK
    <2> QED
      BY <1>0, <1>1, <1>2, <1>3, <2>1, EndKeeps
  <1>4. CASE Goto(h, "exceed")
    <2>1. /\ JobsType' /\ ~Idle(h)' /\ Others(h)
          /\ jobs'[h].pc = "exceed" /\ jobs'[h].for = jobs[h].for
          /\ jobs'[h].next = jobs[h].next /\ jobs'[h].copy = NotLoaded
      BY <1>0, <1>4, Goes DEF Writing
    <2>2. TypeOK'
      BY <1>2, <2>1 DEF Inv, TypeOK, JobsType
    <2>3. h \in Busy
      BY <1>0 DEF Busy, Writing
    <2>4. Onward(h) /\ Takes(h)
      BY <1>0, <1>2, <2>1, <2>3 DEF Onward, Takes, Reading
    <2>5. JobOK(h)'
      BY <1>0, <1>2, <2>1, DistinctAssumption DEF Inv, Jobs, JobOK
    <2>6. Ordered(h)' /\ Fits(h)'
      BY <2>1 DEF Ordered, Fits
    <2> QED
      BY <1>0, <1>1, <1>2, <2>1, <2>2, <2>3, <2>4, <2>5, <2>6, StepKeeps, DistinctAssumption
  <1> QED
    BY <1>3, <1>4 DEF FlushFails

LEMMA ReceiveKeeps ==
    ASSUME Inv, NEW h \in Handlers, NEW d \in mail, Receive(h, d)
    PROVE  Inv'
  <1> USE DEF config, github, history, ticketVars
  <1>0. JobsType /\ TypeOK /\ d \in Deliveries
    BY DEF Inv, TypeOK, JobsType
  <1>1. CASE d \in recorded
    <2>1. UNCHANGED <<recorded, jobs, marker, cap, fields, comment, bounces, ticket, overlapped>>
      BY <1>1 DEF Receive
    <2>2. TypeOK'
      BY <1>1, <2>1 DEF Inv, TypeOK, Receive
    <2> QED
      BY <2>1, <2>2 DEF Inv, Jobs, JobOK, Idle, OneHolder, Holds, Earned, Counted, Alone, Busy,
                        Uncommented, Context, Guarded
  <1>2. CASE d \notin recorded
    <2>1. /\ UNCHANGED <<marker, cap, fields, comment, bounces, ticket, overlapped>>
          /\ recorded' = recorded \cup {d} /\ Idle(h)
          /\ jobs' = [jobs EXCEPT ![h] = NewJob(d, "summary")]
      BY <1>2 DEF Receive
    <2>2. /\ JobsType' /\ ~Idle(h)' /\ Others(h)
          /\ jobs'[h].pc = "summary" /\ jobs'[h].for = d
          /\ jobs'[h].next = 0 /\ jobs'[h].copy = NotLoaded
      BY <1>0, <2>1, Starts DEF Reading
    <2>3. TypeOK'
      BY <1>0, <1>2, <2>2 DEF Inv, TypeOK, JobsType, Receive
    <2>4. Jobs'
      BY <1>0, <2>1, <2>2, <2>3, DistinctAssumption
      DEF Inv, TypeOK, Jobs, JobOK, Others, Idle, CiSteps, Reading
    <2>5. OneHolder'
      BY <1>2, <2>1, <2>2 DEF Inv, OneHolder, Holds, Others, Idle
    <2>6. Counted' = Counted
      BY <1>2, <2>1, <2>2 DEF Counted, Others, Idle, Reading
    <2>7. Earned'
      <3>1. Cardinality(Counted) \in Nat
        BY CountedFinite, <1>0
      <3> QED
        BY <2>1, <2>2, <2>6, <3>1, DistinctAssumption DEF Inv, Earned, Others, Idle
    <2>8. h \notin Busy' /\ Takes(h)
      BY <2>1, <2>2 DEF Takes, Busy, Writing
    <2>9. Alone' /\ Uncommented'
      BY <2>1, <2>8, AloneKeeps DEF Inv, Uncommented
    <2>10. Context'
      BY <2>1, <2>8, ContextKeeps DEF Inv, Context
    <2>11. Guarded'
      BY <2>1, <2>8, GuardedKeeps DEF Inv, Guarded
    <2> QED
      BY <2>3, <2>4, <2>5, <2>7, <2>9, <2>10, <2>11 DEF Inv
  <1> QED
    BY <1>1, <1>2

(***************************************************************************)
(* Writing a field.                                                        *)
(***************************************************************************)
LEMMA LoadKeeps ==
    ASSUME Inv, NEW h \in Handlers, LoadComment(h)
    PROVE  Inv'
  <1> USE DEF config, github, history, ticketVars, inbox
  <1>0. /\ ~Idle(h) /\ JobsType /\ TypeOK /\ h \in Busy
        /\ jobs[h].pc \in FieldSteps /\ jobs[h].copy = NotLoaded
    BY DEF LoadComment, Inv, TypeOK, JobsType, FieldSteps, Busy, Writing
  <1>1. /\ JobsType' /\ ~Idle(h)' /\ Others(h)
        /\ jobs'[h].pc = jobs[h].pc /\ jobs'[h].for = jobs[h].for
        /\ jobs'[h].next = jobs[h].next
        /\ jobs'[h].copy = IF comment THEN fields ELSE Absent
    BY <1>0, Loads
  <1>2. /\ ~(marker /\ overlapped) /\ ticket = "fixes" => fields.log /\ fields.category
        /\ ~overlapped => /\ bounces <= fields.attempts
                          /\ ticket = "blocked" => fields.attempts = cap
    BY DEF Inv, Context, Guarded
  <1>3. UNCHANGED <<marker, cap, recorded, fields, comment, bounces, ticket, overlapped>>
    BY DEF LoadComment
  <1>4. TypeOK'
    BY <1>1 DEF Inv, TypeOK, JobsType, LoadComment
  <1>5. Onward(h) /\ Takes(h)
    BY <1>0, <1>1, <1>3 DEF Onward, Takes
  <1>6. JobOK(h)'
    <2>1. fields.attempts <= cap /\ jobs[h].next <= cap /\ jobs[h].for \in Deliveries \cup {Session, Debounce}
      BY <1>0, JobFields DEF Inv, TypeOK, Jobs, JobOK
    <2> QED
      BY <1>0, <1>1, <1>3, <2>1, DistinctAssumption DEF Inv, Jobs, JobOK
  <1>7. ~(marker /\ overlapped) => Ordered(h)'
    BY <1>0, <1>1, <1>3 DEF Inv, Context, Ordered
  <1>8. ~overlapped => Fits(h)'
    BY <1>0, <1>1, <1>3 DEF Inv, Guarded, Fits
  <1>9. /\ jobs'[h].copy \in {Absent, fields}
        /\ jobs'[h].copy \in Fields => jobs'[h].copy = fields
        /\ jobs'[h].copy = Absent => ~comment
    BY <1>0, <1>1, DistinctAssumption DEF TypeOK
  <1> QED
    BY <1>0, <1>1, <1>2, <1>3, <1>4, <1>5, <1>6, <1>7, <1>8, <1>9, StepKeeps

\* What task h makes of the fields: those it writes, on top of the copy e.
Writes(h, e) == fields' = Written(e, jobs[h])

\* Writing a field on top of the fields as they are keeps the invariant; on top
\* of an older copy it does once writers have overlapped.
LEMMA WritingKeeps ==
    ASSUME Inv, NEW h \in Handlers, ~Idle(h), jobs[h].pc \in FieldSteps, Proceed(h),
           UNCHANGED <<marker, cap, ticket, runs, linked, mail, recorded, overlapped, bounces>>,
           comment' \in BOOLEAN, comment => comment', marker => comment',
           NEW e \in Fields, e.attempts <= cap, e.attempts <= Cardinality(Counted),
           Writes(h, e) \/ (fields' = fields /\ marker /\ overlapped),
           e = fields \/ (marker /\ overlapped)
    PROVE  Inv'
  <1>0. JobsType /\ TypeOK /\ jobs[h] \in Job /\ h \in Busy
    BY JobFields DEF Inv, TypeOK, JobsType, FieldSteps, Busy, Writing
  <1>1. /\ JobsType' /\ Others(h)
        /\ \/ Idle(h)'
           \/ /\ ~Idle(h)' /\ jobs'[h].for = jobs[h].for
              /\ jobs'[h].next = jobs[h].next /\ jobs'[h].copy = NotLoaded
              /\ jobs'[h].pc = After(jobs[h])
    BY <1>0, Proceeds
  <1>2. /\ jobs[h].next <= cap /\ jobs[h].next \in Nat /\ cap \in Nat
        /\ jobs[h].next <= Cardinality(Counted)
    BY <1>0, JobFields, BoundsAssumption DEF Inv, TypeOK, Jobs, JobOK, Earned
  <1>3. /\ fields' \in Fields
        /\ fields'.attempts <= cap /\ fields'.attempts <= Cardinality(Counted)
    BY <1>0, <1>2, WrittenFacts DEF Writes, Inv, TypeOK, Earned
  <1>4. TypeOK'
    BY <1>1, <1>3 DEF Inv, TypeOK, JobsType
  <1>5. Onward(h) /\ Takes(h)
    BY <1>0, <1>1 DEF Onward, Takes, After, FieldSteps, Reading
  <1>6. JobOK(h)'
    BY <1>1, <1>2, DistinctAssumption
    DEF Inv, Jobs, JobOK, After, FieldSteps, CiSteps, Reading
  <1>7. Jobs'
    BY <1>1, <1>6 DEF Inv, Jobs, JobOK, Others, Idle
  <1>8. OneHolder'
    BY <1>0, <1>5, HolderKeeps DEF Inv
  <1>9. Earned'
    BY <1>0, <1>1, <1>3, <1>4, <1>5, EarnedKeeps DEF Inv
  <1>10. Alone'
    BY <1>0, <1>1, <1>5, AloneKeeps, DistinctAssumption DEF Inv, Busy, Idle
  <1>11. Uncommented'
    BY DEF Uncommented
  <1>12. ASSUME ~(marker /\ overlapped)
         PROVE  /\ fields' = Written(fields, jobs[h])
                /\ fields'.log = (jobs[h].pc = "log" \/ fields.log)
                /\ fields'.category = (jobs[h].pc = "category" \/ fields.category)
                /\ fields'.attempts = IF jobs[h].pc = "attempts" THEN jobs[h].next
                                      ELSE fields.attempts
    BY <1>0, <1>12, WrittenFacts DEF Writes
  <1>13. Context'
    <2>1. /\ fields.log => fields'.log \/ (h \in Busy /\ marker)
          /\ fields.category => fields'.category \/ (h \in Busy /\ marker)
      BY <1>0, <1>12
    <2>2. ~(marker /\ overlapped) => Ordered(h) /\ (ticket = "fixes" => fields.log /\ fields.category)
      BY <1>0 DEF Inv, Context, Ordered
    <2>3. ~(marker /\ overlapped) /\ h \in Busy' => Ordered(h)'
      BY <1>1, <1>12, <2>2 DEF Ordered, After, FieldSteps, Busy
    <2>4. ticket' = "fixes" /\ ~(marker /\ overlapped) => fields'.log /\ fields'.category
      BY <1>12, <2>2
    <2> QED
      BY <1>5, <2>1, <2>3, <2>4, ContextKeeps DEF Inv
  <1>14. Guarded'
    <2>1. ASSUME ~overlapped
          PROVE  /\ Fits(h) /\ bounces <= fields.attempts
                 /\ ticket = "blocked" => fields.attempts = cap
      BY <1>0, <2>1 DEF Inv, Guarded, Fits
    <2>2. fields.attempts \in Nat /\ bounces \in Nat
      BY BoundsAssumption DEF Inv, TypeOK, Fields
    <2>3. ASSUME ~overlapped
          PROVE  /\ bounces <= fields'.attempts
                 /\ ticket = "blocked" => fields'.attempts = cap
                 /\ h \in Busy' => Fits(h)'
      <3>1. jobs[h].pc = "attempts" => fields'.attempts = fields.attempts + 1 /\ fields'.attempts <= cap
        BY <1>2, <1>12, <2>1, <2>3 DEF Fits
      <3>2. jobs[h].pc # "attempts" => fields'.attempts = fields.attempts
        BY <1>12, <2>3
      <3>3. bounces <= fields'.attempts
        BY <2>1, <2>2, <2>3, <3>1, <3>2
      <3>4. ticket = "blocked" => fields'.attempts = cap
        BY <1>2, <2>1, <2>2, <2>3, <3>1, <3>2
      <3>5. h \in Busy' => Fits(h)'
        BY <1>1, <1>2, <2>1, <2>2, <2>3, <3>1, <3>2 DEF Fits, After, FieldSteps, Busy
      <3> QED
        BY <3>3, <3>4, <3>5
    <2> QED
      BY <1>0, <1>5, <2>3, GuardedKeeps DEF Inv
  <1> QED
    BY <1>4, <1>7, <1>8, <1>9, <1>10, <1>11, <1>13, <1>14 DEF Inv

LEMMA FieldsKeep ==
    ASSUME Inv, NEW h \in Handlers, StoreComment(h) \/ WriteField(h)
    PROVE  Inv'
  <1> USE DEF config, github, history, inbox
  <1>0. /\ ~Idle(h) /\ JobsType /\ TypeOK /\ h \in Busy
        /\ jobs[h].pc \in FieldSteps /\ Proceed(h)
        /\ fields \in Fields /\ comment \in BOOLEAN /\ marker \in BOOLEAN /\ overlapped \in BOOLEAN
        /\ UNCHANGED <<marker, cap, ticket, runs, linked, mail, recorded, overlapped, bounces>>
    BY DEF StoreComment, WriteField, Inv, TypeOK, JobsType, FieldSteps, Busy, Writing
  <1>1. fields.attempts <= cap /\ fields.attempts <= Cardinality(Counted)
    BY DEF Inv, TypeOK, Earned
  <1>2. CASE WriteField(h)
    BY <1>0, <1>1, <1>2, WritingKeeps DEF WriteField, Writes
  <1>3. CASE StoreComment(h)
    <2>1. marker /\ jobs[h].copy # NotLoaded /\ comment' = TRUE
      BY <1>3 DEF StoreComment
    <2>2. CASE jobs[h].copy # Absent
      <3>1. jobs[h].copy \in Fields
        BY <1>0, <2>1, <2>2, JobFields
      <3>2. /\ jobs[h].copy.attempts <= cap
            /\ jobs[h].copy.attempts <= Cardinality(Counted)
        BY <1>0, <3>1 DEF Inv, Jobs, JobOK, Earned
      <3>3. jobs[h].copy = fields \/ overlapped
        BY <1>0, <3>1 DEF Inv, Alone
      <3>4. Writes(h, jobs[h].copy)
        BY <1>3, <2>2 DEF StoreComment, Writes
      <3> QED
        BY <1>0, <2>1, <3>1, <3>2, <3>3, <3>4, WritingKeeps
    <2>3. CASE jobs[h].copy = Absent /\ comment
      <3>1. overlapped
        BY <1>0, <2>3 DEF Inv, Alone
      <3>2. fields' = fields
        BY <1>3, <2>3 DEF StoreComment
      <3> QED
        BY <1>0, <1>1, <2>1, <3>1, <3>2, WritingKeeps
    <2>4. CASE jobs[h].copy = Absent /\ ~comment
      <3>1. fields = Blank
        BY <2>1, <2>4 DEF Inv, Uncommented
      <3>2. Writes(h, fields)
        BY <1>3, <2>4, <3>1 DEF StoreComment, Writes
      <3> QED
        BY <1>0, <1>1, <2>1, <3>2, WritingKeeps
    <2> QED
      BY <2>2, <2>3, <2>4
  <1> QED
    BY <1>2, <1>3

(***************************************************************************)
(* Steps of the others.                                                    *)
(***************************************************************************)
\* Nothing of the feedback loop changes, and the ticket is not stopped.
LEMMA AwayKeeps ==
    ASSUME Inv, TypeOK',
           UNCHANGED <<marker, cap, fields, comment, recorded, jobs, bounces, overlapped>>,
           ticket' \in {ticket, "working", "review"}
    PROVE  Inv'
  <1>1. Jobs' /\ OneHolder' /\ Earned' /\ Uncommented'
    BY DEF Inv, Jobs, JobOK, Idle, OneHolder, Holds, Earned, Counted, Uncommented
  <1>2. Busy' = Busy
    BY DEF Busy, Idle
  <1>3. Alone'
    BY <1>2 DEF Inv, Alone
  <1>4. Context'
    BY <1>2 DEF Inv, Context
  <1>5. Guarded'
    BY <1>2 DEF Inv, Guarded
  <1> QED
    BY <1>1, <1>3, <1>4, <1>5 DEF Inv

LEMMA RunsType ==
    ASSUME TypeOK, NEW r \in DOMAIN runs
    PROVE  runs[r] \in [head: 1..MaxRuns, result: {"pending", "green", "red"}]
  BY SeqAt DEF TypeOK

LEMMA RestartKeeps ==
    ASSUME Inv, Restart
    PROVE  Inv'
  <1> USE DEF config, ticketVars, github, inbox, history
  <1>1. /\ \A h \in Handlers : Idle(h)'
        /\ UNCHANGED <<marker, cap, ticket, fields, comment, runs, linked, mail, recorded,
                       bounces, overlapped>>
    BY DEF Restart, Idle
  <1>2. TypeOK'
    BY <1>1 DEF Inv, TypeOK, Restart
  <1>3. Jobs' /\ OneHolder' /\ Uncommented'
    BY <1>1 DEF Inv, Jobs, JobOK, OneHolder, Holds, Uncommented
  <1>4. Earned'
    <2>1. Counted' = recorded /\ IsFiniteSet(recorded)
      BY <1>1, CountedFinite DEF Inv, Counted
    <2>2. Cardinality(Counted) <= Cardinality(recorded) /\ Cardinality(Counted) \in Nat
          /\ Cardinality(recorded) \in Nat
      BY <2>1, CountedFinite, FS_CardinalityType DEF Inv
    <2>3. fields.attempts \in Nat /\ fields.attempts <= Cardinality(Counted)
      BY BoundsAssumption DEF Inv, TypeOK, Fields, Earned
    <2> QED
      BY <1>1, <2>1, <2>2, <2>3 DEF Earned
  <1>5. Busy' = {}
    BY <1>1 DEF Busy
  <1>6. Alone' /\ Context' /\ Guarded'
    BY <1>1, <1>5 DEF Inv, Alone, Context, Guarded
  <1> QED
    BY <1>2, <1>3, <1>4, <1>6 DEF Inv

LEMMA ResumeKeeps ==
    ASSUME Inv, NEW reset \in BOOLEAN, HumanResumes(reset)
    PROVE  Inv'
  <1> USE DEF config, github, inbox, history
  <1>1. /\ ticket' = "working"
        /\ UNCHANGED <<marker, cap, comment, runs, linked, mail, recorded, jobs>>
    BY DEF HumanResumes
  <1>2. fields.attempts \in 0..MaxAttempts /\ cap \in 1..MaxAttempts /\ fields \in Fields
    BY DEF Inv, TypeOK, Fields
  <1>3. CASE reset
    <2>1. /\ fields' = [fields EXCEPT !.attempts = 0] /\ bounces' = 0
          /\ overlapped' = (overlapped \/ Busy # {})
      BY <1>3 DEF HumanResumes
    <2>2. /\ fields' \in Fields /\ fields'.attempts = 0
          /\ fields'.log = fields.log /\ fields'.category = fields.category
      BY <1>2, <2>1, BoundsAssumption DEF Fields
    <2>3. TypeOK'
      BY <1>1, <1>2, <2>1, <2>2 DEF Inv, TypeOK, Tickets, Active
    <2>4. Jobs' /\ OneHolder'
      BY <1>1 DEF Inv, Jobs, JobOK, Idle, OneHolder, Holds
    <2>5. Earned'
      <3>1. Counted' = Counted /\ Cardinality(Counted) \in Nat
        BY <1>1, CountedFinite DEF Inv, Counted, Idle
      <3> QED
        BY <1>1, <2>2, <3>1 DEF Inv, Earned, Idle
    <2>6. Busy' = Busy /\ (~overlapped' => Busy = {} /\ ~overlapped)
      BY <1>1, <2>1 DEF Busy, Idle
    <2>7. Alone'
      BY <2>6 DEF Alone
    <2>8. Uncommented'
      <3>1. [Blank EXCEPT !.attempts = 0] = Blank
        BY DEF Blank
      <3>2. marker /\ ~comment => fields' = Blank
        BY <2>1, <3>1 DEF Inv, Uncommented
      <3> QED
        BY <1>1, <3>2 DEF Uncommented
    <2>9. Context'
      BY <1>1, <2>1, <2>2, <2>6 DEF Inv, Context
    <2>10. Guarded'
      BY <1>1, <2>1, <2>2, <2>6 DEF Guarded
    <2> QED
      BY <2>3, <2>4, <2>5, <2>7, <2>8, <2>9, <2>10 DEF Inv
  <1>4. CASE ~reset
    <2>1. UNCHANGED <<fields, bounces, overlapped>>
      BY <1>4 DEF HumanResumes
    <2>2. TypeOK'
      BY <1>1, <2>1 DEF Inv, TypeOK, Tickets, Active
    <2> QED
      BY <1>1, <2>1, <2>2, AwayKeeps
  <1> QED
    BY <1>3, <1>4

LEMMA EnvironmentKeeps ==
    ASSUME Inv, Environment
    PROVE  Inv'
  <1> USE DEF config, ticketVars, github, inbox, history, Tickets, Active
  <1>0. TypeOK
    BY DEF Inv
  <1>1. CASE AgentTakes \/ HumanReviews
    <2>1. TypeOK'
      BY <1>0, <1>1 DEF TypeOK, AgentTakes, HumanReviews
    <2> QED
      BY <1>1, <2>1, AwayKeeps DEF AgentTakes, HumanReviews
  <1>2. CASE Link
    <2>1. TypeOK'
      BY <1>0, <1>2 DEF TypeOK, Link
    <2> QED
      BY <1>2, <2>1, AwayKeeps DEF Link
  <1>3. CASE Rerun
    <2>1. Len(runs) \in DOMAIN runs
      BY <1>0, <1>3, LenProperties, EmptySeq DEF Rerun, TypeOK
    <2>2. runs[Len(runs)].head \in 1..MaxRuns
      BY <1>0, <2>1, RunsType
    <2>3. TypeOK'
      BY <1>0, <1>3, <2>2, BoundsAssumption DEF TypeOK, Rerun
    <2> QED
      BY <1>3, <2>3, AwayKeeps DEF Rerun
  <1>4. CASE AgentPushes
    <2>1. TypeOK'
      BY <1>0, <1>4, BoundsAssumption DEF TypeOK, AgentPushes
    <2> QED
      BY <1>4, <2>1, AwayKeeps DEF AgentPushes
  <1>5. ASSUME NEW r \in 1..MaxRuns, NEW result \in {"green", "red"}, NEW sent \in SUBSET Kinds,
               RunCompletes(r, result, sent)
        PROVE  Inv'
    <2> DEFINE Run == [head: 1..MaxRuns, result: {"pending", "green", "red"}]
    <2>1. runs[r] \in Run /\ runs \in Seq(Run) /\ r \in DOMAIN runs
      BY <1>0, <1>5, RunsType DEF RunCompletes, TypeOK
    <2>2. [runs[r] EXCEPT !.result = result] \in Run
      BY <2>1
    <2>3. runs' = [runs EXCEPT ![r] = [runs[r] EXCEPT !.result = result]]
      BY <1>5 DEF RunCompletes
    <2> HIDE DEF Run
    <2>4. runs' \in Seq(Run) /\ Len(runs') = Len(runs)
      BY <2>1, <2>2, <2>3
    <2>5. mail' \subseteq Deliveries
      BY <1>0, <1>5 DEF RunCompletes, TypeOK, Deliveries
    <2>6. TypeOK'
      BY <1>0, <1>5, <2>4, <2>5 DEF TypeOK, RunCompletes, Run
    <2> QED
      BY <1>5, <2>6, AwayKeeps DEF RunCompletes
  <1> QED
    BY <1>1, <1>2, <1>3, <1>4, <1>5, ResumeKeeps DEF Environment

(***************************************************************************)
(* The theorems.                                                           *)
(***************************************************************************)
LEMMA InitInv == Init => Inv
  <1> SUFFICES ASSUME Init PROVE Inv
    OBVIOUS
  <1> USE BoundsAssumption DEF Init
  <1>1. \A h \in Handlers : Idle(h)
    BY DEF Idle
  <1>2. fields = Blank /\ Blank \in Fields /\ Blank.attempts = 0
    BY DEF Blank, Fields
  <1>3. runs \in Seq([head: 1..MaxRuns, result: {"pending", "green", "red"}]) /\ Len(runs) = 0
    BY EmptySeq
  <1>4. TypeOK
    <2>1. jobs \in [Handlers -> Job \cup {NoJob}]
      OBVIOUS
    <2>2. fields.attempts <= cap /\ Len(runs) <= MaxRuns
      BY <1>2, <1>3
    <2>3. runs = <<>> /\ mail = {} /\ recorded = {} /\ ticket = "working"
      OBVIOUS
    <2> QED
      BY <1>2, <1>3, <2>1, <2>2, <2>3 DEF TypeOK, Tickets, Active
  <1>5. Counted = {} /\ Cardinality({}) = 0
    BY FS_EmptySet DEF Counted
  <1>6. Jobs /\ OneHolder /\ Uncommented /\ Earned
    BY <1>1, <1>2, <1>5 DEF Jobs, JobOK, OneHolder, Holds, Uncommented, Earned
  <1>7. Busy = {}
    BY <1>1 DEF Busy
  <1>8. Alone /\ Context /\ Guarded
    BY <1>2, <1>7 DEF Alone, Context, Guarded
  <1> QED
    BY <1>4, <1>6, <1>8 DEF Inv

LEMMA StepInv == Inv /\ [Next]_vars => Inv'
  <1> SUFFICES ASSUME Inv, [Next]_vars PROVE Inv'
    OBVIOUS
  <1>1. ASSUME NEW h \in Handlers, CiStep(h) PROVE Inv'
    BY <1>1, ReceiveKeeps, ReadKeeps, EndsKeep, GreensKeep, DecideKeeps DEF CiStep
  <1>2. ASSUME NEW h \in Handlers, FieldStep(h) PROVE Inv'
    BY <1>2, LoadKeeps, FieldsKeep DEF FieldStep
  <1>3. ASSUME NEW h \in Handlers, BudgetStep(h) PROVE Inv'
    BY <1>3, FlushStarts, EndsKeep, FlushFailsKeeps DEF BudgetStep
  <1>4. CASE UNCHANGED vars
    <2>1. UNCHANGED <<marker, cap, ticket, fields, comment, recorded, jobs, bounces, overlapped>>
      BY <1>4 DEF vars
    <2>2. TypeOK'
      BY <1>4 DEF vars, Inv, TypeOK
    <2> QED
      BY <2>1, <2>2, AwayKeeps
  <1> QED
    BY <1>1, <1>2, <1>3, <1>4, RestartKeeps, EnvironmentKeeps DEF Next

\* The invariant holds of every reachable state.
THEOREM Invariance == Spec => []Inv
  BY InitInv, StepInv, PTL DEF Spec

\* Every reachable state is well typed; in particular no handlers, however
\* they interleave, raise the attempt count a reader finds above the cap.
THEOREM TypeCorrect == Spec => []TypeOK
  <1>1. Inv => TypeOK
    BY DEF Inv
  <1> QED
    BY <1>1, Invariance, PTL

\* The failure log and the category are written before the ticket moves to
\* needs-fixes, on Linear as long as writers of the comment did not overlap.
THEOREM ContextCorrect == Spec => []ContextBeforeFixes
  <1>1. Inv => ContextBeforeFixes
    BY DEF Inv, Context, ContextBeforeFixes
  <1> QED
    BY <1>1, Invariance, PTL

\* A delivery raises the attempt count at most once.
THEOREM CountedOnceCorrect == Spec => []NoDeliveryCountsTwice
  <1>1. ASSUME Inv PROVE NoDeliveryCountsTwice
    <2>1. fields.attempts <= Cardinality(Counted) /\ fields.attempts \in Nat
      BY <1>1, BoundsAssumption DEF Inv, Earned, TypeOK, Fields
    <2>2. /\ Cardinality(Counted) <= Cardinality(recorded)
          /\ Cardinality(Counted) \in Nat /\ Cardinality(recorded) \in Nat
      BY <1>1, CountedFinite, FS_CardinalityType DEF Inv
    <2> QED
      BY <2>1, <2>2 DEF NoDeliveryCountsTwice
  <1> QED
    BY <1>1, Invariance, PTL

\* The count bounds how often the ticket went back to the agent since it was
\* reset, as long as writers did not overlap.
THEOREM BounceCorrect == Spec => []EveryBounceCounted
  <1>1. Inv => EveryBounceCounted
    BY DEF Inv, Guarded, EveryBounceCounted
  <1> QED
    BY <1>1, Invariance, PTL

\* A blocked ticket goes back to the agent by a human's hand only, as long as
\* writers did not overlap.
THEOREM BlockedCorrect == Spec => BlockedStays
  <1>1. ASSUME Inv, Next, ticket = "blocked", ticket' = "fixes" PROVE overlapped
    <2>1. PICK h \in Handlers : Bounce(h)
      BY <1>1 DEF Next, CiStep, FieldStep, BudgetStep, Environment, Receive, ReadSummary,
         Unmapped, Greens, ReadAndDecide, Block, Promote, Label, CiFails, LoadComment,
         StoreComment, WriteField, SessionCrossesCap, FlushDue, Exceed, FlushFails, Restart,
         AgentTakes, AgentPushes, Link, Rerun, RunCompletes, HumanReviews, HumanResumes,
         ticketVars
    <2>2. h \in Busy /\ jobs[h].pc = "bounce"
      BY <1>1, <2>1, AtFacts DEF Bounce, Writing
    <2> QED
      BY <1>1, <2>2 DEF Inv, Guarded
  <1>2. Inv /\ [Next]_vars => [ticket = "blocked" /\ ticket' = "fixes" => overlapped]_vars
    BY <1>1
  <1> QED
    BY <1>2, Invariance, PTL DEF Spec, BlockedStays

===============================================================================
