----------------------------- MODULE MergeProofs -----------------------------
(***************************************************************************)
(* Theorems about MergeCoordinator for every number of pull requests,      *)
(* handlers and update cycles.                                             *)
(***************************************************************************)
EXTENDS MergeCoordinator, FiniteSetTheorems, TLAPS

(***************************************************************************)
(* Types.                                                                  *)
(***************************************************************************)
Queues == [PRs -> Row \cup {NoRow}]
Tasks  == [Handlers -> Task]

\* Renumbering the update times of a queue leaves a queue with the same rows.
LEMMA DenseType ==
    ASSUME NEW q \in Queues
    PROVE  /\ Dense(q) \in Queues
           /\ \A p \in PRs : /\ Dense(q)[p] = NoRow <=> q[p] = NoRow
                             /\ q[p] # NoRow => Dense(q)[p].attempt = q[p].attempt
  <1> DEFINE in == {p \in PRs : q[p] # NoRow}
             before(p) == {x \in in : q[x].at < q[p].at}
             times(p) == {q[o].at : o \in before(p)}
  <1>1. ASSUME NEW p \in in PROVE Cardinality(times(p)) \in 0..Cardinality(PRs)
    <2> DEFINE f == [o \in before(p) |-> q[o].at]
    <2>1. IsFiniteSet(before(p)) /\ Cardinality(before(p)) <= Cardinality(PRs)
      BY before(p) \in SUBSET PRs, FS_Subset, PullRequestAssumption
    <2>2. f \in Surjection(before(p), times(p))
      BY DEF Surjection
    <2>3. IsFiniteSet(times(p)) /\ Cardinality(times(p)) <= Cardinality(before(p))
      BY <2>1, <2>2, FS_Surjection
    <2>4. /\ Cardinality(times(p)) \in Nat
          /\ Cardinality(before(p)) \in Nat
          /\ Cardinality(PRs) \in Nat
      BY <2>1, <2>3, FS_CardinalityType, PullRequestAssumption
    <2> QED
      BY <2>1, <2>3, <2>4
  <1>2. ASSUME NEW p \in in PROVE [q[p] EXCEPT !.at = Cardinality(times(p))] \in Row
    <2>1. q[p] \in Row
      BY DEF Queues
    <2> QED
      BY <1>1, <2>1 DEF Row
  <1>3. Dense(q) = [p \in PRs |-> IF p \in in THEN [q[p] EXCEPT !.at = Cardinality(times(p))] ELSE NoRow]
    BY DEF Dense
  <1>4. ASSUME NEW p \in PRs
        PROVE  /\ Dense(q)[p] = NoRow <=> q[p] = NoRow
               /\ q[p] # NoRow => Dense(q)[p].attempt = q[p].attempt
    <2>1. CASE q[p] = NoRow
      BY <1>3, <2>1
    <2>2. CASE q[p] # NoRow
      <3>1. Dense(q)[p] = [q[p] EXCEPT !.at = Cardinality(times(p))]
        BY <1>3, <2>2
      <3>2. Dense(q)[p] \in Row /\ q[p] \in Row
        BY <1>2, <2>2, <3>1 DEF Queues
      <3>3. Dense(q)[p].attempt = q[p].attempt
        BY <3>1, <3>2 DEF Row
      <3> QED
        BY <2>2, <3>2, <3>3, NoneAssumption
    <2> QED
      BY <2>1, <2>2
  <1> HIDE DEF times, in
  <1>5. Dense(q) \in Queues
    <2> USE DEF in, times
    <2> QED
      BY <1>2, <1>3 DEF Queues
  <1> QED
    BY <1>4, <1>5

\* Writing a row leaves a queue with that row and the other rows.
LEMMA WriteType ==
    ASSUME TypeOK, NEW p \in PRs, NEW row \in Row, WriteRow(p, row)
    PROVE  /\ queue' \in Queues
           /\ Queued' = Queued \cup {p}
           /\ queue'[p].attempt = row.attempt
           /\ \A o \in Queued \ {p} : queue'[o].attempt = queue[o].attempt
  <1>1. PICK now \in 0..Cardinality(PRs) :
          queue' = Dense([queue EXCEPT ![p] = [row EXCEPT !.at = now]])
    BY DEF WriteRow
  <1>2. [row EXCEPT !.at = now] \in Row
    BY DEF Row
  <1>3. [queue EXCEPT ![p] = [row EXCEPT !.at = now]] \in Queues
    BY <1>2 DEF TypeOK, Queues
  <1>4. [queue EXCEPT ![p] = [row EXCEPT !.at = now]][p] # NoRow
    BY <1>2, NoneAssumption DEF TypeOK
  <1>5. [row EXCEPT !.at = now].attempt = row.attempt
    BY DEF Row
  <1>6. queue' \in Queues
    BY <1>1, <1>3, DenseType
  <1>7. \A o \in PRs : queue'[o] = NoRow <=> o \notin Queued \cup {p}
    BY <1>1, <1>3, <1>4, DenseType DEF Queued, TypeOK
  <1>8. \A o \in Queued \cup {p} : queue'[o].attempt = IF o = p THEN row.attempt ELSE queue[o].attempt
    BY <1>1, <1>3, <1>4, <1>5, DenseType DEF Queued, TypeOK
  <1> QED
    BY <1>6, <1>7, <1>8 DEF Queued

\* Deleting a row leaves a queue with the other rows.
LEMMA DequeueType ==
    ASSUME TypeOK, NEW p \in PRs, Dequeue(p)
    PROVE  /\ queue' \in Queues
           /\ Queued' = Queued \ {p}
           /\ \A o \in Queued \ {p} : queue'[o].attempt = queue[o].attempt
  <1>1. [queue EXCEPT ![p] = NoRow] \in Queues
    BY DEF TypeOK, Queues
  <1>2. queue' = Dense([queue EXCEPT ![p] = NoRow])
    BY DEF Dequeue
  <1>3. \A o \in PRs : queue'[o] = NoRow <=> o \notin Queued \ {p}
    BY <1>1, <1>2, DenseType DEF Queued, TypeOK
  <1>4. \A o \in Queued \ {p} : queue'[o].attempt = queue[o].attempt
    BY <1>1, <1>2, DenseType DEF Queued, TypeOK
  <1> QED
    BY <1>1, <1>2, <1>3, <1>4, DenseType DEF Queued

\* A handler that rests, or is about to kick, works on no pull request.
LEMMA IdleType == Idle \in Task /\ [Idle EXCEPT !.pc = "head"] \in Task
  BY LimitAssumption DEF Idle, Task, Pcs, Heads, Statuses

\* The steps a handler takes for one pull request.
Working == Pcs \ {"idle", "head"}

\* A handler at such a step has a pull request to work on.
LEMMA WorkedOn ==
    ASSUME TypeOK, NEW h \in Handlers, tasks[h].pc \in Working
    PROVE  tasks[h] \in Task /\ tasks[h].pr \in PRs
  BY DEF TypeOK, Task, Working

\* The ways a handler moves on keep its task well typed.
LEMMA MoveType ==
    ASSUME TypeOK, NEW h \in Handlers, tasks[h].pc \in Working, NEW pc \in Pcs,
           Goto(h, pc) \/ Turn(h, pc) \/ Kick(h) \/ Ends(h)
    PROVE  tasks' \in Tasks
  <1>1. tasks[h] \in Task /\ tasks[h].pr \in PRs
    BY WorkedOn
  <1>2. CASE Goto(h, pc)
    BY <1>1, <1>2 DEF TypeOK, Tasks, Goto, Task
  <1>3. CASE Turn(h, pc)
    <2>1. [Idle EXCEPT !.pc = pc, !.pr = tasks[h].pr] \in Task
      BY <1>1, IdleType DEF Task
    <2> QED
      BY <1>3, <2>1 DEF TypeOK, Tasks, Turn
  <1>4. CASE Kick(h) \/ Ends(h)
    BY <1>4, IdleType DEF TypeOK, Tasks, Kick, Ends
  <1> QED
    BY <1>2, <1>3, <1>4

\* So does deciding what to write into the row.
LEMMA SaveType ==
    ASSUME TypeOK, NEW h \in Handlers, tasks[h].pc \in Working,
           NEW status \in Statuses, NEW attempt \in 0..MaxCycles, SaveAs(h, status, attempt)
    PROVE  tasks' \in Tasks
  <1>1. tasks[h] \in Task /\ tasks[h].pr \in PRs
    BY WorkedOn
  <1> QED
    BY <1>1 DEF TypeOK, Tasks, SaveAs, Task, Pcs

\* The base moving on, with or without a merge, keeps the pull requests typed.
LEMMA BaseType ==
    ASSUME TypeOK, NEW except \in SUBSET PRs, NEW state \in {"open", "merged", "closed"},
           BaseMoves(except, state)
    PROVE  pr' \in [PRs -> PullRequest]
  <1>1. PICK hit \in SUBSET (Open \ except) :
          pr' = [p \in PRs |->
                   IF p \in except THEN Finished(p, state)
                   ELSE IF p \in Open
                     THEN [pr[p] EXCEPT !.behind = TRUE, !.conflict = pr[p].conflict \/ p \in hit]
                     ELSE pr[p]]
    BY DEF BaseMoves
  <1>2. ASSUME NEW p \in PRs PROVE pr'[p] \in PullRequest
    <2>1. pr[p] \in PullRequest
      BY DEF TypeOK
    <2>2. Finished(p, state) \in PullRequest
      BY <2>1 DEF PullRequest, Finished
    <2>3. (pr[p].conflict \/ p \in hit) \in BOOLEAN
      OBVIOUS
    <2>4. [pr[p] EXCEPT !.behind = TRUE, !.conflict = pr[p].conflict \/ p \in hit] \in PullRequest
      BY <2>1, <2>3 DEF PullRequest
    <2> QED
      BY <1>1, <2>1, <2>2, <2>4
  <1> QED
    BY <1>1, <1>2

\* Receiving a delivery and answering it keeps the types.
LEMMA DeliveryType ==
    ASSUME TypeOK, NEW h \in Handlers,
           \/ \E e \in inbox : Receive(h, e)
           \/ Evaluate(h) \/ Promote(h) \/ Bounce(h) \/ OnCiGreen(h) \/ OnCiRed(h)
           \/ EnqueueReads(h) \/ EnqueueInserts(h)
    PROVE  TypeOK'
  <1> USE DEF github
  <1>1. ASSUME NEW e \in inbox, Receive(h, e) PROVE TypeOK'
    <2> DEFINE t == [Idle EXCEPT !.pc = IF e.kind = "approval" THEN "enqueue" ELSE "evaluate",
                                 !.pr = e.pr, !.head = e.head]
    <2>1. e \in Event
      BY DEF TypeOK
    <2>2. t \in Task
      BY <2>1, IdleType DEF Event, Task, Pcs
    <2>3. tasks' = [tasks EXCEPT ![h] = t] /\ inbox' = inbox \ {e}
          /\ UNCHANGED <<pr, ci, approved, ticket, queue, boot, recheck>>
      BY <1>1 DEF Receive
    <2> HIDE DEF t
    <2> QED
      BY <2>2, <2>3 DEF TypeOK
  <1>2. CASE Evaluate(h)
    <2>1. tasks[h].pc \in Working /\ (Turn(h, "promote") \/ Turn(h, "bounce") \/ Ends(h))
      BY <1>2 DEF Evaluate, At, Working, Pcs
    <2>2. tasks' \in Tasks
      BY <2>1, MoveType DEF Pcs
    <2> QED
      BY <1>2, <2>2 DEF Evaluate, TypeOK, Tasks
  <1>3. CASE Promote(h) \/ Bounce(h)
    <2>1. tasks[h].pc \in Working /\ (Turn(h, "green") \/ Turn(h, "red"))
      BY <1>3 DEF Promote, Bounce, At, Working, Pcs
    <2>2. tasks' \in Tasks
      BY <2>1, MoveType DEF Pcs
    <2> QED
      BY <1>3, <2>2 DEF Promote, Bounce, TypeOK, Tasks
  <1>4. CASE OnCiGreen(h)
    <2>1. tasks[h].pc \in Working /\ (Kick(h) \/ Ends(h))
      BY <1>4 DEF OnCiGreen, At, Working, Pcs
    <2>2. tasks' \in Tasks
      BY <2>1, MoveType DEF Pcs
    <2> QED
      BY <1>4, <2>2 DEF OnCiGreen, TypeOK, Tasks
  <1>5. CASE OnCiRed(h)
    <2>1. tasks[h].pc \in Working /\ Kick(h) /\ Dequeue(tasks[h].pr)
      BY <1>5 DEF OnCiRed, At, Working, Pcs
    <2>2. tasks' \in Tasks /\ queue' \in Queues
      BY <2>1, WorkedOn, MoveType, DequeueType DEF Pcs
    <2> QED
      BY <1>5, <2>2 DEF OnCiRed, TypeOK, Tasks, Queues
  <1>6. CASE EnqueueReads(h)
    <2>1. tasks[h].pc \in Working
      BY <1>6 DEF EnqueueReads, At, Working, Pcs
    <2>2. CASE Ends(h)
      <3>1. tasks' \in Tasks
        BY <2>1, <2>2, MoveType DEF Pcs
      <3> QED
        BY <1>6, <3>1 DEF EnqueueReads, TypeOK, Tasks
    <2>3. CASE pr[tasks[h].pr].state # "merged"
      <3>1. tasks' = [tasks EXCEPT ![h].pc = "insert", ![h].head = pr[tasks[h].pr].head]
        BY <1>6, <2>3 DEF EnqueueReads
      <3>2. tasks[h] \in Task /\ tasks[h].pr \in PRs /\ pr[tasks[h].pr].head \in Heads
        BY <2>1, WorkedOn DEF TypeOK, PullRequest
      <3>3. tasks' \in Tasks
        BY <3>1, <3>2 DEF TypeOK, Tasks, Task, Pcs
      <3> QED
        BY <1>6, <3>3 DEF EnqueueReads, TypeOK, Tasks
    <2> QED
      BY <1>6, <2>2, <2>3 DEF EnqueueReads
  <1>7. CASE EnqueueInserts(h)
    <2>1. tasks[h].pc \in Working /\ Kick(h)
      BY <1>7 DEF EnqueueInserts, At, Working, Pcs
    <2>2. tasks' \in Tasks /\ tasks[h] \in Task
      BY <2>1, MoveType, WorkedOn DEF Pcs
    <2>3. [head |-> tasks[h].head, status |-> "queued", attempt |-> 0, at |-> 0] \in Row
      <3>1. Cardinality(PRs) \in Nat
        BY PullRequestAssumption, FS_CardinalityType
      <3> QED
        BY <2>2, <3>1, LimitAssumption DEF Task, Row, Statuses
    <2>4. queue' \in Queues
      BY <1>7, <2>1, <2>3, WorkedOn, WriteType DEF EnqueueInserts, TypeOK, Queues
    <2> QED
      BY <1>7, <2>2, <2>4 DEF EnqueueInserts, TypeOK, Tasks, Queues
  <1> QED
    BY <1>1, <1>2, <1>3, <1>4, <1>5, <1>6, <1>7

\* A handler that updates a branch has read a row with a cycle left.
Bounded == \A h \in Handlers : At(h, "update") => tasks[h].attempt < MaxCycles

\* Choosing the head, reading its pull request and acting on it keeps the types.
LEMMA AdvanceType ==
    ASSUME TypeOK, Bounded, NEW h \in Handlers,
           PickHead(h) \/ ReadPullRequest(h) \/ UpdateBranch(h) \/ CheckHead(h)
    PROVE  TypeOK'
  <1> USE DEF github
  <1>0. Cardinality(PRs) \in Nat /\ {"head", "read", "drop", "park", "save"} \subseteq Pcs
    BY PullRequestAssumption, FS_CardinalityType DEF Pcs
  <1>1. CASE PickHead(h)
    <2>1. CASE Ends(h)
      BY <1>1, <2>1, IdleType DEF PickHead, Ends, TypeOK
    <2>2. ASSUME NEW p \in Queued,
                 tasks' = [tasks EXCEPT ![h] = [Idle EXCEPT !.pc = "read", !.pr = p,
                                                            !.attempt = queue[p].attempt]]
          PROVE  TypeOK'
      <3>1. p \in PRs /\ queue[p] \in Row
        BY DEF Queued, TypeOK
      <3>2. [Idle EXCEPT !.pc = "read", !.pr = p, !.attempt = queue[p].attempt] \in Task
        BY <3>1, IdleType, <1>0 DEF Task, Row
      <3> QED
        BY <1>1, <2>2, <3>2 DEF PickHead, TypeOK
    <2> QED
      BY <1>1, <2>1, <2>2 DEF PickHead
  <1>2. CASE ReadPullRequest(h)
    <2> DEFINE p == tasks[h].pr
               go(pc) == tasks' = [tasks EXCEPT ![h].pc = pc, ![h].head = pr[p].head]
               wait == tasks' = [tasks EXCEPT ![h].pc = "save", ![h].head = pr[p].head,
                                              ![h].status = "awaiting_ci"]
    <2>1. tasks[h].pc \in Working
      BY <1>2 DEF ReadPullRequest, At, Working, Pcs
    <2>2. tasks[h] \in Task /\ p \in PRs /\ pr[p].head \in Heads
      BY <2>1, WorkedOn DEF TypeOK, PullRequest
    <2>3. Turn(h, "drop") \/ Turn(h, "park") \/ go("update") \/ go("checks") \/ wait
      BY <1>2 DEF ReadPullRequest
    <2>4. tasks' \in Tasks
      <3>1. CASE Turn(h, "drop") \/ Turn(h, "park")
        BY <2>1, <3>1, <1>0, MoveType
      <3>2. ASSUME NEW pc \in {"update", "checks"}, go(pc) PROVE tasks' \in Tasks
        <4>1. [tasks[h] EXCEPT !.pc = pc, !.head = pr[p].head] \in Task
          BY <2>2 DEF Task, Pcs
        <4> QED
          BY <3>2, <4>1 DEF TypeOK, Tasks
      <3>3. CASE wait
        <4>1. [tasks[h] EXCEPT !.pc = "save", !.head = pr[p].head, !.status = "awaiting_ci"] \in Task
          BY <2>2 DEF Task, Pcs, Statuses
        <4> QED
          BY <3>3, <4>1 DEF TypeOK, Tasks
      <3> QED
        BY <2>3, <3>1, <3>2, <3>3
    <2> QED
      BY <1>2, <2>4 DEF ReadPullRequest, TypeOK, Tasks
  <1>3. CASE UpdateBranch(h)
    <2>1. tasks[h].pc \in Working /\ tasks[h].attempt \in 0..MaxCycles
      <3>1. At(h, "update")
        BY <1>3 DEF UpdateBranch
      <3> QED
        BY <3>1, WorkedOn DEF At, Working, Pcs, Task
    <2>2. tasks[h] \in Task /\ tasks[h].pr \in PRs
      BY <2>1, WorkedOn
    <2>3. CASE /\ \/ /\ pr[tasks[h].pr].head < MaxHead
                     /\ pr' = [pr EXCEPT ![tasks[h].pr].head = @ + 1, ![tasks[h].pr].behind = FALSE]
                  \/ UNCHANGED pr
               /\ SaveAs(h, "updating", tasks[h].attempt + 1)
      <3> DEFINE p == tasks[h].pr
      <3>1. tasks[h].attempt + 1 \in 0..MaxCycles
        BY <1>3, <2>1, LimitAssumption DEF Bounded, UpdateBranch, At
      <3>2. tasks' \in Tasks
        BY <2>1, <2>3, <3>1, SaveType DEF Statuses
      <3>3. ASSUME pr[p].head < MaxHead
            PROVE  [pr[p] EXCEPT !.head = @ + 1, !.behind = FALSE] \in PullRequest
        <4>1. pr[p] \in PullRequest
          BY <2>2 DEF TypeOK
        <4>2. pr[p].head + 1 \in Heads
          BY <3>3, <4>1, LimitAssumption DEF PullRequest, Heads
        <4> QED
          BY <4>1, <4>2 DEF PullRequest
      <3>4. pr' \in [PRs -> PullRequest]
        BY <2>3, <3>3 DEF TypeOK
      <3> QED
        BY <1>3, <3>2, <3>4 DEF UpdateBranch, TypeOK, Tasks
    <2>4. CASE /\ SaveAs(h, "awaiting_ci", tasks[h].attempt) \/ Turn(h, "park")
               /\ UNCHANGED pr
      <3>1. tasks' \in Tasks
        BY <2>1, <2>4, <1>0, SaveType, MoveType DEF Statuses
      <3> QED
        BY <1>3, <2>4, <3>1 DEF UpdateBranch, TypeOK, Tasks
    <2> QED
      BY <1>3, <2>3, <2>4 DEF UpdateBranch
  <1>4. CASE CheckHead(h)
    <2>1. At(h, "checks")
      BY <1>4 DEF CheckHead
    <2>2. tasks[h].pc \in Working /\ tasks[h].attempt \in 0..MaxCycles
      BY <2>1, WorkedOn DEF At, Working, Pcs, Task
    <2>3. \/ SaveAs(h, "awaiting_ci", tasks[h].attempt)
          \/ SaveAs(h, "merging", tasks[h].attempt)
          \/ Turn(h, "drop")
      BY <1>4 DEF CheckHead
    <2>4. tasks' \in Tasks
      BY <2>2, <2>3, <1>0, SaveType, MoveType DEF Statuses
    <2> QED
      BY <1>4, <2>4 DEF CheckHead, TypeOK, Tasks
  <1> QED
    BY <1>1, <1>2, <1>3, <1>4

\* Saving the row, merging, parking and dropping keep the types.
LEMMA LandType ==
    ASSUME TypeOK, NEW h \in Handlers,
           \/ SaveRow(h) \/ MergeLands(h) \/ MergeRefused(h)
           \/ Park(h) \/ Drop(h) \/ HandlerStops(h)
    PROVE  TypeOK'
  <1> USE DEF github
  <1>0. /\ Cardinality(PRs) \in Nat
        /\ {"head", "read", "drop", "park", "save", "merge"} \subseteq Pcs
    BY PullRequestAssumption, FS_CardinalityType DEF Pcs
  <1>1. CASE SaveRow(h)
    <2> DEFINE t == tasks[h]
               row == [head |-> t.head, status |-> t.status, attempt |-> t.attempt, at |-> 0]
    <2>1. At(h, "save")
      BY <1>1 DEF SaveRow
    <2>2. tasks[h].pc \in Working
      BY <2>1 DEF At, Working, Pcs
    <2>3. row \in Row
      BY <2>2, WorkedOn, <1>0 DEF Task, Row
    <2>4. WriteRow(t.pr, row) \/ UNCHANGED queue
      BY <1>1 DEF SaveRow
    <2>5. queue' \in Queues
      BY <2>2, <2>3, <2>4, WorkedOn, WriteType DEF TypeOK, Queues
    <2>6. Goto(h, "merge") \/ Ends(h)
      BY <1>1 DEF SaveRow
    <2>7. tasks' \in Tasks
      BY <2>2, <2>6, <1>0, MoveType
    <2> QED
      BY <1>1, <2>5, <2>7 DEF SaveRow, TypeOK, Tasks, Queues
  <1>2. CASE MergeLands(h)
    <2>1. tasks[h].pc \in Working /\ Turn(h, "drop") /\ BaseMoves({tasks[h].pr}, "merged")
      BY <1>2 DEF MergeLands, At, Working, Pcs
    <2>2. tasks' \in Tasks
      BY <2>1, <1>0, MoveType
    <2>3. pr' \in [PRs -> PullRequest]
      BY <2>1, WorkedOn, BaseType
    <2> QED
      BY <1>2, <2>2, <2>3 DEF MergeLands, TypeOK, Tasks
  <1>3. CASE MergeRefused(h)
    <2>1. At(h, "merge") /\ SaveAs(h, "awaiting_ci", tasks[h].attempt)
      BY <1>3 DEF MergeRefused
    <2>2. tasks[h].pc \in Working /\ tasks[h].attempt \in 0..MaxCycles
      BY <2>1, WorkedOn DEF At, Working, Pcs, Task
    <2>3. tasks' \in Tasks
      BY <2>1, <2>2, SaveType DEF Statuses
    <2> QED
      BY <1>3, <2>3 DEF MergeRefused, TypeOK, Tasks
  <1>4. CASE Park(h)
    <2>1. tasks[h].pc \in Working /\ Turn(h, "drop")
      BY <1>4 DEF Park, At, Working, Pcs
    <2>2. tasks' \in Tasks
      BY <2>1, <1>0, MoveType
    <2> QED
      BY <1>4, <2>2 DEF Park, TypeOK, Tasks
  <1>5. CASE Drop(h)
    <2>1. tasks[h].pc \in Working /\ Kick(h) /\ Dequeue(tasks[h].pr)
      BY <1>5 DEF Drop, At, Working, Pcs
    <2>2. tasks' \in Tasks /\ queue' \in Queues
      BY <2>1, <1>0, WorkedOn, MoveType, DequeueType
    <2> QED
      BY <1>5, <2>2 DEF Drop, TypeOK, Tasks, Queues
  <1>6. CASE HandlerStops(h)
    BY <1>6, IdleType DEF HandlerStops, Ends, TypeOK
  <1> QED
    BY <1>1, <1>2, <1>3, <1>4, <1>5, <1>6

\* While the boot reconciliation runs no handler does, and the rows it has
\* still to look at are in the queue.
Rebooting == boot = "reconcile" =>
    recheck \subseteq Queued /\ \A h \in Handlers : At(h, "idle")

\* A restart and the boot reconciliation keep the types.
LEMMA BootType ==
    ASSUME TypeOK, Rebooting, Boot
    PROVE  TypeOK'
  <1> USE DEF github
  <1>1. CASE Crash
    BY <1>1, IdleType DEF Crash, TypeOK, Queued
  <1>2. CASE BootServes
    BY <1>2 DEF BootServes, TypeOK
  <1>3. ASSUME NEW p \in recheck, BootCheck(p) \/ BootCheckFails(p) PROVE TypeOK'
    <2>1. p \in PRs /\ Cardinality(PRs) \in Nat
      BY PullRequestAssumption, FS_CardinalityType DEF TypeOK
    <2>2. CASE BootCheckFails(p)
      BY <2>2 DEF BootCheckFails, TypeOK
    <2>3. CASE BootCheck(p)
      <3> DEFINE row == [queue[p] EXCEPT !.head = pr[p].head, !.status = "awaiting_ci"]
      <3>1. Dequeue(p) \/ UNCHANGED queue \/ (p \in Queued /\ WriteRow(p, row))
        <4>1. p \in Queued
          BY <2>3 DEF BootCheck, Rebooting
        <4>2. Dequeue(p) \/ UNCHANGED queue \/ WriteRow(p, row)
          BY <2>3 DEF BootCheck
        <4> QED
          BY <4>1, <4>2
      <3>2. ASSUME p \in Queued, WriteRow(p, row) PROVE queue' \in Queues
        <4>1. queue[p] \in Row /\ pr[p] \in PullRequest
          BY <2>1, <3>2 DEF Queued, TypeOK
        <4>2. row \in Row
          BY <4>1 DEF Row, PullRequest, Statuses
        <4> QED
          BY <2>1, <3>2, <4>2, WriteType
      <3>3. queue' \in Queues
        BY <2>1, <3>1, <3>2, DequeueType DEF TypeOK, Queues
      <3> QED
        BY <2>3, <3>3 DEF BootCheck, TypeOK, Queues
    <2> QED
      BY <1>3, <2>2, <2>3
  <1>4. ASSUME NEW h \in Handlers, BootKick(h) PROVE TypeOK'
    BY <1>4, IdleType DEF BootKick, Kick, TypeOK
  <1> QED
    BY <1>1, <1>2, <1>3, <1>4 DEF Boot

\* GitHub and its users keep the types.
LEMMA GitHubType ==
    ASSUME TypeOK, GitHub
    PROVE  TypeOK'
  <1> USE DEF others
  <1>1. ASSUME NEW e \in Event, Sends(e) PROVE inbox' \subseteq Event
    BY <1>1 DEF Sends, TypeOK
  <1>2. ASSUME NEW p \in PRs, Approve(p) PROVE TypeOK'
    <2>1. [kind |-> "approval", pr |-> p, head |-> 0] \in Event
      BY LimitAssumption DEF Event, Heads
    <2>2. inbox' \subseteq Event
      BY <1>1, <1>2, <2>1 DEF Approve
    <2> QED
      BY <1>2, <2>2 DEF Approve, TypeOK
  <1>3. ASSUME NEW p \in PRs, Push(p) PROVE TypeOK'
    <2>1. PICK behind, conflict \in BOOLEAN :
            pr' = [pr EXCEPT ![p] = [state |-> "open", head |-> @.head + 1,
                                     behind |-> behind, conflict |-> conflict]]
      BY <1>3 DEF Push
    <2>2. pr[p].head + 1 \in Heads
      BY <1>3, LimitAssumption DEF Push, TypeOK, PullRequest, Heads
    <2>3. pr' \in [PRs -> PullRequest]
      BY <2>1, <2>2 DEF TypeOK, PullRequest
    <2> QED
      BY <1>3, <2>3 DEF Push, TypeOK
  <1>4. ASSUME NEW p \in PRs, HumanFinishes(p) PROVE TypeOK'
    <2>1. pr' = [pr EXCEPT ![p] = Finished(p, "closed")] \/ BaseMoves({p}, "merged")
      BY <1>4 DEF HumanFinishes
    <2>2. CASE pr' = [pr EXCEPT ![p] = Finished(p, "closed")]
      <3>1. Finished(p, "closed") \in PullRequest
        BY DEF TypeOK, PullRequest, Finished
      <3> QED
        BY <1>4, <2>2, <3>1 DEF HumanFinishes, TypeOK
    <2>3. CASE BaseMoves({p}, "merged")
      BY <1>4, <2>3, BaseType DEF HumanFinishes, TypeOK
    <2> QED
      BY <2>1, <2>2, <2>3
  <1>5. ASSUME NEW p \in PRs, NEW k \in Heads, ChecksStart(p, k) PROVE TypeOK'
    BY <1>5 DEF ChecksStart, TypeOK
  <1>6. ASSUME NEW p \in PRs, NEW k \in Heads, ChecksReport(p, k) PROVE TypeOK'
    <2>1. [kind |-> "ci", pr |-> p, head |-> k] \in Event
      BY DEF Event
    <2>2. inbox' \subseteq Event
      BY <1>1, <1>6, <2>1 DEF ChecksReport
    <2>3. PICK seen \in {"none", "green", "red"} : ci' = [ci EXCEPT ![p][k] = seen]
      BY <1>6 DEF ChecksReport
    <2>4. ci' \in [PRs -> [Heads -> {"none", "pending", "green", "red"}]]
      BY <2>3 DEF TypeOK
    <2> QED
      BY <1>6, <2>2, <2>4 DEF ChecksReport, TypeOK
  <1>7. CASE BasePushed
    <2>1. pr' \in [PRs -> PullRequest]
      BY <1>7, BaseType DEF BasePushed
    <2> QED
      BY <1>7, <2>1 DEF BasePushed, TypeOK
  <1>8. ASSUME NEW e \in inbox, DeliveryLost(e) PROVE TypeOK'
    BY <1>8 DEF DeliveryLost, github, TypeOK
  <1> QED
    BY <1>2, <1>3, <1>4, <1>5, <1>6, <1>7, <1>8 DEF GitHub

\* Every step keeps the types.
LEMMA NextType ==
    ASSUME TypeOK, Bounded, Rebooting, Next
    PROVE  TypeOK'
  <1>1. ASSUME NEW h \in Handlers, Handle(h) PROVE TypeOK'
    BY <1>1, DeliveryType, AdvanceType, LandType DEF Handle
  <1> QED
    BY <1>1, BootType, GitHubType DEF Next

(***************************************************************************)
(* The inductive invariant.                                                *)
(***************************************************************************)
\* The steps of a handler that works on an approved landing.
Landing == {"enqueue", "insert", "read", "update", "checks", "merge", "park", "save", "drop"}

\* What is queued, or on its way into the queue, or being landed, was approved.
Approved ==
    /\ Queued \subseteq approved
    /\ \A e \in inbox : e.kind = "approval" => e.pr \in approved
    /\ \A h \in Handlers : tasks[h].pc \in Landing => tasks[h].pr \in approved

\* A handler about to merge has seen green checks, which are final.
Green == \A h \in Handlers :
    At(h, "merge") \/ (At(h, "save") /\ tasks[h].status = "merging")
      => ci[tasks[h].pr][tasks[h].head] = "green"

Inv == TypeOK /\ Bounded /\ Rebooting /\ Approved /\ Green

\* The initial state satisfies the invariant.
LEMMA InitInv == Init => Inv
  <1> SUFFICES ASSUME Init PROVE Inv
    OBVIOUS
  <1>1. TypeOK
    BY IdleType, LimitAssumption DEF Init, TypeOK, PullRequest, Heads
  <1>2. Queued = {} /\ \A h \in Handlers : tasks[h] = Idle
    BY DEF Init, Queued
  <1> QED
    BY <1>1, <1>2 DEF Inv, Init, Bounded, Rebooting, Approved, Green, At, Idle, Landing

\* The task of one handler satisfies its part of the invariant.
Fine(t) ==
    /\ t.pc = "update" => t.attempt < MaxCycles
    /\ t.pc \in Landing => t.pr \in approved
    /\ t.pc = "merge" \/ (t.pc = "save" /\ t.status = "merging") => ci[t.pr][t.head] = "green"

\* A handler's step leaves the tasks of the others alone.
Mine(h) == \A g \in Handlers \ {h} : tasks'[g] = tasks[g]

\* Starting over and ending leave a fine task.
LEMMA RestFine ==
    ASSUME TypeOK, NEW h \in Handlers, Kick(h) \/ Ends(h)
    PROVE  Mine(h) /\ Fine(tasks'[h])
  BY DEF TypeOK, Kick, Ends, Idle, Mine, Fine, Landing

\* So does going on with the same pull request, when it is approved.
LEMMA TurnFine ==
    ASSUME TypeOK, NEW h \in Handlers, NEW pc \in Pcs \ {"update", "merge", "save"},
           pc \in Landing => tasks[h].pr \in approved, Turn(h, pc)
    PROVE  Mine(h) /\ Fine(tasks'[h])
  <1>1. tasks' = [tasks EXCEPT ![h] = [Idle EXCEPT !.pc = pc, !.pr = tasks[h].pr]]
    BY DEF Turn
  <1>2. /\ tasks'[h].pc = pc /\ tasks'[h].pr = tasks[h].pr
        /\ \A g \in Handlers \ {h} : tasks'[g] = tasks[g]
    BY <1>1 DEF TypeOK, Idle
  <1> QED
    BY <1>2 DEF Mine, Fine

\* And deciding what to save, when that is not a merge or the checks are green.
LEMMA SaveFine ==
    ASSUME TypeOK, NEW h \in Handlers, NEW status, NEW attempt,
           tasks[h].pr \in approved, SaveAs(h, status, attempt),
           status = "merging" => ci[tasks[h].pr][tasks[h].head] = "green"
    PROVE  Mine(h) /\ Fine(tasks'[h])
  <1>1. /\ tasks'[h].pc = "save" /\ tasks'[h].status = status
        /\ tasks'[h].pr = tasks[h].pr /\ tasks'[h].head = tasks[h].head
        /\ \A g \in Handlers \ {h} : tasks'[g] = tasks[g]
    BY DEF SaveAs, TypeOK, Task
  <1> QED
    BY <1>1 DEF Mine, Fine

\* Every step of a handler leaves it with a fine task.
LEMMA HandleFine ==
    ASSUME Inv, NEW h \in Handlers, Handle(h)
    PROVE  Mine(h) /\ Fine(tasks'[h])
  <1> USE DEF Inv, At
  <1>0. tasks[h].pc \in Landing => tasks[h].pr \in approved
    BY DEF Approved
  <1>1. ASSUME NEW e \in inbox, Receive(h, e) PROVE Mine(h) /\ Fine(tasks'[h])
    <2>1. e.kind = "approval" => e.pr \in approved
      BY DEF Approved
    <2>2. /\ tasks'[h].pc = (IF e.kind = "approval" THEN "enqueue" ELSE "evaluate")
          /\ tasks'[h].pr = e.pr
          /\ \A g \in Handlers \ {h} : tasks'[g] = tasks[g]
      BY <1>1 DEF Receive, TypeOK, Idle
    <2> QED
      BY <2>1, <2>2 DEF Mine, Fine, Landing
  <1>2. CASE Evaluate(h) \/ Promote(h) \/ Bounce(h)
    <2>1. \/ Turn(h, "promote") \/ Turn(h, "bounce") \/ Turn(h, "green")
          \/ Turn(h, "red") \/ Ends(h)
      BY <1>2 DEF Evaluate, Promote, Bounce
    <2> QED
      BY <2>1, RestFine, TurnFine DEF Pcs, Landing
  <1>3. CASE OnCiGreen(h) \/ OnCiRed(h) \/ EnqueueInserts(h) \/ Drop(h) \/ HandlerStops(h)
    BY <1>3, RestFine DEF OnCiGreen, OnCiRed, EnqueueInserts, Drop, HandlerStops
  <1>4. CASE EnqueueReads(h)
    <2>1. tasks[h].pr \in approved
      BY <1>0, <1>4 DEF EnqueueReads, Landing
    <2>2. CASE Ends(h)
      BY <2>2, RestFine
    <2>3. CASE tasks' = [tasks EXCEPT ![h].pc = "insert", ![h].head = pr[tasks[h].pr].head]
      <3>1. /\ tasks'[h].pc = "insert" /\ tasks'[h].pr = tasks[h].pr
            /\ \A g \in Handlers \ {h} : tasks'[g] = tasks[g]
        BY <2>3 DEF TypeOK, Task
      <3> QED
        BY <2>1, <3>1 DEF Mine, Fine
    <2> QED
      BY <1>4, <2>2, <2>3 DEF EnqueueReads
  <1>5. CASE PickHead(h)
    <2>1. CASE Ends(h)
      BY <2>1, RestFine
    <2>2. ASSUME NEW p \in Queued,
                 tasks' = [tasks EXCEPT ![h] = [Idle EXCEPT !.pc = "read", !.pr = p,
                                                            !.attempt = queue[p].attempt]]
          PROVE  Mine(h) /\ Fine(tasks'[h])
      <3>1. /\ tasks'[h].pc = "read" /\ tasks'[h].pr = p
            /\ \A g \in Handlers \ {h} : tasks'[g] = tasks[g]
        BY <2>2 DEF TypeOK, Idle
      <3> QED
        BY <3>1 DEF Mine, Fine, Approved
    <2> QED
      BY <1>5, <2>1, <2>2 DEF PickHead
  <1>6. CASE ReadPullRequest(h)
    <2> DEFINE p == tasks[h].pr
               go(pc) == tasks' = [tasks EXCEPT ![h].pc = pc, ![h].head = pr[p].head]
               wait == tasks' = [tasks EXCEPT ![h].pc = "save", ![h].head = pr[p].head,
                                              ![h].status = "awaiting_ci"]
    <2>1. p \in approved
      BY <1>0, <1>6 DEF ReadPullRequest, Landing
    <2>2. Turn(h, "drop") \/ Turn(h, "park") \/ (go("update") /\ ~Exhausted(h)) \/ go("checks") \/ wait
      BY <1>6 DEF ReadPullRequest
    <2>3. CASE Turn(h, "drop") \/ Turn(h, "park")
      BY <2>1, <2>3, TurnFine DEF Pcs
    <2>4. ASSUME NEW pc \in {"update", "checks"}, go(pc), pc = "update" => ~Exhausted(h)
          PROVE  Mine(h) /\ Fine(tasks'[h])
      <3>1. /\ tasks'[h].pc = pc /\ tasks'[h].pr = p /\ tasks'[h].attempt = tasks[h].attempt
            /\ \A g \in Handlers \ {h} : tasks'[g] = tasks[g]
        BY <2>4 DEF TypeOK, Task
      <3>2. pc = "update" => tasks[h].attempt < MaxCycles
        BY <2>4, LimitAssumption DEF Exhausted, TypeOK, Task
      <3> QED
        BY <2>1, <3>1, <3>2 DEF Mine, Fine
    <2>5. CASE wait
      <3>1. /\ tasks'[h].pc = "save" /\ tasks'[h].pr = p /\ tasks'[h].status = "awaiting_ci"
            /\ \A g \in Handlers \ {h} : tasks'[g] = tasks[g]
        BY <2>5 DEF TypeOK, Task
      <3> QED
        BY <2>1, <3>1 DEF Mine, Fine
    <2> QED
      BY <2>2, <2>3, <2>4, <2>5
  <1>7. CASE UpdateBranch(h) \/ CheckHead(h) \/ MergeRefused(h)
    <2>1. tasks[h].pr \in approved
      BY <1>0, <1>7 DEF UpdateBranch, CheckHead, MergeRefused, Landing
    <2>2. \/ Turn(h, "park") \/ Turn(h, "drop")
          \/ \E status, attempt :
               /\ SaveAs(h, status, attempt)
               /\ status = "merging" => ci[tasks[h].pr][tasks[h].head] = "green"
      <3>1. CASE UpdateBranch(h)
        BY <3>1 DEF UpdateBranch
      <3>2. CASE CheckHead(h)
        BY <3>2 DEF CheckHead
      <3>3. CASE MergeRefused(h)
        BY <3>3 DEF MergeRefused
      <3> QED
        BY <1>7, <3>1, <3>2, <3>3
    <2> QED
      BY <2>1, <2>2, TurnFine, SaveFine DEF Pcs
  <1>8. CASE SaveRow(h)
    <2>1. CASE Ends(h)
      BY <2>1, RestFine
    <2>2. CASE Goto(h, "merge") /\ tasks[h].status = "merging"
      <3>1. tasks[h].pr \in approved /\ ci[tasks[h].pr][tasks[h].head] = "green"
        BY <1>0, <1>8, <2>2 DEF SaveRow, Landing, Green
      <3>2. /\ tasks'[h].pc = "merge" /\ tasks'[h].pr = tasks[h].pr /\ tasks'[h].head = tasks[h].head
            /\ \A g \in Handlers \ {h} : tasks'[g] = tasks[g]
        BY <2>2 DEF Goto, TypeOK, Task
      <3> QED
        BY <3>1, <3>2 DEF Mine, Fine
    <2> QED
      BY <1>8, <2>1, <2>2 DEF SaveRow
  <1>9. CASE MergeLands(h) \/ Park(h)
    <2>1. tasks[h].pr \in approved /\ Turn(h, "drop")
      BY <1>0, <1>9 DEF MergeLands, Park, Landing
    <2> QED
      BY <2>1, TurnFine DEF Pcs
  <1> QED
    BY <1>1, <1>2, <1>3, <1>4, <1>5, <1>6, <1>7, <1>8, <1>9 DEF Handle

\* A check of the boot reconciliation deletes at most the row of a pull request
\* that is not open, and changes no other row and no attempt count.
LEMMA BootQueue ==
    ASSUME TypeOK, NEW p \in PRs, p \in Queued, BootCheck(p) \/ BootCheckFails(p)
    PROVE  /\ Queued' \subseteq Queued /\ Queued \ {p} \subseteq Queued'
           /\ p \in Open => p \in Queued'
           /\ \A o \in Queued' : queue'[o].attempt = queue[o].attempt
  <1> DEFINE row == [queue[p] EXCEPT !.head = pr[p].head, !.status = "awaiting_ci"]
  <1>1. CASE UNCHANGED queue
    BY <1>1 DEF Queued
  <1>2. CASE Dequeue(p) /\ pr[p].state # "open"
    BY <1>2, DequeueType DEF Open
  <1>3. CASE WriteRow(p, row)
    <2>1. queue[p] \in Row /\ pr[p] \in PullRequest
      BY DEF Queued, TypeOK
    <2>2. row \in Row /\ row.attempt = queue[p].attempt
      BY <2>1 DEF Row, PullRequest, Statuses
    <2> HIDE DEF row
    <2> QED
      BY <1>3, <2>2, WriteType
  <1> QED
    BY <1>1, <1>2, <1>3 DEF BootCheck, BootCheckFails

\* A handler's step queues nothing unapproved and leaves what it does not own.
LEMMA HandleQueue ==
    ASSUME Inv, NEW h \in Handlers, Handle(h)
    PROVE  /\ boot # "reconcile" /\ UNCHANGED <<ci, approved, boot, recheck>>
           /\ inbox' \subseteq inbox
           /\ Queued' \subseteq approved
  <1> USE DEF Inv, At
  <1>1. /\ UNCHANGED <<ci, approved, boot, recheck>> /\ inbox' \subseteq inbox
        /\ boot = "serving" \/ ~At(h, "idle")
    BY DEF Handle, Receive, Evaluate, Promote, Bounce, OnCiGreen, OnCiRed, EnqueueReads,
           EnqueueInserts, PickHead, ReadPullRequest, UpdateBranch, CheckHead, SaveRow,
           MergeLands, MergeRefused, Park, Drop, HandlerStops, github
  <1>2. boot # "reconcile"
    BY <1>1 DEF Rebooting
  <1>3. Queued' \subseteq approved
    <2> USE DEF Approved
    <2>1. CASE UNCHANGED queue
      BY <2>1 DEF Queued
    <2>2. CASE OnCiRed(h) \/ Drop(h)
      <3>1. tasks[h].pc \in Working /\ Dequeue(tasks[h].pr)
        BY <2>2 DEF OnCiRed, Drop, Working, Pcs
      <3> QED
        BY <3>1, WorkedOn, DequeueType
    <2>3. CASE EnqueueInserts(h) \/ SaveRow(h)
      <3> DEFINE t == tasks[h]
      <3>1. t.pc \in Working /\ t.pc \in Landing
        BY <2>3 DEF EnqueueInserts, SaveRow, Working, Pcs, Landing
      <3>2. t \in Task /\ t.pr \in PRs /\ t.pr \in approved
        BY <3>1, WorkedOn
      <3>3. \A status \in Statuses, attempt \in 0..MaxCycles :
              [head |-> t.head, status |-> status, attempt |-> attempt, at |-> 0] \in Row
        BY <3>2, PullRequestAssumption, FS_CardinalityType DEF Task, Row
      <3>4. \/ UNCHANGED queue
            \/ WriteRow(t.pr, [head |-> t.head, status |-> "queued", attempt |-> 0, at |-> 0])
            \/ WriteRow(t.pr, [head |-> t.head, status |-> t.status, attempt |-> t.attempt, at |-> 0])
        BY <2>3 DEF EnqueueInserts, SaveRow
      <3>5. "queued" \in Statuses /\ 0 \in 0..MaxCycles /\ t.status \in Statuses /\ t.attempt \in 0..MaxCycles
        BY <3>2, LimitAssumption DEF Task, Statuses
      <3>6. UNCHANGED queue \/ \E row \in Row : WriteRow(t.pr, row)
        BY <3>3, <3>4, <3>5
      <3> QED
        BY <2>1, <3>2, <3>6, WriteType
    <2> QED
      BY <2>1, <2>2, <2>3 DEF Handle, Receive, Evaluate, Promote, Bounce, OnCiGreen,
         EnqueueReads, PickHead, ReadPullRequest, UpdateBranch, CheckHead,
         MergeLands, MergeRefused, Park, HandlerStops
  <1> QED
    BY <1>1, <1>2, <1>3

\* Every step of a handler preserves the invariant.
LEMMA HandleInv ==
    ASSUME Inv, NEW h \in Handlers, Handle(h)
    PROVE  Inv'
  <1>1. Mine(h) /\ Fine(tasks'[h])
    BY HandleFine
  <1>2. /\ boot # "reconcile" /\ UNCHANGED <<ci, approved, boot, recheck>>
        /\ inbox' \subseteq inbox /\ Queued' \subseteq approved
    BY HandleQueue
  <1>3. TypeOK'
    BY NextType DEF Inv, Next
  <1>4. Bounded' /\ Green'
    BY <1>1, <1>2 DEF Inv, Mine, Fine, Bounded, Green, At
  <1>5. Approved'
    BY <1>1, <1>2 DEF Inv, Mine, Fine, Approved
  <1>6. Rebooting'
    BY <1>2 DEF Rebooting
  <1> QED
    BY <1>3, <1>4, <1>5, <1>6 DEF Inv

\* A restart and the boot reconciliation preserve it.
LEMMA BootInv ==
    ASSUME Inv, Boot
    PROVE  Inv'
  <1> USE DEF github
  <1>1. TypeOK'
    BY NextType DEF Inv, Next
  <1>2. CASE Crash
    <2>1. /\ \A h \in Handlers : tasks'[h] = Idle
          /\ recheck' = Queued /\ Queued' = Queued
          /\ UNCHANGED <<inbox, approved>>
      BY <1>2 DEF Crash, Queued
    <2> QED
      BY <1>1, <2>1 DEF Inv, Bounded, Rebooting, Approved, Green, At, Idle, Landing
  <1>3. CASE BootServes
    <2>1. boot' = "serving" /\ UNCHANGED <<ci, inbox, approved, queue, tasks>>
      BY <1>3 DEF BootServes
    <2> QED
      BY <1>1, <2>1 DEF Inv, Bounded, Rebooting, Approved, Green, At, Queued
  <1>4. ASSUME NEW h \in Handlers, BootKick(h) PROVE Inv'
    <2>1. Mine(h) /\ Fine(tasks'[h])
      BY <1>4, RestFine DEF BootKick, Inv
    <2>2. boot' = "kick" /\ UNCHANGED <<ci, inbox, approved, queue>>
      BY <1>4 DEF BootKick
    <2> QED
      BY <1>1, <2>1, <2>2 DEF Inv, Mine, Fine, Bounded, Rebooting, Approved, Green, At, Queued
  <1>5. ASSUME NEW p \in recheck, BootCheck(p) \/ BootCheckFails(p) PROVE Inv'
    <2>1. /\ recheck' = recheck \ {p} /\ boot = "reconcile"
          /\ UNCHANGED <<ci, inbox, approved, tasks, boot>>
      BY <1>5 DEF BootCheck, BootCheckFails
    <2>2. p \in PRs /\ p \in Queued
      BY <2>1 DEF Inv, TypeOK, Rebooting
    <2>3. Queued' \subseteq Queued /\ Queued \ {p} \subseteq Queued'
      BY <1>5, <2>2, BootQueue DEF Inv
    <2> QED
      BY <1>1, <2>1, <2>3 DEF Inv, Bounded, Rebooting, Approved, Green, At
  <1> QED
    BY <1>2, <1>3, <1>4, <1>5 DEF Boot

\* So do GitHub and its users.
LEMMA GitHubInv ==
    ASSUME Inv, GitHub
    PROVE  Inv'
  <1> USE DEF others
  <1>1. TypeOK'
    BY NextType DEF Inv, Next
  <1>2. UNCHANGED <<queue, tasks, boot, recheck>> /\ approved \subseteq approved'
    BY DEF GitHub, Approve, Push, HumanFinishes, ChecksStart, ChecksReport, BasePushed,
           DeliveryLost, github
  <1>3. \A p \in PRs, k \in Heads : ci[p][k] = "green" => ci'[p][k] = "green"
    <2>1. CASE UNCHANGED ci
      BY <2>1
    <2>2. ASSUME NEW p \in PRs, NEW k \in Heads, ChecksStart(p, k) \/ ChecksReport(p, k)
          PROVE  \A q \in PRs, j \in Heads : ci[q][j] = "green" => ci'[q][j] = "green"
      <3>1. ci[p][k] # "green" /\ \E seen : ci' = [ci EXCEPT ![p][k] = seen]
        BY <2>2 DEF ChecksStart, ChecksReport
      <3> QED
        BY <3>1 DEF Inv, TypeOK
    <2> QED
      BY <2>1, <2>2 DEF GitHub, Approve, Push, HumanFinishes, BasePushed, DeliveryLost, github
  <1>4. \A e \in inbox' : e.kind = "approval" => e \in inbox \/ e.pr \in approved'
    <2>1. ASSUME NEW p \in PRs, Approve(p)
          PROVE  \A e \in inbox' : e.kind = "approval" => e \in inbox \/ e.pr \in approved'
      BY <2>1 DEF Approve, Sends
    <2>2. ASSUME NEW p \in PRs, NEW k \in Heads, ChecksReport(p, k)
          PROVE  \A e \in inbox' : e.kind = "approval" => e \in inbox \/ e.pr \in approved'
      BY <2>2 DEF ChecksReport, Sends
    <2>3. CASE inbox' \subseteq inbox
      BY <2>3
    <2> QED
      BY <2>1, <2>2, <2>3 DEF GitHub, Push, HumanFinishes, ChecksStart, BasePushed, DeliveryLost
  <1>5. Bounded' /\ Rebooting'
    BY <1>2 DEF Inv, Bounded, Rebooting, At, Queued
  <1>6. Approved'
    BY <1>2, <1>4 DEF Inv, Approved, Queued
  <1>7. Green'
    <2>1. ASSUME NEW h \in Handlers, At(h, "merge") \/ At(h, "save")
          PROVE  tasks[h].pr \in PRs /\ tasks[h].head \in Heads
      BY <2>1, WorkedOn DEF Inv, At, Working, Pcs, Task
    <2> QED
      BY <1>2, <1>3, <2>1 DEF Inv, Green, At
  <1> QED
    BY <1>1, <1>5, <1>6, <1>7 DEF Inv

\* The invariant is inductive.
LEMMA NextInv == Inv /\ [Next]_vars => Inv'
  <1> SUFFICES ASSUME Inv, [Next]_vars PROVE Inv'
    OBVIOUS
  <1>1. CASE Next
    BY <1>1, HandleInv, BootInv, GitHubInv DEF Next
  <1>2. CASE UNCHANGED vars
    BY <1>2 DEF vars, Inv, TypeOK, Bounded, Rebooting, Approved, Green, At, Queued
  <1> QED
    BY <1>1, <1>2

-----------------------------------------------------------------------------
\* Every reachable state satisfies the invariant.
THEOREM Invariance == Spec => []Inv
  BY InitInv, NextInv, PTL DEF Spec

\* Every reachable state is well typed; in particular no landing is given more
\* update cycles than max_update_cycles by a handler that read its row.
THEOREM TypeCorrect == Spec => []TypeOK
  <1>1. Inv => TypeOK
    BY DEF Inv
  <1> QED
    BY <1>1, Invariance, PTL

\* Whatever order approvals, CI events, restarts and concurrent kicks come in,
\* the coordinator merges nothing that no human approved.
THEOREM ApprovedCorrect == Spec => LandsOnlyApproved
  <1>1. Inv => (\A h \in Handlers : MergeLands(h) => tasks[h].pr \in approved)
    BY DEF Inv, Approved, MergeLands, At, Landing
  <1> QED
    BY <1>1, Invariance, PTL DEF LandsOnlyApproved

\* When the base moves on with the merge of one pull request, no other one is
\* merged by that step.
LEMMA BaseMerges ==
    ASSUME TypeOK, NEW except \in SUBSET PRs, NEW state, BaseMoves(except, state),
           NEW p \in PRs \ except
    PROVE  pr'[p].state = pr[p].state
  <1>1. PICK hit \in SUBSET (Open \ except) :
          pr' = [q \in PRs |->
                   IF q \in except THEN Finished(q, state)
                   ELSE IF q \in Open
                     THEN [pr[q] EXCEPT !.behind = TRUE, !.conflict = pr[q].conflict \/ q \in hit]
                     ELSE pr[q]]
    BY DEF BaseMoves
  <1>2. pr[p] \in PullRequest
    BY DEF TypeOK
  <1>3. pr'[p] = IF p \in Open
                   THEN [pr[p] EXCEPT !.behind = TRUE, !.conflict = pr[p].conflict \/ p \in hit]
                   ELSE pr[p]
    BY <1>1
  <1> QED
    BY <1>2, <1>3 DEF PullRequest

\* What a merge by a handler lands: the property LandsOnlyGreen, of one step.
LandsGreen ==
    \A p \in PRs :
      pr[p].state = "open" /\ pr'[p].state = "merged"
        /\ (\E h \in Handlers : At(h, "merge") /\ tasks[h].pr = p /\ tasks'[h].pc = "drop")
      => ci[p][pr[p].head] = "green"

\* Every step lands only green commits.
LEMMA NextGreen ==
    ASSUME Inv, [Next]_vars
    PROVE  LandsGreen
  <1> USE DEF LandsGreen, Inv, At
  <1>1. CASE UNCHANGED tasks
    BY <1>1
  <1>2. CASE UNCHANGED pr
    BY <1>2
  <1>3. ASSUME NEW h \in Handlers, UpdateBranch(h) PROVE LandsGreen
    <2>1. \A g \in Handlers : tasks[g].pc = "merge" => tasks'[g] = tasks[g]
      <3>1. Mine(h) /\ tasks[h].pc = "update"
        BY <1>3, HandleFine DEF Handle, UpdateBranch
      <3> QED
        BY <3>1 DEF Mine
    <2> QED
      BY <2>1
  <1>4. ASSUME NEW h \in Handlers, MergeLands(h) PROVE LandsGreen
    <2>1. Mine(h)
      BY <1>4, HandleFine DEF Handle
    <2>2. ci[tasks[h].pr][pr[tasks[h].pr].head] = "green"
      BY <1>4 DEF MergeLands, Green
    <2> QED
      BY <2>1, <2>2 DEF Mine
  <1>5. UNCHANGED pr \/ UNCHANGED tasks \/ \E h \in Handlers : UpdateBranch(h) \/ MergeLands(h)
    <2>1. CASE UNCHANGED vars
      BY <2>1 DEF vars
    <2>2. CASE GitHub
      BY <2>2 DEF GitHub, Approve, Push, HumanFinishes, ChecksStart, ChecksReport, BasePushed,
           DeliveryLost, others
    <2>3. CASE Boot
      BY <2>3 DEF Boot, Crash, BootCheck, BootCheckFails, BootKick, BootServes, github
    <2>4. ASSUME NEW h \in Handlers, Handle(h)
          PROVE  UNCHANGED pr \/ UpdateBranch(h) \/ MergeLands(h)
      BY <2>4 DEF Handle, Receive, Evaluate, Promote, Bounce, OnCiGreen, OnCiRed, EnqueueReads,
           EnqueueInserts, PickHead, ReadPullRequest, CheckHead, SaveRow,
           MergeRefused, Park, Drop, HandlerStops, github
    <2> QED
      BY <2>1, <2>2, <2>3, <2>4 DEF Next
  <1> QED
    BY <1>1, <1>2, <1>3, <1>4, <1>5

\* The commit that lands is one whose required checks are green, although the
\* branch may move between the check and the merge.
THEOREM GreenCorrect == Spec => LandsOnlyGreen
  <1>1. Inv /\ [Next]_vars => LandsGreen
    BY NextGreen
  <1>2. [][LandsGreen]_vars => LandsOnlyGreen
    BY PTL DEF LandsOnlyGreen, LandsGreen
  <1> QED
    BY <1>1, <1>2, Invariance, PTL DEF Spec

\* What a step of the boot reconciliation keeps: LandingSurvivesRestart, of one step.
Survives ==
    boot = "reconcile" =>
      \A p \in Queued \cap Open : p \in Queued' /\ queue'[p].attempt = queue[p].attempt

\* No step while the reconciliation runs loses a landing of an open pull request.
LEMMA NextSurvives ==
    ASSUME Inv, [Next]_vars
    PROVE  Survives
  <1> SUFFICES ASSUME boot = "reconcile" PROVE Survives
    BY DEF Survives
  <1>1. CASE UNCHANGED queue
    BY <1>1 DEF Survives, Queued
  <1>2. ASSUME NEW p \in recheck, BootCheck(p) \/ BootCheckFails(p) PROVE Survives
    <2>1. p \in PRs /\ p \in Queued
      BY DEF Inv, TypeOK, Rebooting
    <2> QED
      BY <1>2, <2>1, BootQueue DEF Inv, Survives
  <1>3. ~ \E h \in Handlers : Handle(h)
    BY HandleQueue
  <1>4. UNCHANGED queue \/ \E p \in recheck : BootCheck(p) \/ BootCheckFails(p)
    <2>1. CASE UNCHANGED vars
      BY <2>1 DEF vars
    <2>2. CASE GitHub
      BY <2>2 DEF GitHub, Approve, Push, HumanFinishes, ChecksStart, ChecksReport, BasePushed,
           DeliveryLost, others
    <2>3. CASE Boot
      BY <2>3 DEF Boot, Crash, BootKick, BootServes
    <2> QED
      BY <1>3, <2>1, <2>2, <2>3 DEF Next
  <1> QED
    BY <1>1, <1>2, <1>4

\* A restart loses no landing of an open pull request and forgets none of its
\* update cycles, whichever GitHub calls of the reconciliation fail.
THEOREM RestartCorrect == Spec => LandingSurvivesRestart
  <1>1. Inv /\ [Next]_vars => Survives
    BY NextSurvives
  <1>2. [][Survives]_vars => LandingSurvivesRestart
    BY PTL DEF LandingSurvivesRestart, Survives
  <1> QED
    BY <1>1, <1>2, Invariance, PTL DEF Spec

=============================================================================
