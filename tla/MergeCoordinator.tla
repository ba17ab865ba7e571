--------------------------- MODULE MergeCoordinator ---------------------------
(***************************************************************************)
(* The bridge's merge coordinator for one repository: landing rows in the  *)
(* store, webhook handlers that advance the head of that queue, and the    *)
(* boot reconciliation.  Nothing serialises the handlers, so every await   *)
(* (a store statement, a GitHub or tracker call) is an action of its own;  *)
(* what a handler read before it travels in its task record.               *)
(*                                                                         *)
(* GitHub is external: pull requests, check runs and the base branch move  *)
(* at any time, deliveries may be late or lost, any call may fail before   *)
(* or after it took effect, and mergeability may be unknown.               *)
(***************************************************************************)
EXTENDS Integers, FiniteSets

CONSTANTS
    PRs,          \* tracker-linked pull requests of the repository
    Number,       \* pull request -> its number
    Handlers,     \* webhook handlers the server runs at once
    MaxCycles,    \* merge_coordinator.max_update_cycles
    Strict,       \* branch protection asks for branches that are up to date
    MaxHead,      \* bound: commits pushed to a branch
    MaxInbox,     \* bound: webhook deliveries on their way at once
    NoPR, NoRow

Heads    == 0..MaxHead
Statuses == {"queued", "updating", "awaiting_ci", "merging"}
Row  == [head: Heads, status: Statuses, attempt: 0..MaxCycles, at: 0..Cardinality(PRs)]
Pcs == {"idle", "enqueue", "insert", "evaluate", "promote", "bounce", "green", "red",
        "head", "read", "update", "checks", "merge", "park", "drop", "save"}
Task == {t \in [pc: Pcs, pr: PRs \cup {NoPR}, head: Heads, attempt: 0..MaxCycles, status: Statuses] :
           t.pr \in PRs \/ t.pc \in {"idle", "head"}}
PullRequest == [state: {"open", "merged", "closed"}, head: Heads,
                behind: BOOLEAN, conflict: BOOLEAN]
Event == [kind: {"approval", "ci"}, pr: PRs, head: Heads]

ASSUME PullRequestAssumption ==
    /\ IsFiniteSet(PRs) /\ Number \in [PRs -> Nat]
    /\ \A p, q \in PRs : Number[p] = Number[q] => p = q
ASSUME LimitAssumption == MaxCycles \in Nat /\ MaxHead \in Nat /\ MaxInbox \in Nat /\ Strict \in BOOLEAN
ASSUME NoneAssumption == NoPR \notin PRs /\ NoRow \notin Row

VARIABLES
    pr,        \* GitHub: pull request -> state, head, behind the base, in conflict with it
    ci,        \* GitHub: pull request -> head -> what its required checks report
    inbox,     \* webhook deliveries on their way
    approved,  \* history: pull requests a human has approved
    ticket,    \* tracker: pull request -> "review" or "fixes"
    queue,     \* the landing_queue table
    tasks,     \* handler -> the task it runs
    boot,      \* "reconcile", "kick" or "serving"
    recheck    \* rows the boot reconciliation has still to look at

github == <<pr, ci, approved>>
vars   == <<pr, ci, inbox, approved, ticket, queue, tasks, boot, recheck>>

Idle   == [pc |-> "idle", pr |-> NoPR, head |-> 0, attempt |-> 0, status |-> "queued"]
Queued == {p \in PRs : queue[p] # NoRow}
Open   == {p \in PRs : pr[p].state = "open"}

\* The row list_landings returns first: the one updated longest ago.
IsHead(p) ==
    /\ p \in Queued
    /\ \A o \in Queued \ {p} :
         \/ queue[p].at < queue[o].at
         \/ queue[p].at = queue[o].at /\ Number[p] < Number[o]

\* updated_at keeps whole seconds; only the order of its values matters.
Dense(q) ==
    LET in == {p \in PRs : q[p] # NoRow}
    IN [p \in PRs |-> IF p \in in
          THEN [q[p] EXCEPT !.at = Cardinality({q[o].at : o \in {x \in in : q[x].at < q[p].at}})]
          ELSE NoRow]

\* Row p is written now: in the second of the latest other write, or later.
WriteRow(p, row) ==
    \E now \in 0..Cardinality(PRs) :
        /\ \A o \in Queued \ {p} : queue[o].at <= now
        /\ queue' = Dense([queue EXCEPT ![p] = [row EXCEPT !.at = now]])

Dequeue(p) == queue' = Dense([queue EXCEPT ![p] = NoRow])

At(h, pc) == tasks[h].pc = pc
\* What was read before serves the next step, or is forgotten.
Goto(h, pc) == tasks' = [tasks EXCEPT ![h].pc = pc]
Turn(h, pc) == tasks' = [tasks EXCEPT ![h] = [Idle EXCEPT !.pc = pc, !.pr = tasks[h].pr]]
Kick(h) == tasks' = [tasks EXCEPT ![h] = [Idle EXCEPT !.pc = "head"]]
Ends(h) == tasks' = [tasks EXCEPT ![h] = Idle]

\* The handler will write its row with this status and attempt count.
SaveAs(h, status, attempt) ==
    tasks' = [tasks EXCEPT ![h].pc = "save", ![h].status = status, ![h].attempt = attempt]

(***************************************************************************)
(* Deliveries: webhook::handlers.                                          *)
(***************************************************************************)
Receive(h, e) ==
    /\ boot = "serving" /\ At(h, "idle") /\ e \in inbox
    /\ inbox' = inbox \ {e}
    /\ tasks' = [tasks EXCEPT ![h] =
         [Idle EXCEPT !.pc = IF e.kind = "approval" THEN "enqueue" ELSE "evaluate",
                      !.pr = e.pr, !.head = e.head]]
    /\ UNCHANGED <<github, ticket, queue, boot, recheck>>

\* evaluate_ci: the checks of the head the event names, which may be an old one.
Evaluate(h) ==
    /\ At(h, "evaluate")
    /\ LET seen == ci[tasks[h].pr][tasks[h].head] IN
        \/ seen = "green" /\ Turn(h, "promote")
        \/ seen = "red" /\ Turn(h, "bounce")
        \/ seen \in {"none", "pending"} /\ Ends(h)
    /\ UNCHANGED <<github, inbox, ticket, queue, boot, recheck>>

\* apply_green moves the ticket to the review state.
Promote(h) ==
    /\ At(h, "promote")
    /\ ticket' = [ticket EXCEPT ![tasks[h].pr] = "review"]
    /\ Turn(h, "green")
    /\ UNCHANGED <<github, inbox, queue, boot, recheck>>

\* The red path hands the ticket back (needs-fixes or, at the cap, blocked).
Bounce(h) ==
    /\ At(h, "bounce")
    /\ ticket' = [ticket EXCEPT ![tasks[h].pr] = "fixes"]
    /\ Turn(h, "red")
    /\ UNCHANGED <<github, inbox, queue, boot, recheck>>

\* A plausible bug: a green pull request enters the queue without an approval.
OnCiGreenEnqueues(h) ==
    /\ At(h, "green")
    /\ Goto(h, IF tasks[h].pr \in Queued THEN "head" ELSE "insert")
    /\ UNCHANGED <<github, inbox, ticket, queue, boot, recheck>>

OnCiGreen(h) ==
    /\ At(h, "green")
    /\ IF tasks[h].pr \in Queued THEN Kick(h) ELSE Ends(h)
    /\ UNCHANGED <<github, inbox, ticket, queue, boot, recheck>>

OnCiRed(h) ==
    /\ At(h, "red")
    /\ Dequeue(tasks[h].pr)
    /\ Kick(h)
    /\ UNCHANGED <<github, inbox, ticket, boot, recheck>>

\* enqueue_on_approval, first half: get_pull_request.
EnqueueReads(h) ==
    /\ At(h, "enqueue")
    /\ IF pr[tasks[h].pr].state = "merged" THEN Ends(h)
         ELSE tasks' = [tasks EXCEPT ![h].pc = "insert", ![h].head = pr[tasks[h].pr].head]
    /\ UNCHANGED <<github, inbox, ticket, queue, boot, recheck>>

\* Second half: INSERT ... ON CONFLICT DO NOTHING, then kick.
EnqueueInserts(h) ==
    /\ At(h, "insert")
    /\ LET p == tasks[h].pr IN
         IF p \in Queued THEN UNCHANGED queue
           ELSE WriteRow(p, [head |-> tasks[h].head, status |-> "queued", attempt |-> 0, at |-> 0])
    /\ Kick(h)
    /\ UNCHANGED <<github, inbox, ticket, boot, recheck>>

(***************************************************************************)
(* kick and advance_one.                                                   *)
(***************************************************************************)
PickHead(h) ==
    /\ At(h, "head")
    /\ \/ Queued = {} /\ Ends(h)
       \/ \E p \in Queued :
            /\ IsHead(p)
            /\ tasks' = [tasks EXCEPT ![h] = [Idle EXCEPT !.pc = "read", !.pr = p,
                                                          !.attempt = queue[p].attempt]]
    /\ UNCHANGED <<github, inbox, ticket, queue, boot, recheck>>

ExhaustedTooLate(h) == tasks[h].attempt > MaxCycles
Exhausted(h) == tasks[h].attempt >= MaxCycles

\* get_pull_request, classified.
ReadPullRequest(h) ==
    /\ At(h, "read")
    /\ LET v == pr[tasks[h].pr]
           go(pc) == tasks' = [tasks EXCEPT ![h].pc = pc, ![h].head = v.head]
           behind == Strict /\ v.behind /\ ~v.conflict
       IN \/ v.state # "open" /\ Turn(h, "drop")
          \/ v.state = "open" /\ v.conflict /\ Turn(h, "park")
          \/ v.state = "open" /\ behind /\ Exhausted(h) /\ Turn(h, "park")
          \/ v.state = "open" /\ behind /\ ~Exhausted(h) /\ go("update")
          \/ v.state = "open" /\ ~v.conflict /\ ~behind /\ go("checks")
          \/ /\ v.state = "open"        \* draft, or still computing mergeability
             /\ tasks' = [tasks EXCEPT ![h].pc = "save", ![h].head = v.head,
                                       ![h].status = "awaiting_ci"]
    /\ UNCHANGED <<github, inbox, ticket, queue, boot, recheck>>

\* update_pr_branch, conditional on the head that was read.  GitHub merges the
\* base at once, or later, which is then a Push.
UpdateBranch(h) ==
    /\ At(h, "update")
    /\ LET p == tasks[h].pr
           moved == pr[p].head # tasks[h].head
           fits == pr[p].state = "open" /\ ~pr[p].conflict
       IN \/ /\ ~moved /\ fits
             /\ \/ /\ pr[p].head < MaxHead
                   /\ pr' = [pr EXCEPT ![p].head = @ + 1, ![p].behind = FALSE]
                \/ UNCHANGED pr
             /\ SaveAs(h, "updating", tasks[h].attempt + 1)
          \/ moved /\ SaveAs(h, "awaiting_ci", tasks[h].attempt) /\ UNCHANGED pr
          \/ ~moved /\ ~fits /\ Turn(h, "park") /\ UNCHANGED pr
    /\ UNCHANGED <<ci, approved, inbox, ticket, queue, boot, recheck>>

\* list_check_run_summary of the head that was read.  Checks that are red, and
\* checks of which some have not reported at all, both relinquish the landing.
CheckHead(h) ==
    /\ At(h, "checks")
    /\ LET seen == ci[tasks[h].pr][tasks[h].head] IN
        \/ seen = "pending" /\ SaveAs(h, "awaiting_ci", tasks[h].attempt)
        \/ seen = "green" /\ SaveAs(h, "merging", tasks[h].attempt)
        \/ seen \in {"none", "red"} /\ Turn(h, "drop")
    /\ UNCHANGED <<github, inbox, ticket, queue, boot, recheck>>

\* advance_landing: a no-op when the row is gone.
SaveRow(h) ==
    /\ At(h, "save")
    /\ LET t == tasks[h] IN
        /\ IF t.pr \in Queued
             THEN WriteRow(t.pr, [head |-> t.head, status |-> t.status, attempt |-> t.attempt, at |-> 0])
             ELSE UNCHANGED queue
        /\ IF t.status = "merging" THEN Goto(h, "merge") ELSE Ends(h)
    /\ UNCHANGED <<github, inbox, ticket, boot, recheck>>

\* What GitHub says of a finished pull request: no mergeability any more.
Finished(p, state) == [state |-> state, head |-> pr[p].head, behind |-> FALSE, conflict |-> FALSE]

\* The base moves on: every other open branch is behind, some in conflict.
BaseMoves(except, state) ==
    \E hit \in SUBSET (Open \ except) :
        pr' = [p \in PRs |->
                 IF p \in except THEN Finished(p, state)
                 ELSE IF p \in Open
                   THEN [pr[p] EXCEPT !.behind = TRUE, !.conflict = pr[p].conflict \/ p \in hit]
                   ELSE pr[p]]

\* A plausible bug: merge_pr without the `sha` parameter.
MergeLandsAnyHead(h) ==
    /\ At(h, "merge")
    /\ LET p == tasks[h].pr IN
        /\ p \in Open /\ ~pr[p].conflict
        /\ Strict => ~pr[p].behind
        /\ BaseMoves({p}, "merged")
    /\ Turn(h, "drop")
    /\ UNCHANGED <<ci, approved, inbox, ticket, queue, boot, recheck>>

\* merge_pr succeeds: the head is the one the handler checked.
MergeLands(h) ==
    /\ At(h, "merge")
    /\ LET p == tasks[h].pr IN
        /\ p \in Open /\ ~pr[p].conflict /\ pr[p].head = tasks[h].head
        /\ Strict => ~pr[p].behind
        /\ BaseMoves({p}, "merged")
    /\ Turn(h, "drop")
    /\ UNCHANGED <<ci, approved, inbox, ticket, queue, boot, recheck>>

\* 405 (GitHub may refuse at any time) or 409 (the head moved).
MergeRefused(h) ==
    /\ At(h, "merge")
    /\ SaveAs(h, "awaiting_ci", tasks[h].attempt)
    /\ UNCHANGED <<github, inbox, ticket, queue, boot, recheck>>

\* park: the tracker writes; labels and comment are best effort.
Park(h) ==
    /\ At(h, "park")
    /\ ticket' = [ticket EXCEPT ![tasks[h].pr] = "fixes"]
    /\ Turn(h, "drop")
    /\ UNCHANGED <<github, inbox, queue, boot, recheck>>

\* dequeue_landing; kick goes on with the next head.
Drop(h) ==
    /\ At(h, "drop")
    /\ Dequeue(tasks[h].pr)
    /\ Kick(h)
    /\ UNCHANGED <<github, inbox, ticket, boot, recheck>>

\* A call fails, its answer is lost, or the client hangs up.
HandlerStops(h) ==
    /\ ~At(h, "idle")
    /\ Ends(h)
    /\ UNCHANGED <<github, inbox, ticket, queue, boot, recheck>>

(***************************************************************************)
(* Restart: reconcile_on_boot runs before the server listens.              *)
(***************************************************************************)
Crash ==
    /\ tasks' = [h \in Handlers |-> Idle]
    /\ boot' = "reconcile"
    /\ recheck' = Queued
    /\ UNCHANGED <<github, inbox, ticket, queue>>

BootCheck(p) ==
    /\ boot = "reconcile" /\ p \in recheck
    /\ recheck' = recheck \ {p}
    /\ \/ pr[p].state # "open" /\ Dequeue(p)
       \/ /\ p \in Open /\ pr[p].head # queue[p].head
          /\ WriteRow(p, [queue[p] EXCEPT !.head = pr[p].head, !.status = "awaiting_ci"])
       \/ p \in Open /\ pr[p].head = queue[p].head /\ UNCHANGED queue
    /\ UNCHANGED <<github, inbox, ticket, tasks, boot>>

\* A plausible bug: a failed call is taken for a vanished pull request.
BootCheckDrops(p) ==
    /\ boot = "reconcile" /\ p \in recheck
    /\ recheck' = recheck \ {p}
    /\ Dequeue(p)
    /\ UNCHANGED <<github, inbox, ticket, tasks, boot>>

\* get_pull_request fails: the row stays.
BootCheckFails(p) ==
    /\ boot = "reconcile" /\ p \in recheck
    /\ recheck' = recheck \ {p}
    /\ UNCHANGED <<github, inbox, ticket, queue, tasks, boot>>

BootKick(h) ==
    /\ boot = "reconcile" /\ recheck = {}
    /\ boot' = "kick"
    /\ Kick(h)
    /\ UNCHANGED <<github, inbox, ticket, queue, recheck>>

BootServes ==
    /\ boot = "kick" /\ \A h \in Handlers : At(h, "idle")
    /\ boot' = "serving"
    /\ UNCHANGED <<github, inbox, ticket, queue, tasks, recheck>>

(***************************************************************************)
(* GitHub and its users.                                                   *)
(***************************************************************************)
others == <<ticket, queue, tasks, boot, recheck>>

\* A delivery beyond the bound is lost.
Sends(e) == inbox' = IF Cardinality(inbox) < MaxInbox THEN inbox \cup {e} ELSE inbox

Approve(p) ==
    /\ p \in Open
    /\ approved' = approved \cup {p}
    /\ Sends([kind |-> "approval", pr |-> p, head |-> 0])
    /\ UNCHANGED <<pr, ci, others>>

\* The author or the agent pushes; a merge of the base into it may come along.
Push(p) ==
    /\ p \in Open /\ pr[p].head < MaxHead
    /\ \E behind, conflict \in BOOLEAN :
        /\ (behind => pr[p].behind) /\ (conflict => behind)
        /\ pr' = [pr EXCEPT ![p] = [state |-> "open", head |-> @.head + 1,
                                    behind |-> behind, conflict |-> conflict]]
    /\ UNCHANGED <<ci, inbox, approved, others>>

ChecksStart(p, k) ==
    /\ k <= pr[p].head /\ ci[p][k] \in {"none", "red"}
    /\ ci' = [ci EXCEPT ![p][k] = "pending"]
    /\ UNCHANGED <<pr, inbox, approved, others>>

\* A suite completes; with "none", some required check has not reported yet.
ChecksReport(p, k) ==
    /\ ci[p][k] = "pending"
    /\ \E seen \in {"none", "green", "red"} : ci' = [ci EXCEPT ![p][k] = seen]
    /\ Sends([kind |-> "ci", pr |-> p, head |-> k])
    /\ UNCHANGED <<pr, approved, others>>

HumanFinishes(p) ==
    /\ p \in Open
    /\ \/ pr' = [pr EXCEPT ![p] = Finished(p, "closed")]
       \/ ~pr[p].conflict /\ BaseMoves({p}, "merged")
    /\ UNCHANGED <<ci, inbox, approved, others>>

BasePushed ==
    /\ BaseMoves({}, "open")
    /\ UNCHANGED <<ci, inbox, approved, others>>

DeliveryLost(e) ==
    /\ e \in inbox /\ inbox' = inbox \ {e}
    /\ UNCHANGED <<github, others>>

Init ==
    /\ pr = [p \in PRs |-> [state |-> "open", head |-> 0, behind |-> FALSE, conflict |-> FALSE]]
    /\ ci = [p \in PRs |-> [k \in Heads |-> "none"]]
    /\ inbox = {} /\ approved = {}
    /\ ticket = [p \in PRs |-> "review"]
    /\ queue = [p \in PRs |-> NoRow]
    /\ tasks = [h \in Handlers |-> Idle]
    /\ boot = "serving" /\ recheck = {}

Handle(h) ==
    \/ \E e \in inbox : Receive(h, e)
    \/ Evaluate(h) \/ Promote(h) \/ Bounce(h) \/ OnCiGreen(h) \/ OnCiRed(h)
    \/ EnqueueReads(h) \/ EnqueueInserts(h)
    \/ PickHead(h) \/ ReadPullRequest(h) \/ UpdateBranch(h) \/ CheckHead(h) \/ SaveRow(h)
    \/ MergeLands(h) \/ MergeRefused(h) \/ Park(h) \/ Drop(h)
    \/ HandlerStops(h)

Boot == \/ Crash \/ BootServes
        \/ \E p \in recheck : BootCheck(p) \/ BootCheckFails(p)
        \/ \E h \in Handlers : BootKick(h)

GitHub == \/ \E p \in PRs : Approve(p) \/ Push(p) \/ HumanFinishes(p)
          \/ \E p \in PRs, k \in Heads : ChecksStart(p, k) \/ ChecksReport(p, k)
          \/ BasePushed
          \/ \E e \in inbox : DeliveryLost(e)

Next == (\E h \in Handlers : Handle(h)) \/ Boot \/ GitHub

Spec == Init /\ [][Next]_vars

-----------------------------------------------------------------------------
(***************************************************************************)
(* Properties.                                                             *)
(***************************************************************************)
\* Every variable holds a value its Rust counterpart, or GitHub, can hold.
TypeOK ==
    /\ pr \in [PRs -> PullRequest]
    /\ ci \in [PRs -> [Heads -> {"none", "pending", "green", "red"}]]
    /\ inbox \subseteq Event
    /\ approved \subseteq PRs
    /\ ticket \in [PRs -> {"review", "fixes"}]
    /\ queue \in [PRs -> Row \cup {NoRow}]
    /\ tasks \in [Handlers -> Task]
    /\ boot \in {"reconcile", "kick", "serving"}
    /\ recheck \subseteq PRs

\* The coordinator merges nothing that no human approved, whatever order the
\* approvals, CI events, restarts and concurrent kicks come in (merge/mod.rs:
\* the row is the approval marker, the coordinator never self-approves).
LandsOnlyApproved ==
    [][\A h \in Handlers : MergeLands(h) => tasks[h].pr \in approved]_vars

\* The commit that lands is one whose required checks are green, although the
\* branch may move between the check and the merge (advance_ready).
LandsOnlyGreen ==
    [][\A p \in PRs :
         pr[p].state = "open" /\ pr'[p].state = "merged"
           /\ (\E h \in Handlers : At(h, "merge") /\ tasks[h].pr = p /\ tasks'[h].pc = "drop")
         => ci[p][pr[p].head] = "green"]_vars

\* A restart loses no landing of an open pull request and forgets none of its
\* update cycles: only the checks of the boot reconciliation touch the rows,
\* and a failing GitHub call drops none (reconcile_on_boot).
LandingSurvivesRestart ==
    [][boot = "reconcile" =>
         \A p \in Queued \cap Open : p \in Queued' /\ queue'[p].attempt = queue[p].attempt]_vars

\* Violated.  A landing of an open pull request leaves the queue only with its
\* ticket handed back, or with red checks, whose event hands it back.
DroppedIsHandedBack ==
    [][\A p \in Open : p \in Queued /\ p \notin Queued' =>
         ticket[p] = "fixes" \/ \E k \in Heads : ci[p][k] = "red"]_vars

\* Violated.  One landing is in flight at a time.
OneInFlight ==
    Cardinality({p \in Queued : queue[p].status \in {"updating", "merging"}}) <= 1
=============================================================================
