------------------------------- MODULE Feedback -------------------------------
(***************************************************************************)
(* The bridge's feedback loop around one ticket and its pull request: CI   *)
(* deliveries are recorded, evaluated and turned into field writes and     *)
(* transitions of the ticket, while the budget manager adds up the tokens  *)
(* of finished agent sessions and writes to the same ticket.               *)
(*                                                                         *)
(* Every call to GitHub, to the tracker or to the database is one action,  *)
(* so any two handlers interleave between calls.  On Jira a field is one   *)
(* PUT; on Linear all fields live in one comment, and writing a field      *)
(* loads the comment, changes the copy and stores it whole.                *)
(***************************************************************************)
EXTENDS Integers, Sequences, FiniteSets

CONSTANTS
    Handlers,         \* tasks of the bridge working at the same time
    MaxAttempts,      \* the highest cap: max_attempts or a ticket's override
    PromotesOnGreen,  \* feedback_loop.awaiting_review_state is set
    Kinds,            \* the CI events the webhook may be subscribed to
    MaxRuns,          \* bound: CI runs
    MaxDeliveries,    \* bound: deliveries of CI events
    NoJob,            \* an idle task
    Session,          \* the job of a session event that crossed the cap
    Debounce,         \* the job of a flush that was due
    NotLoaded, Absent \* no copy of the marker comment yet, none to be found

ASSUME BoundsAssumption ==
    /\ MaxAttempts \in Nat \ {0} /\ MaxRuns \in Nat /\ MaxDeliveries \in Nat
    /\ PromotesOnGreen \in BOOLEAN
    /\ IsFiniteSet(Kinds)

Deliveries == (1..MaxRuns) \X Kinds
Fields     == [log: BOOLEAN, category: BOOLEAN, attempts: 0..MaxAttempts]
Reading    == {"summary", "green", "red"}
Writing    == {"log", "category", "attempts", "bounce", "block",
               "promote", "labels", "tokens", "cost", "exceed"}
FieldSteps == {"log", "category", "attempts", "tokens", "cost"}
Job        == [pc: Reading \cup Writing,
               for: Deliveries \cup {Session, Debounce},
               next: 0..MaxAttempts,
               copy: Fields \cup {NotLoaded, Absent}]

ASSUME DistinctAssumption ==
    /\ NoJob \notin Job
    /\ Session # Debounce /\ {Session, Debounce} \cap Deliveries = {}
    /\ NotLoaded # Absent /\ {NotLoaded, Absent} \cap Fields = {}

VARIABLES
    marker,      \* the tracker keeps the fields in a marker comment (Linear)
    cap,         \* the attempts this ticket has: its override or the default
    ticket,      \* the ticket's workflow state
    fields,      \* the sinfonia_* fields a reader of the ticket finds
    comment,     \* the marker comment exists
    runs,        \* CI runs in the order they started: the commit, named by the
                 \* first run on it, and the result
    linked,      \* pr_ticket_map names the ticket of the pull request
    mail,        \* CI deliveries GitHub has not had a 2xx answer to
    recorded,    \* processed_deliveries
    jobs,        \* what each task is doing
    overlapped,  \* history: two writers of the ticket were active together
    bounces      \* history: until then, bounces to needs-fixes since a reset

ticketVars == <<ticket, fields, comment>>
github     == <<runs, linked>>
inbox      == <<mail, recorded>>
config     == <<marker, cap>>
history    == <<bounces, overlapped>>
vars == <<marker, cap, ticket, fields, comment, runs, linked, mail, recorded, jobs,
          bounces, overlapped>>

Active   == {"working", "fixes"}
Tickets  == Active \cup {"review", "blocked", "budget"}
Idle(h)  == jobs[h] = NoJob
At(h, p) == ~Idle(h) /\ jobs[h].pc = p
Busy     == {h \in Handlers : ~Idle(h) /\ jobs[h].pc \in Writing}

NewJob(what, p) == [pc |-> p, for |-> what, next |-> 0, copy |-> NotLoaded]
Goto(h, p)    == jobs' = [jobs EXCEPT ![h].pc = p, ![h].copy = NotLoaded]
Stop(h)       == jobs' = [jobs EXCEPT ![h] = NoJob]

\* Whether a task that starts to write finds another one writing.
NoteOverlap(h) == overlapped' = (overlapped \/ Busy \ {h} # {})

\* Answer 2xx: GitHub will not deliver again.
Answer(h) ==
    /\ Stop(h)
    /\ mail' = mail \ {jobs[h].for}
    /\ UNCHANGED recorded

(***************************************************************************)
(* A delivery arrives.                                                     *)
(***************************************************************************)
\* A plausible bug: not looking whether the delivery was seen before.
ReceiveAgain(h, d) ==
    /\ Idle(h) /\ d \in mail
    /\ recorded' = recorded \cup {d}
    /\ jobs' = [jobs EXCEPT ![h] = NewJob(d, "summary")]
    /\ UNCHANGED mail
    /\ UNCHANGED <<config, ticketVars, github, history>>

\* A redelivery is answered 2xx at once, whatever became of the first one.
Receive(h, d) ==
    /\ Idle(h) /\ d \in mail
    /\ IF d \in recorded
         THEN mail' = mail \ {d} /\ UNCHANGED <<recorded, jobs>>
         ELSE /\ recorded' = recorded \cup {d}
              /\ jobs' = [jobs EXCEPT ![h] = NewJob(d, "summary")]
              /\ UNCHANGED mail
    /\ UNCHANGED <<config, ticketVars, github, history>>

(***************************************************************************)
(* evaluate_ci and evaluate_one_pr.                                        *)
(***************************************************************************)
\* k is the last run on the commit that run r tested: its result is what
\* list_check_run_summary says of that commit.
Latest(k, r) ==
    /\ r \in DOMAIN runs /\ runs[k].head = runs[r].head
    /\ \A j \in DOMAIN runs : runs[j].head = runs[r].head => j <= k

\* All of it is read in one call; what follows uses it however old it is.
ReadSummary(h) ==
    /\ At(h, "summary")
    /\ \E k \in DOMAIN runs :
        /\ Latest(k, jobs[h].for[1])
        /\ IF runs[k].result = "pending"
             THEN Answer(h)
             ELSE Goto(h, runs[k].result) /\ UNCHANGED inbox
    /\ UNCHANGED <<config, ticketVars, github, history>>

\* The mapping of a pull request does not go away, so looking it up and acting
\* on it can be one step.
Unmapped(h) ==
    /\ At(h, "green") \/ At(h, "red")
    /\ ~linked
    /\ Answer(h)
    /\ UNCHANGED <<config, ticketVars, github, history>>

Greens(h) ==
    /\ At(h, "green") /\ linked
    /\ Goto(h, IF PromotesOnGreen THEN "promote" ELSE "labels")
    /\ NoteOverlap(h)
    /\ UNCHANGED <<config, ticketVars, github, inbox, bounces>>

\* A plausible bug: comparing with the cap one too late.
DecideOneTooMany(prior) ==
    IF prior > cap THEN [pc |-> "block", next |-> prior]
                   ELSE [pc |-> "log", next |-> prior + 1]
\* attempts::decide: the first write of the path taken and the next count.
Decide(prior) ==
    IF prior + 1 > cap THEN [pc |-> "block", next |-> prior]
                       ELSE [pc |-> "log", next |-> prior + 1]

ReadAndDecide(h) ==
    /\ At(h, "red") /\ linked
    /\ LET d == Decide(fields.attempts)
       IN  jobs' = [jobs EXCEPT ![h].pc = d.pc, ![h].next = d.next]
    /\ NoteOverlap(h)
    /\ UNCHANGED <<config, ticketVars, github, inbox, bounces>>

(***************************************************************************)
(* Writing one field.                                                      *)
(***************************************************************************)
\* The order of the writes of apply_red_below_cap, and of flush_ticket.  A
\* plausible bug: moving the ticket before everything is written.
AfterTooSoon(j) ==
    CASE j.pc = "log"      -> "bounce"
      [] j.pc = "category" -> "attempts"
      [] j.pc = "attempts" -> "bounce"
      [] j.pc = "tokens"   -> "cost"
      [] j.pc = "cost"     -> "exceed"

After(j) ==
    CASE j.pc = "log"      -> "category"
      [] j.pc = "category" -> "attempts"
      [] j.pc = "attempts" -> "bounce"
      [] j.pc = "tokens"   -> "cost"
      [] j.pc = "cost"     -> "exceed"

\* The fields e with the one of job j's present step written.
Written(e, j) ==
    CASE j.pc = "attempts"            -> [e EXCEPT !.attempts = j.next]
      [] j.pc \in {"log", "category"} -> [e EXCEPT ![j.pc] = TRUE]
      [] OTHER                        -> e

Blank == [log |-> FALSE, category |-> FALSE, attempts |-> 0]

\* The job after its field is written; a flush that was due ends with it.
Proceed(h) ==
    IF jobs[h].for = Debounce /\ jobs[h].pc = "cost"
      THEN Stop(h) ELSE Goto(h, After(jobs[h]))

LoadComment(h) ==
    /\ marker /\ ~Idle(h) /\ jobs[h].pc \in FieldSteps /\ jobs[h].copy = NotLoaded
    /\ jobs' = [jobs EXCEPT ![h].copy = IF comment THEN fields ELSE Absent]
    /\ UNCHANGED <<config, ticketVars, github, inbox, history>>

\* A writer that found no comment creates one; readers take the oldest, so a
\* second one is never read.
StoreComment(h) ==
    /\ marker /\ ~Idle(h) /\ jobs[h].pc \in FieldSteps /\ jobs[h].copy # NotLoaded
    /\ fields' = IF jobs[h].copy # Absent THEN Written(jobs[h].copy, jobs[h])
                 ELSE IF comment          THEN fields
                                          ELSE Written(Blank, jobs[h])
    /\ comment' = TRUE
    /\ Proceed(h)
    /\ UNCHANGED <<config, ticket, github, inbox, history>>

WriteField(h) ==
    /\ ~marker /\ ~Idle(h) /\ jobs[h].pc \in FieldSteps
    /\ fields' = Written(fields, jobs[h])
    /\ Proceed(h)
    /\ UNCHANGED <<config, ticket, comment, github, inbox, history>>

(***************************************************************************)
(* Moving the ticket.  None of these looks at the state it is in.          *)
(***************************************************************************)
Bounce(h) ==
    /\ At(h, "bounce")
    /\ ticket' = "fixes"
    /\ bounces' = IF overlapped THEN bounces ELSE bounces + 1
    /\ Answer(h)
    /\ UNCHANGED <<config, fields, comment, github, overlapped>>

\* A plausible bug: clearing the count of the ticket that is handed to a human.
BlockAndReset(h) ==
    /\ At(h, "block")
    /\ ticket' = "blocked"
    /\ fields' = [fields EXCEPT !.attempts = 0]
    /\ bounces' = 0
    /\ Answer(h)
    /\ UNCHANGED <<config, comment, github, overlapped>>

\* apply_cap_hit writes no field.
Block(h) ==
    /\ At(h, "block")
    /\ ticket' = "blocked"
    /\ Answer(h)
    /\ UNCHANGED <<config, fields, comment, github, history>>

Promote(h) ==
    /\ At(h, "promote")
    /\ ticket' = "review"
    /\ Goto(h, "labels")
    /\ UNCHANGED <<config, fields, comment, github, inbox, history>>

\* The labels of a green pull request, not best effort like those of a red one.
Label(h) ==
    /\ At(h, "labels")
    /\ Answer(h)
    /\ UNCHANGED <<config, ticketVars, github, history>>

Exceed(h) ==
    /\ At(h, "exceed")
    /\ ticket' = "budget"
    /\ Stop(h)
    /\ UNCHANGED <<config, fields, comment, github, inbox, history>>

(***************************************************************************)
(* Failures.                                                               *)
(***************************************************************************)
\* A call of a CI handler fails: it answers 500 and GitHub may deliver again.
CiFails(h) ==
    /\ ~Idle(h) /\ jobs[h].for \in Deliveries
    /\ Stop(h)
    /\ UNCHANGED <<config, ticketVars, github, inbox, history>>

\* A call of a flush fails, or nothing is left to flush: only the transition at
\* the cap is still tried.
FlushFails(h) ==
    /\ ~Idle(h) /\ jobs[h].for \in {Session, Debounce}
    /\ IF jobs[h].for = Session /\ jobs[h].pc # "exceed"
         THEN Goto(h, "exceed") ELSE Stop(h)
    /\ UNCHANGED <<config, ticketVars, github, inbox, history>>

\* The bridge is killed and starts again.
Restart ==
    /\ jobs' = [h \in Handlers |-> NoJob]
    /\ UNCHANGED <<config, ticketVars, github, inbox, history>>

(***************************************************************************)
(* The budget manager, as another writer of the ticket: how many tokens    *)
(* the sessions used is left out, so any session may cross the cap and a   *)
(* flush may be due at any time.                                           *)
(***************************************************************************)
SessionCrossesCap(h) ==
    /\ Idle(h)
    /\ jobs' = [jobs EXCEPT ![h] = NewJob(Session, "tokens")]
    /\ NoteOverlap(h)
    /\ UNCHANGED <<config, ticketVars, github, inbox, bounces>>

\* flush_ticket from the debounce reconciler or from a merged pull request.
FlushDue(h) ==
    /\ Idle(h)
    /\ jobs' = [jobs EXCEPT ![h] = NewJob(Debounce, "tokens")]
    /\ NoteOverlap(h)
    /\ UNCHANGED <<config, ticketVars, github, inbox, bounces>>

(***************************************************************************)
(* The agent, GitHub and humans.                                           *)
(***************************************************************************)
\* The daemon dispatches the ticket and the agent moves it.
AgentTakes ==
    /\ ticket = "fixes"
    /\ ticket' = "working"
    /\ UNCHANGED <<config, fields, comment, github, inbox, jobs, history>>

\* The agent pushes a commit; where the bridge does not promote, it may hand
\* the ticket over itself.
AgentPushes ==
    /\ ticket = "working" /\ Len(runs) < MaxRuns
    /\ runs' = Append(runs, [head |-> Len(runs) + 1, result |-> "pending"])
    /\ ticket' \in {"working"} \cup (IF PromotesOnGreen THEN {} ELSE {"review"})
    /\ UNCHANGED <<config, fields, comment, linked, inbox, jobs, history>>

\* pull_request opened, synchronize or reopened names the ticket.
Link ==
    /\ runs # <<>>
    /\ linked' = TRUE
    /\ UNCHANGED <<config, ticketVars, runs, inbox, jobs, history>>

Rerun ==
    /\ runs # <<>> /\ Len(runs) < MaxRuns
    /\ runs[Len(runs)].result # "pending"
    /\ runs' = Append(runs, [head |-> runs[Len(runs)].head, result |-> "pending"])
    /\ UNCHANGED <<config, ticketVars, linked, inbox, jobs, history>>

\* Either event may be lost or not subscribed to.
RunCompletes(r, result, sent) ==
    /\ r \in DOMAIN runs /\ runs[r].result = "pending"
    /\ runs' = [runs EXCEPT ![r].result = result]
    /\ mail' = mail \cup ({r} \X sent)
    /\ Cardinality(mail' \cup recorded) <= MaxDeliveries
    /\ UNCHANGED <<config, ticketVars, linked, recorded, jobs, history>>

\* A human sends a ticket under review back to the agent.
HumanReviews ==
    /\ ticket = "review"
    /\ ticket' = "working"
    /\ UNCHANGED <<config, fields, comment, github, inbox, jobs, history>>

\* A human puts a stopped ticket back to work, resetting the count or not.
HumanResumes(reset) ==
    /\ ticket \in {"blocked", "budget"}
    /\ ticket' = "working"
    /\ IF reset
         THEN /\ fields' = [fields EXCEPT !.attempts = 0]
              /\ bounces' = 0
              /\ overlapped' = (overlapped \/ Busy # {})
         ELSE UNCHANGED <<fields, history>>
    /\ UNCHANGED <<config, comment, github, inbox, jobs>>

(***************************************************************************)
(* The specification.                                                      *)
(***************************************************************************)
Init ==
    /\ marker \in BOOLEAN /\ cap \in 1..MaxAttempts
    /\ ticket = "working" /\ fields = Blank /\ comment = FALSE
    /\ runs = <<>> /\ linked = FALSE
    /\ mail = {} /\ recorded = {}
    /\ jobs = [h \in Handlers |-> NoJob]
    /\ bounces = 0 /\ overlapped = FALSE

CiStep(h) ==
    \/ \E d \in mail : Receive(h, d)
    \/ ReadSummary(h) \/ Unmapped(h) \/ Greens(h) \/ ReadAndDecide(h)
    \/ Bounce(h) \/ Block(h) \/ Promote(h) \/ Label(h) \/ CiFails(h)

FieldStep(h) == LoadComment(h) \/ StoreComment(h) \/ WriteField(h)

BudgetStep(h) == SessionCrossesCap(h) \/ FlushDue(h) \/ Exceed(h) \/ FlushFails(h)

Environment ==
    \/ AgentTakes \/ AgentPushes \/ Link \/ Rerun
    \/ \E r \in 1..MaxRuns, result \in {"green", "red"}, sent \in SUBSET Kinds :
         RunCompletes(r, result, sent)
    \/ HumanReviews \/ \E reset \in BOOLEAN : HumanResumes(reset)

Next ==
    \/ \E h \in Handlers : CiStep(h) \/ FieldStep(h) \/ BudgetStep(h)
    \/ Restart \/ Environment

Spec == Init /\ [][Next]_vars

(***************************************************************************)
(* Properties.                                                             *)
(***************************************************************************)
\* Every variable is well typed; among other things no reader ever finds an
\* attempt count above the cap, whatever handlers read and write concurrently.
TypeOK ==
    /\ marker \in BOOLEAN /\ cap \in 1..MaxAttempts /\ ticket \in Tickets
    /\ fields \in Fields /\ fields.attempts <= cap /\ comment \in BOOLEAN
    /\ runs \in Seq([head: 1..MaxRuns, result: {"pending", "green", "red"}])
    /\ Len(runs) <= MaxRuns /\ linked \in BOOLEAN
    /\ mail \subseteq Deliveries /\ recorded \subseteq Deliveries
    /\ jobs \in [Handlers -> Job \cup {NoJob}]
    /\ bounces \in Nat /\ overlapped \in BOOLEAN

\* Sinfonia, polling a needs-fixes ticket, finds the failure log and the
\* category written (transition.rs): always on Jira, and on Linear as long as
\* no two writers of the comment were active together.
ContextBeforeFixes ==
    ticket = "fixes" =>
        \/ fields.log /\ fields.category
        \/ marker /\ overlapped

\* A delivery raises the attempt count at most once, however often it arrives,
\* fails half-way and arrives again, and however handlers interleave.
NoDeliveryCountsTwice == fields.attempts <= Cardinality(recorded)

\* The attempt count guards against a runaway ticket: since the last reset the
\* ticket went back to the agent at most as often as the count says, through
\* failed calls and restarts, as long as writers did not overlap.
EveryBounceCounted == overlapped \/ bounces <= fields.attempts

\* A ticket blocked at the cap goes back to the agent only by a human's hand,
\* whatever late deliveries follow, as long as writers did not overlap.
BlockedStays == [][ticket = "blocked" /\ ticket' = "fixes" => overlapped]_vars

\* GitHub gets a 2xx answer to a delivery only when some handler has worked on
\* it, so that what failed half-way is done when it is delivered again.
AckedIsHandled ==
    [][\A d \in mail \ mail' : \E h \in Handlers : ~Idle(h) /\ jobs[h].for = d]_vars

\* A ticket stopped at its budget goes back to the agent only by a human's hand.
BudgetStops == [][ticket = "budget" => ticket' # "fixes"]_vars
===============================================================================
