-------------------------- MODULE DeploymentProofs --------------------------
(***************************************************************************)
(* Proofs about Deployment: with a bridge beside it the daemon is still    *)
(* the daemon of Daemon, so what is proved of that one holds here; and     *)
(* what the bridge adds up, writes to the tracker and does at a cap.       *)
(*                                                                         *)
(* The inductive invariants: Posting, what is known of a session's event   *)
(* on its way; Capping, that a ticket at its cap has a handler under way   *)
(* until it was asked to move; Writing, what a flush under way holds;      *)
(* Denied, why a start was refused.                                        *)
(***************************************************************************)
EXTENDS Deployment, DaemonProofs, FiniteSetTheorems

\* The deployment's steps, seen from the daemon.
LEMMA DaemonSteps == [Next]_vars => [DaemonNext]_daemonVars
<1> SUFFICES ASSUME [Next]_vars PROVE [DaemonNext]_daemonVars
  OBVIOUS
<1>1. \A r \in Runs : Bridged(r) \in Deliveries
  BY DeploymentBounds DEF Bridged, Deliveries
<1>2. CASE DaemonAlone
  BY <1>2 DEF DaemonNext
<1>3. CASE BudgetAlone /\ UNCHANGED daemonVars
  BY <1>3
<1>4. ASSUME NEW r \in Runs, Arrive(r) \/ Answer(r) \/ TimeOut(r) \/ ConnectionLost(r)
      PROVE  [DaemonNext]_daemonVars
  <2>1. CASE Arrive(r)
    BY <2>1 DEF Arrive
  <2>2. CASE Answer(r)
    <3> DEFINE taken == handler[r].status \in 200..299
    <3>1. Answered(Bridged(r), taken) /\ taken \in BOOLEAN
      BY <2>2 DEF Answer
    <3> HIDE DEF taken
    <3>2. \E t \in Deliveries : \E success \in BOOLEAN : Answered(t, success)
      BY <1>1, <3>1
    <3>3. QED
      BY <3>2 DEF DaemonNext
  <2>3. CASE TimeOut(r) \/ ConnectionLost(r)
    <3>1. Unanswered(Bridged(r))
      BY <2>3 DEF TimeOut, ConnectionLost
    <3>2. \E t \in Deliveries : Unanswered(t)
      BY <1>1, <3>1
    <3>3. QED
      BY <3>2 DEF DaemonNext
  <2>4. QED
    BY <1>4, <2>1, <2>2, <2>3
<1>5. CASE DaemonDies
  BY <1>5 DEF DaemonDies, DaemonNext
<1>6. CASE BridgeDies
  BY <1>6 DEF BridgeDies
<1>7. CASE UNCHANGED vars
  BY <1>7 DEF vars
<1>8. QED
  BY <1>2, <1>3, <1>4, <1>5, <1>6, <1>7 DEF Next

\* The daemon beside a bridge does nothing the daemon of Daemon cannot do: the
\* bridge reaches it only through the answers to its posts, so everything
\* proved of DaemonSpec holds of the deployment (http/events.rs:232).
THEOREM DaemonImplemented == Spec => DaemonSpec
<1>1. Init => DaemonInit
  BY DEF Init
<1>2. [Next]_vars => [DaemonNext]_daemonVars
  BY DaemonSteps
<1>3. QED
  BY <1>1, <1>2, PTL DEF Spec, DaemonSpec

LEMMA DaemonInductive == Spec => []Inductive
BY DaemonImplemented, AlwaysInductive, PTL

-----------------------------------------------------------------------------
(* A session's event on its way.                                           *)

DeliveryStates == {"none", "send", "sent", "done", "given_up", "lost"}
HandlerShape   == [pc : {"none", "capped", "flushing", "transition", "reply", "gone"},
                   status : {0, 202, 401}, ticket : Tickets \cup {None}]
Serving == handler \in [Handlers -> HandlerShape] /\ counted \in [Handlers -> Nat]
Sending == delivery \in [Deliveries -> [pc : DeliveryStates, attempt : Nat]]
Queue   == outbox \in Seq(Runs) /\ \A i, j \in DOMAIN outbox : outbox[i] = outbox[j] => i = j

\* A figure of an event is a number.
Figured ==
    /\ event = [r \in Runs |-> event[r]]
    /\ \A r \in Runs : /\ DOMAIN event[r] = {"provider", "model", "input", "output", "signature"}
                       /\ event[r].input \in Nat /\ event[r].output \in Nat

Waits(r) == \E i \in DOMAIN outbox : outbox[i] = r

\* Only a session that ended has an event, and its event waits or is posted.
Queued(r) ==
    /\ run[r].pc \in Live => run[r].issue \in Issues
    /\ (Waits(r) \/ delivery[Bridged(r)].pc # "none") => run[r].pc = "over"
    /\ (Waits(r) \/ delivery[Bridged(r)].pc \in {"send", "sent"}) => run[r].issue \in Issues
    /\ Waits(r) => delivery[Bridged(r)].pc = "none"

\* A session is counted at most once for each of its posts.
Counted(r) ==
    LET d == delivery[Bridged(r)] IN
    /\ d.pc = "none" => counted[r] = 0
    /\ counted[r] <= d.attempt
    /\ handler[r].pc # "none" => d.pc = "sent"
    /\ (d.pc = "sent" /\ handler[r].pc = "none") => counted[r] < d.attempt
    /\ d.pc = "send" => d.attempt < MaxDeliveryAttempts
    /\ d.pc = "sent" => d.attempt <= MaxDeliveryAttempts
    /\ d.pc = "given_up" => d.attempt = MaxDeliveryAttempts
    /\ d.pc = "done" => counted[r] > 0
    /\ (handler[r].pc \notin {"none", "gone"} /\ handler[r].status = 202) => counted[r] > 0

Posting == Serving /\ Sending /\ Queue /\ Figured /\ \A r \in Runs : Queued(r) /\ Counted(r)

posting == <<run, event, outbox, delivery, handler, counted>>

LEMMA BridgedRuns ==
    /\ Handlers = Runs /\ Tickets = Issues
    /\ \A r \in Runs : Bridged(r) \in Deliveries
    /\ \A t \in Deliveries : \E r \in Runs : t = Bridged(r)
    /\ \A r, s \in Runs : Bridged(r) = Bridged(s) => r = s
BY DeploymentBounds DEF Bridged, Deliveries

LEMMA PostingStays == Posting /\ UNCHANGED posting => Posting'
<1> SUFFICES ASSUME Posting, UNCHANGED posting PROVE Posting'
  OBVIOUS
<1>1. UNCHANGED <<run, event, outbox, delivery, handler, counted>>
  BY DEF posting
<1>2. Serving' /\ Sending' /\ Queue'
  BY <1>1 DEF Posting, Serving, Sending, Queue
<1>3. Figured'
  BY <1>1 DEF Posting, Figured
<1>4. \A r \in Runs : Queued(r)' /\ Counted(r)'
  BY <1>1 DEF Posting, Queued, Waits, Counted
<1>5. QED
  BY <1>2, <1>3, <1>4 DEF Posting

\* A step that concerns one run.
LEMMA OneRunPosting ==
    ASSUME Posting, NEW r \in Runs, Serving', Sending', Queue', Figured', Queued(r)', Counted(r)',
           \A i \in DOMAIN outbox' : outbox'[i] = r \/ Waits(outbox'[i]),
           \A s \in Runs \ {r} : /\ run'[s] = run[s] /\ delivery'[Bridged(s)] = delivery[Bridged(s)]
                                 /\ counted'[s] = counted[s] /\ handler'[s] = handler[s]
    PROVE  Posting'
<1>1. \A s \in Runs \ {r} : Queued(s)'
  <2>1. TAKE s \in Runs \ {r}
  <2>2. Waits(s)' => Waits(s)
    BY DEF Waits
  <2>3. QED
    BY <2>1, <2>2 DEF Posting, Queued
<1>2. \A s \in Runs \ {r} : Counted(s)'
  BY DEF Posting, Counted
<1>3. \A s \in Runs : Queued(s)' /\ Counted(s)'
  BY <1>1, <1>2
<1>4. QED
  BY <1>3 DEF Posting

LEMMA InitPosting == Init => Posting
<1> SUFFICES ASSUME Init PROVE Posting
  OBVIOUS
<1>1. /\ handler = [h \in Handlers |-> NoServe] /\ counted = [h \in Handlers |-> 0]
      /\ delivery = [t \in Deliveries |-> [pc |-> "none", attempt |-> 0]]
  BY DEF Init, DaemonInit, BudgetInit
<1>2. Serving
  BY <1>1 DEF Serving, HandlerShape, NoServe
<1>3. Sending
  BY <1>1 DEF Sending, DeliveryStates
<1>4. \A r \in Runs : Counted(r) /\ delivery[Bridged(r)].pc = "none"
  BY <1>1, BridgedRuns, DaemonBounds DEF Counted, NoServe
<1>5. CASE plan.start = "down"
  <2>1. /\ outbox = <<>> /\ run = [r \in Runs |-> NoRun] /\ event = [r \in Runs |-> NoEvent]
    BY <1>5 DEF Init, DaemonInit
  <2>2. Queue /\ \A r \in Runs : ~Waits(r)
    BY <2>1 DEF Queue, Waits
  <2>3. \A r \in Runs : Queued(r)
    BY <1>4, <2>1, <2>2 DEF Queued, NoRun, Live
  <2>4. Figured
    BY <2>1 DEF Figured, NoEvent
  <2>5. QED
    BY <1>2, <1>3, <1>4, <2>2, <2>3, <2>4 DEF Posting
<1>6. CASE plan.start # "down"
  <2>1. outbox = [r \in Runs |-> r]
    BY <1>6 DEF Init, DaemonInit
  <2>2. PICK issue \in plan.sessions, usage \in [Runs -> Usages] :
            /\ run = [r \in Runs |-> [NoRun EXCEPT !.pc = "over", !.issue = issue[r]]]
            /\ event = [r \in Runs |-> EventOf(1, issue[r], usage[r])]
    BY <1>6 DEF Init, DaemonInit
  <2>3. issue \in [Runs -> Issues]
    BY DaemonPlans DEF Init, DaemonInit
  <2>4. Queue
    <3>1. outbox \in [1..MaxRuns -> Runs] /\ MaxRuns \in Nat
      BY <2>1, DaemonBounds DEF Runs
    <3>2. outbox \in Seq(Runs)
      BY <3>1
    <3>3. QED
      BY <2>1, <3>2 DEF Queue
  <2>5. \A r \in Runs : run[r].pc = "over" /\ run[r].issue \in Issues
    BY <2>2, <2>3 DEF NoRun
  <2>6. \A r \in Runs : Queued(r)
    BY <1>4, <2>5 DEF Queued, Live
  <2>7. Figured
    <3>1. \A r \in Runs : event[r] = EventOf(1, issue[r], usage[r]) /\ usage[r] \in [input : Nat, output : Nat]
      BY <2>2, DaemonUsages
    <3>2. QED
      BY <2>2, <3>1 DEF Figured, EventOf
  <2>8. QED
    BY <1>2, <1>3, <1>4, <2>4, <2>6, <2>7 DEF Posting
<1>7. QED
  BY <1>5, <1>6

LEMMA RunStepsPost ==
    ASSUME Posting, Inductive, NEW r \in Runs, UNCHANGED <<handler, counted>>,
           \/ \E issue \in Issues, attempt \in 0..MaxRuns : Dispatch(r, issue, attempt)
           \/ ReadPart(r) \/ FailEarly(r)
    PROVE  Posting'
<1>1. UNCHANGED <<event, outbox, delivery, handler, counted>>
  BY DEF Dispatch, ReadPart, FailEarly, emitting
<1>2. run \in [Runs -> RunShape]
  BY DEF Inductive, Typed, Running
<1>3. /\ run[r].pc # "over" /\ \A s \in Runs \ {r} : run'[s] = run[s]
      /\ run'[r].pc \in Live => run'[r].issue \in Issues
  <2>1. ASSUME NEW issue \in Issues, NEW attempt \in 0..MaxRuns, Dispatch(r, issue, attempt)
        PROVE  run[r].pc = "idle" /\ run'[r].issue = issue
               /\ \A s \in Runs \ {r} : run'[s] = run[s]
    <3>1. run' = [run EXCEPT ![r] = [NoRun EXCEPT !.pc = "config", !.issue = issue, !.attempt = attempt]]
      BY <2>1 DEF Dispatch
    <3>2. run'[r] = [NoRun EXCEPT !.pc = "config", !.issue = issue, !.attempt = attempt]
      BY <1>2, <3>1
    <3>3. QED
      BY <1>2, <2>1, <3>1, <3>2 DEF Dispatch, NoRun
  <2>2. CASE ReadPart(r)
    <3>1. /\ run[r].pc \in {"config", "workflow", "workspace", "tracker"}
          /\ run'[r] = [run[r] EXCEPT ![run[r].pc] = inForce[run[r].pc], !.pc = ReadNext[run[r].pc]]
          /\ \A s \in Runs \ {r} : run'[s] = run[s]
      BY <1>2, <2>2 DEF ReadPart, ReadNext
    <3>2. run'[r].issue = run[r].issue
      BY <1>2, <3>1 DEF RunShape
    <3>3. QED
      BY <3>1, <3>2 DEF Posting, Queued, Live
  <2>3. CASE FailEarly(r)
    <3>1. run'[r] = [run[r] EXCEPT !.pc = "over"]
      BY <1>2, <2>3 DEF FailEarly
    <3>2. run'[r].pc = "over"
      BY <1>2, <3>1 DEF RunShape
    <3>3. QED
      BY <1>2, <2>3, <3>2 DEF FailEarly, Live
  <2>4. QED
    BY <2>1, <2>2, <2>3
<1>4. Serving' /\ Sending' /\ Queue'
  BY <1>1 DEF Posting, Serving, Sending, Queue
<1>5. Figured'
  BY <1>1 DEF Posting, Figured
<1>6. Queued(r)' /\ Counted(r)'
  BY <1>1, <1>3 DEF Posting, Queued, Counted, Waits
<1>7. \A i \in DOMAIN outbox' : outbox'[i] = r \/ Waits(outbox'[i])
  BY <1>1 DEF Waits
<1>8. QED
  BY <1>1, <1>3, <1>4, <1>5, <1>6, <1>7, OneRunPosting

LEMMA FinishPosts ==
    ASSUME Posting, Inductive, NEW r \in Runs, NEW usage \in Usages, Finish(r, usage),
           UNCHANGED <<handler, counted>>
    PROVE  Posting'
<1> PICK spent : spent = IF PromptError(PromptOf(r), run[r].issue, run[r].attempt) = Ok
                         THEN usage ELSE NoUsage
  OBVIOUS
<1>1. /\ run[r].pc = "working" /\ run' = [run EXCEPT ![r].pc = "over"]
      /\ event' = [event EXCEPT ![r] = EventOf(run[r].config, run[r].issue, spent)]
      /\ outbox' = Append(outbox, r) /\ delivery' = delivery
  BY DEF Finish
<1>2. run \in [Runs -> RunShape] /\ outbox \in Seq(Runs)
  BY DEF Inductive, Typed, Running, Posting, Queue
<1>3. /\ run'[r].pc = "over" /\ run'[r].issue = run[r].issue /\ run[r].issue \in Issues
      /\ \A s \in Runs \ {r} : run'[s] = run[s]
  BY <1>1, <1>2 DEF RunShape, Posting, Queued, Live
<1>4. ~Waits(r) /\ delivery[Bridged(r)].pc = "none"
  BY <1>1 DEF Posting, Queued
<1>5. Queue'
  <2>1. /\ outbox' \in Seq(Runs) /\ DOMAIN outbox = 1..Len(outbox) /\ Len(outbox) \in Nat
        /\ DOMAIN outbox' = 1..(Len(outbox) + 1) /\ outbox'[Len(outbox) + 1] = r
        /\ \A i \in 1..Len(outbox) : outbox'[i] = outbox[i] /\ outbox[i] # r
    BY <1>1, <1>2, <1>4 DEF Waits
  <2>2. QED
    BY <2>1 DEF Posting, Queue
<1>6. \A i \in DOMAIN outbox' : outbox'[i] = r \/ Waits(outbox'[i])
  BY <1>1, <1>2 DEF Waits
<1>7. Figured'
  <2>1. spent.input \in Nat /\ spent.output \in Nat
    BY DaemonUsages DEF NoUsage
  <2>2. event' = [s \in Runs |-> event'[s]] /\ \A s \in Runs \ {r} : event'[s] = event[s]
    BY <1>1 DEF Posting, Figured
  <2>3. event'[r] = EventOf(run[r].config, run[r].issue, spent)
    BY <1>1 DEF Posting, Figured
  <2>4. /\ DOMAIN event'[r] = {"provider", "model", "input", "output", "signature"}
        /\ event'[r].input \in Nat /\ event'[r].output \in Nat
    BY <2>1, <2>3 DEF EventOf
  <2>5. QED
    BY <2>2, <2>4 DEF Posting, Figured
<1>8. Serving' /\ Sending'
  BY <1>1 DEF Posting, Serving, Sending
<1>9. Queued(r)' /\ Counted(r)'
  BY <1>1, <1>3, <1>4 DEF Posting, Queued, Counted, Waits, Live
<1>10. QED
  BY <1>1, <1>3, <1>5, <1>6, <1>7, <1>8, <1>9, OneRunPosting

LEMMA EmitPosts ==
    ASSUME Posting, Emit, UNCHANGED <<handler, counted>>
    PROVE  Posting'
<1>0. outbox # <<>> /\ outbox \in Seq(Runs)
  BY DEF Emit, Posting, Queue
<1> PICK r \in Runs : r = Head(outbox)
  BY <1>0
<1>1. /\ outbox # <<>> /\ outbox' = Tail(outbox) /\ run' = run
      /\ event' = [event EXCEPT ![r].signature = daemon.secret]
      /\ delivery' = [t \in Deliveries |->
                        IF t[1] = r /\ t[2] \in registry THEN [pc |-> "send", attempt |-> 0]
                        ELSE delivery[t]]
  BY DEF Emit
<1>2. outbox \in Seq(Runs) /\ \A i, j \in DOMAIN outbox : outbox[i] = outbox[j] => i = j
  BY DEF Posting, Queue
<1>3. r \in Runs /\ outbox[1] = r /\ 1 \in DOMAIN outbox
  BY <1>1, <1>2
<1>4. /\ outbox' \in Seq(Runs)
      /\ \A i \in DOMAIN outbox' : i + 1 \in DOMAIN outbox /\ outbox'[i] = outbox[i + 1]
  BY <1>1, <1>2
<1>5. Queue'
  BY <1>2, <1>4 DEF Queue
<1>6. /\ \A i \in DOMAIN outbox' : Waits(outbox'[i])
      /\ ~Waits(r)'
  BY <1>2, <1>3, <1>4 DEF Waits
<1>7. Waits(r) /\ delivery[Bridged(r)].pc = "none" /\ run[r].pc = "over" /\ run[r].issue \in Issues
  BY <1>3 DEF Waits, Posting, Queued
<1>8. delivery'[Bridged(r)] \in {[pc |-> "send", attempt |-> 0], delivery[Bridged(r)]}
  BY <1>1, <1>3, BridgedRuns
<1>9. \A s \in Runs \ {r} : delivery'[Bridged(s)] = delivery[Bridged(s)]
  <2>1. \A s \in Runs : Bridged(s)[1] = s
    BY DEF Bridged
  <2>2. QED
    BY <1>1, <2>1, BridgedRuns
<1>10. Sending'
  BY <1>1 DEF Posting, Sending, DeliveryStates
<1>11. Serving'
  BY DEF Posting, Serving
<1>12. Figured'
  <2>1. event' = [s \in Runs |-> event'[s]] /\ \A s \in Runs \ {r} : event'[s] = event[s]
    BY <1>1, <1>3 DEF Posting, Figured
  <2>2. event'[r] = [event[r] EXCEPT !.signature = daemon.secret]
    BY <1>1, <1>3 DEF Posting, Figured
  <2>3. /\ DOMAIN event'[r] = DOMAIN event[r]
        /\ event'[r].input = event[r].input /\ event'[r].output = event[r].output
    BY <1>3, <2>2 DEF Posting, Figured
  <2>4. QED
    BY <1>3, <2>1, <2>3 DEF Posting, Figured
<1>13. Queued(r)'
  BY <1>1, <1>6, <1>7, <1>8 DEF Queued, Live
<1>14. Counted(r)'
  BY <1>1, <1>3, <1>7, <1>8, DaemonBounds DEF Posting, Counted, Serving
<1>15. QED
  BY <1>1, <1>3, <1>5, <1>6, <1>9, <1>10, <1>11, <1>12, <1>13, <1>14, OneRunPosting

\* What a step that only moves one delivery must show.
LEMMA OneDelivery ==
    ASSUME Posting, NEW r \in Runs, UNCHANGED <<run, event, outbox>>,
           NEW pc \in DeliveryStates, NEW attempt \in Nat, pc # "none",
           delivery[Bridged(r)].pc \in {"send", "sent"},
           delivery' = [delivery EXCEPT ![Bridged(r)] = [pc |-> pc, attempt |-> attempt]],
           Serving', \A s \in Runs \ {r} : handler'[s] = handler[s] /\ counted'[s] = counted[s],
           Counted(r)'
    PROVE  Posting'
<1>1. Sending' /\ \A s \in Runs \ {r} : delivery'[Bridged(s)] = delivery[Bridged(s)]
  BY BridgedRuns DEF Posting, Sending
<1>2. Queue' /\ Figured'
  BY DEF Posting, Queue, Figured
<1>3. Queued(r)'
  BY BridgedRuns DEF Posting, Sending, Queued, Waits
<1>4. \A i \in DOMAIN outbox' : outbox'[i] = r \/ Waits(outbox'[i])
  BY DEF Waits
<1>5. QED
  BY <1>1, <1>2, <1>3, <1>4, OneRunPosting

LEMMA PostPosts ==
    ASSUME Posting, NEW r \in Runs, Post(Bridged(r)), UNCHANGED <<handler, counted>>
    PROVE  Posting'
<1> DEFINE d == delivery[Bridged(r)]
<1>1. /\ d.pc = "send" /\ UNCHANGED <<run, event, outbox>>
      /\ delivery' = [delivery EXCEPT ![Bridged(r)] = [pc |-> "sent", attempt |-> d.attempt + 1]]
  BY DEF Post
<1>2. d.attempt \in Nat /\ d.attempt < MaxDeliveryAttempts /\ Serving'
  BY <1>1, BridgedRuns DEF Posting, Sending, Counted, Serving
<1>3. delivery'[Bridged(r)] = [pc |-> "sent", attempt |-> d.attempt + 1]
  BY <1>1, BridgedRuns DEF Posting, Sending
<1>4. Counted(r)'
  BY <1>1, <1>2, <1>3, BridgedRuns, DaemonBounds DEF Posting, Counted, Serving
<1>5. "sent" \in DeliveryStates /\ d.attempt + 1 \in Nat
  BY <1>2 DEF DeliveryStates
<1>6. QED
  BY <1>1, <1>2, <1>4, <1>5, OneDelivery

-----------------------------------------------------------------------------
(* Handlers and their flushes.                                             *)

\* A handler is flushing while its flush is under way, for its own ticket.
Attached ==
    /\ flush = [f \in Flushers |-> flush[f]] /\ handler = [h \in Handlers |-> handler[h]]
    /\ \A f \in Flushers : DOMAIN flush[f] = {"pc", "ticket", "total"}
    /\ \A h \in Handlers :
          /\ DOMAIN handler[h] = {"pc", "status", "ticket"}
          /\ (handler[h].pc = "flushing") <=> (flush[h].pc # "off")
          /\ handler[h].pc = "flushing" => flush[h].ticket = handler[h].ticket

LEMMA HandlersFlush == Handlers \subseteq Flushers /\ Reconciler \in Flushers /\ Reconciler \notin Handlers
BY BudgetBounds DEF Flushers

\* A step that concerns one handler and its flush.
LEMMA OneAttached ==
    ASSUME Attached, NEW h \in Handlers, NEW one, NEW two,
           handler' = [handler EXCEPT ![h] = one], flush' = [flush EXCEPT ![h] = two],
           DOMAIN one = {"pc", "status", "ticket"}, DOMAIN two = {"pc", "ticket", "total"},
           (one.pc = "flushing") <=> (two.pc # "off"), one.pc = "flushing" => two.ticket = one.ticket
    PROVE  Attached'
<1>1. /\ handler' = [k \in Handlers |-> handler'[k]] /\ flush' = [f \in Flushers |-> flush'[f]]
      /\ handler'[h] = one /\ flush'[h] = two
      /\ \A k \in Handlers \ {h} : handler'[k] = handler[k]
      /\ \A f \in Flushers \ {h} : flush'[f] = flush[f]
  BY HandlersFlush DEF Attached
<1>2. QED
  BY <1>1, HandlersFlush DEF Attached

LEMMA InitAttached == Init => Attached
<1> SUFFICES ASSUME Init PROVE Attached
  OBVIOUS
<1>1. handler = [h \in Handlers |-> NoServe] /\ flush = [f \in Flushers |-> NoFlush]
  BY DEF Init, BudgetInit
<1>2. QED
  BY <1>1, HandlersFlush DEF Attached, NoServe, NoFlush

LEMMA FlushTicketAttaches ==
    ASSUME Attached, NEW f \in Flushers, NEW ticket, FlushTicket(f, ticket)
    PROVE  \/ acc[ticket].pending = Zero /\ flush' = flush
           \/ /\ acc[ticket].pending # Zero
              /\ flush' = [flush EXCEPT ![f] = [pc |-> "tokens", ticket |-> ticket,
                                                total |-> Figures(acc[ticket])]]
BY DEF FlushTicket

LEMMA WriteFieldAttaches ==
    ASSUME Attached, NEW f \in Flushers, WriteTokens(f) \/ WriteCost(f)
    PROVE  /\ flush[f].pc # "off"
           /\ \/ handler' = handler /\ flush' = [flush EXCEPT ![f] = [@ EXCEPT !.pc = "cost"]]
              \/ flush' = [flush EXCEPT ![f] = NoFlush] /\ AfterFlush(f)
BY DEF WriteTokens, WriteCost, WriteField

LEMMA HandlerStepsAttach ==
    ASSUME Attached, NEW h \in Handlers,
           CapHitFlush(h) \/ WriteTokens(h) \/ WriteCost(h) \/ Transition(h)
    PROVE  Attached'
<1>1. /\ DOMAIN handler[h] = {"pc", "status", "ticket"} /\ DOMAIN flush[h] = {"pc", "ticket", "total"}
      /\ (handler[h].pc = "flushing") <=> (flush[h].pc # "off")
      /\ handler[h].pc = "flushing" => flush[h].ticket = handler[h].ticket
      /\ handler = [k \in Handlers |-> handler[k]] /\ flush = [f \in Flushers |-> flush[f]]
      /\ h \in Flushers
  BY HandlersFlush DEF Attached
<1>2. CASE CapHitFlush(h)
  <2> DEFINE ticket == handler[h].ticket
  <2>1. handler[h].pc = "capped" /\ FlushTicket(h, ticket)
    BY <1>2 DEF CapHitFlush
  <2>2. CASE acc[ticket].pending = Zero
    <3>1. handler' = [handler EXCEPT ![h] = [handler[h] EXCEPT !.pc = "transition"]]
      BY <1>2, <2>2 DEF CapHitFlush
    <3>2. flush' = [flush EXCEPT ![h] = flush[h]]
      BY <1>1, <2>1, <2>2 DEF FlushTicket
    <3>3. QED
      BY <1>1, <2>1, <3>1, <3>2, OneAttached
  <2>3. CASE acc[ticket].pending # Zero
    <3>1. handler' = [handler EXCEPT ![h] = [handler[h] EXCEPT !.pc = "flushing"]]
      BY <1>2, <2>3 DEF CapHitFlush
    <3>2. flush' = [flush EXCEPT ![h] = [pc |-> "tokens", ticket |-> ticket,
                                         total |-> Figures(acc[ticket])]]
      BY <2>1, <2>3 DEF FlushTicket
    <3> HIDE DEF ticket
    <3>3. [handler[h] EXCEPT !.pc = "flushing"].ticket = ticket
      BY <1>1 DEF ticket
    <3>4. QED
      BY <1>1, <3>1, <3>2, <3>3, OneAttached
  <2>4. QED
    BY <2>2, <2>3
<1>3. CASE WriteTokens(h) \/ WriteCost(h)
  <2>1. handler[h].pc = "flushing"
    BY <1>1, <1>3, WriteFieldAttaches
  <2>2. CASE handler' = handler /\ flush' = [flush EXCEPT ![h] = [@ EXCEPT !.pc = "cost"]]
    <3>1. handler' = [handler EXCEPT ![h] = handler[h]]
      BY <1>1, <2>2
    <3>2. QED
      BY <1>1, <2>1, <2>2, <3>1, OneAttached
  <2>3. CASE flush' = [flush EXCEPT ![h] = NoFlush] /\ AfterFlush(h)
    <3>1. handler' = [handler EXCEPT ![h] = [handler[h] EXCEPT !.pc = "transition"]]
      BY <2>3 DEF AfterFlush
    <3>2. QED
      BY <1>1, <2>3, <3>1, OneAttached DEF NoFlush
  <2>4. QED
    BY <1>1, <1>3, <2>2, <2>3, WriteFieldAttaches
<1>4. CASE Transition(h)
  <2>1. /\ handler[h].pc = "transition" /\ flush' = [flush EXCEPT ![h] = flush[h]]
        /\ handler' = [handler EXCEPT ![h] = [handler[h] EXCEPT !.pc = "reply"]]
    BY <1>1, <1>4 DEF Transition
  <2>2. QED
    BY <1>1, <2>1, OneAttached
<1>5. QED
  BY <1>2, <1>3, <1>4

LEMMA ClientStepsAttach ==
    ASSUME Attached, NEW r \in Runs, Arrive(r) \/ Answer(r) \/ TimeOut(r) \/ ConnectionLost(r)
    PROVE  Attached'
<1>1. /\ (handler[r].pc = "flushing") <=> (flush[r].pc # "off")
      /\ handler = [k \in Handlers |-> handler[k]] /\ flush = [f \in Flushers |-> flush[f]]
      /\ DOMAIN flush[r] = {"pc", "ticket", "total"}
      /\ r \in Flushers /\ r \in Handlers
  BY HandlersFlush, BridgedRuns DEF Attached
<1>2. CASE Arrive(r)
  <2>1. handler[r].pc = "none" /\ flush' = [flush EXCEPT ![r] = flush[r]]
    BY <1>1, <1>2 DEF Arrive, SinfoniaEvents
  <2>2. PICK pc \in {"capped", "reply"}, status \in {202, 401} :
            handler' = [handler EXCEPT ![r] = [pc |-> pc, status |-> status, ticket |-> run[r].issue]]
    BY <1>2 DEF Arrive, SinfoniaEvents, ApplySession
  <2> DEFINE one == [pc |-> pc, status |-> status, ticket |-> run[r].issue]
  <2>3. one.pc # "flushing" /\ DOMAIN one = {"pc", "status", "ticket"} /\ flush[r].pc = "off"
    BY <1>1, <2>1
  <2> HIDE DEF one
  <2>4. handler' = [handler EXCEPT ![r] = one]
    BY <2>2 DEF one
  <2>5. QED
    BY <1>1, <2>1, <2>3, <2>4, OneAttached
<1>3. CASE Answer(r) \/ ConnectionLost(r)
  <2>1. /\ handler[r].pc # "flushing" /\ flush' = [flush EXCEPT ![r] = flush[r]]
        /\ handler' = [handler EXCEPT ![r] = NoServe]
    BY <1>1, <1>3 DEF Answer, ConnectionLost, Reply
  <2>2. QED
    BY <1>1, <2>1, OneAttached DEF NoServe
<1>4. CASE TimeOut(r)
  <2>1. /\ flush' = [flush EXCEPT ![r] = NoFlush] /\ handler' = [handler EXCEPT ![r] = NoServe]
    BY <1>4 DEF TimeOut, DropHandler
  <2>2. QED
    BY <1>1, <2>1, OneAttached DEF NoServe, NoFlush
<1>5. QED
  BY <1>2, <1>3, <1>4

\* The reconciler's flush belongs to no handler.
LEMMA ReconcilerAttaches ==
    ASSUME Attached, ReconcilerTask
    PROVE  handler' = handler /\ Attached'
<1>1. handler' = handler
  BY WriteFieldAttaches, HandlersFlush DEF ReconcilerTask, ReconcilerWakes, ReconcilerNext, AfterFlush
<1>2. \/ flush' = flush
      \/ \E two : flush' = [flush EXCEPT ![Reconciler] = two] /\ DOMAIN two = {"pc", "ticket", "total"}
  <2>1. CASE ReconcilerWakes
    BY <2>1 DEF ReconcilerWakes
  <2>2. CASE WriteTokens(Reconciler) \/ WriteCost(Reconciler)
    <3>1. \/ flush' = [flush EXCEPT ![Reconciler] = [flush[Reconciler] EXCEPT !.pc = "cost"]]
          \/ flush' = [flush EXCEPT ![Reconciler] = NoFlush]
      BY <2>2, WriteFieldAttaches, HandlersFlush
    <3>2. /\ DOMAIN [flush[Reconciler] EXCEPT !.pc = "cost"] = {"pc", "ticket", "total"}
          /\ DOMAIN NoFlush = {"pc", "ticket", "total"}
      BY HandlersFlush DEF Attached, NoFlush
    <3>3. QED
      BY <3>1, <3>2
  <2>3. ASSUME NEW t \in Tickets, ReconcilerNext(t)
        PROVE  \/ flush' = flush
               \/ \E two : flush' = [flush EXCEPT ![Reconciler] = two] /\ DOMAIN two = {"pc", "ticket", "total"}
    <3> DEFINE two == [pc |-> "tokens", ticket |-> t, total |-> Figures(acc[t])]
    <3>1. flush' = flush \/ flush' = [flush EXCEPT ![Reconciler] = two]
      BY <2>3 DEF ReconcilerNext, FlushTicket
    <3>2. DOMAIN two = {"pc", "ticket", "total"}
      OBVIOUS
    <3> HIDE DEF two
    <3>3. QED
      BY <3>1, <3>2
  <2>4. QED
    BY <2>1, <2>2, <2>3 DEF ReconcilerTask
<1>3. \A h \in Handlers : flush'[h] = flush[h]
  BY <1>2, HandlersFlush DEF Attached
<1>4. flush' = [f \in Flushers |-> flush'[f]] /\ \A f \in Flushers : DOMAIN flush'[f] = {"pc", "ticket", "total"}
  BY <1>2, HandlersFlush DEF Attached
<1>5. QED
  BY <1>1, <1>3, <1>4 DEF Attached

LEMMA NextAttached == Attached /\ [Next]_vars => Attached'
<1> SUFFICES ASSUME Attached, [Next]_vars PROVE Attached'
  OBVIOUS
<1>1. CASE UNCHANGED <<handler, flush>>
  BY <1>1 DEF Attached
<1>2. ASSUME NEW r \in Runs, Arrive(r) \/ Answer(r) \/ TimeOut(r) \/ ConnectionLost(r) PROVE Attached'
  BY <1>2, ClientStepsAttach
<1>3. CASE BudgetAlone
  <2>1. CASE BridgeStart \/ \E t \in Tickets : Idle30s(t)
    BY <1>1, <2>1 DEF BridgeStart, Idle30s
  <2>2. QED
    BY <1>3, <2>1, ReconcilerAttaches, HandlerStepsAttach DEF BudgetAlone
<1>4. CASE DaemonDies
  <2>1. /\ handler' = [h \in Handlers |-> NoServe]
        /\ flush' = [f \in Flushers |-> IF f \in Handlers THEN NoFlush ELSE flush[f]]
    BY <1>4 DEF DaemonDies
  <2>2. QED
    BY <2>1, HandlersFlush DEF Attached, NoServe, NoFlush
<1>5. CASE BridgeDies
  <2>1. /\ handler' = [h \in Handlers |-> IF handler[h].pc = "none" THEN NoServe
                                          ELSE [NoServe EXCEPT !.pc = "gone"]]
        /\ flush' = [f \in Flushers |-> NoFlush]
    BY <1>5 DEF BridgeDies, BridgeCrash
  <2>2. QED
    BY <2>1, HandlersFlush DEF Attached, NoServe, NoFlush
<1>6. QED
  BY <1>1, <1>2, <1>3, <1>4, <1>5 DEF Next, vars, budgetVars

LEMMA ArrivePosts ==
    ASSUME Posting, NEW r \in Runs, Arrive(r)
    PROVE  Posting'
<1> DEFINE ticket == run[r].issue
<1>1. /\ delivery[Bridged(r)].pc = "sent" /\ handler[r].pc = "none"
      /\ UNCHANGED <<run, event, outbox, delivery>>
  BY DEF Arrive, SinfoniaEvents, daemonVars
<1>2. ticket \in Tickets /\ r \in Handlers
  BY <1>1, BridgedRuns DEF Posting, Queued
<1>3. \/ /\ counted' = [counted EXCEPT ![r] = @ + 1]
         /\ \E pc \in {"capped", "reply"} :
               handler' = [handler EXCEPT ![r] = [pc |-> pc, status |-> 202, ticket |-> ticket]]
      \/ /\ counted' = counted
         /\ handler' = [handler EXCEPT ![r] = [pc |-> "reply", status |-> 401, ticket |-> ticket]]
  BY DEF Arrive, SinfoniaEvents, ApplySession
<1>4. \E pc \in {"capped", "reply"}, status \in {202, 401} :
          handler' = [handler EXCEPT ![r] = [pc |-> pc, status |-> status, ticket |-> ticket]]
  BY <1>3
<1>5. Serving'
  <2>1. counted' \in [Handlers -> Nat]
    BY <1>3 DEF Posting, Serving
  <2>2. handler' \in [Handlers -> HandlerShape]
    BY <1>2, <1>4 DEF Posting, Serving, HandlerShape
  <2>3. QED
    BY <2>1, <2>2 DEF Serving
<1>6. \A s \in Runs \ {r} : handler'[s] = handler[s] /\ counted'[s] = counted[s]
  BY <1>3, BridgedRuns DEF Posting, Serving
<1>7. /\ handler'[r].pc \in {"capped", "reply"}
      /\ \/ counted'[r] = counted[r] + 1
         \/ counted'[r] = counted[r] /\ handler'[r].status = 401
  BY <1>2, <1>3 DEF Posting, Serving
<1>8. /\ counted[r] \in Nat /\ counted[r] < delivery[Bridged(r)].attempt
      /\ delivery[Bridged(r)].attempt \in Nat
  BY <1>1, <1>2, BridgedRuns DEF Posting, Counted, Serving, Sending
<1>9. Counted(r)'
  BY <1>1, <1>7, <1>8 DEF Posting, Counted
<1>10. Sending' /\ Queue' /\ Figured'
  BY <1>1 DEF Posting, Sending, Queue, Figured
<1>11. Queued(r)' /\ \A i \in DOMAIN outbox' : outbox'[i] = r \/ Waits(outbox'[i])
  BY <1>1 DEF Posting, Queued, Waits
<1>12. QED
  BY <1>1, <1>5, <1>6, <1>9, <1>10, <1>11, OneRunPosting

\* The post of a run ends, and its handler with it.
LEMMA EndsPost ==
    ASSUME Posting, NEW r \in Runs, NEW success \in BOOLEAN, Concluded(Bridged(r), success),
           handler' = [handler EXCEPT ![r] = NoServe], counted' = counted,
           success => counted[r] > 0
    PROVE  Posting'
<1> DEFINE d  == delivery[Bridged(r)]
           pc == Outcome(d.attempt, success)
<1>1. /\ d.pc = "sent" /\ UNCHANGED <<run, event, outbox>>
      /\ delivery' = [delivery EXCEPT ![Bridged(r)].pc = pc]
  BY DEF Concluded
<1>2. /\ d \in [pc : DeliveryStates, attempt : Nat] /\ d.attempt <= MaxDeliveryAttempts
      /\ counted[r] <= d.attempt
  BY <1>1, BridgedRuns DEF Posting, Sending, Counted
<1>3. /\ pc \in {"done", "send", "given_up"}
      /\ pc = "done" => success
      /\ pc = "send" => d.attempt < MaxDeliveryAttempts
      /\ pc = "given_up" => d.attempt = MaxDeliveryAttempts
  BY <1>2, DaemonBounds DEF Outcome
<1> HIDE DEF pc
<1>4. delivery' = [delivery EXCEPT ![Bridged(r)] = [pc |-> pc, attempt |-> d.attempt]]
  <2>1. [d EXCEPT !.pc = pc] = [pc |-> pc, attempt |-> d.attempt]
    BY <1>2
  <2>2. QED
    BY <1>1, <2>1
<1>5. Serving' /\ handler'[r] = NoServe /\ \A s \in Runs \ {r} : handler'[s] = handler[s]
  BY BridgedRuns DEF Posting, Serving, HandlerShape, NoServe
<1>6. delivery'[Bridged(r)] = [pc |-> pc, attempt |-> d.attempt]
  BY <1>4, BridgedRuns DEF Posting, Sending
<1>7. Counted(r)'
  BY <1>2, <1>3, <1>5, <1>6 DEF Counted, NoServe
<1>8. pc \in DeliveryStates /\ pc # "none" /\ d.attempt \in Nat
  BY <1>2, <1>3 DEF DeliveryStates
<1>9. QED
  BY <1>1, <1>4, <1>5, <1>7, <1>8, OneDelivery

LEMMA AnswersPost ==
    ASSUME Posting, NEW r \in Runs, Answer(r) \/ TimeOut(r) \/ ConnectionLost(r)
    PROVE  Posting'
<1>1. CASE Answer(r)
  <2> DEFINE success == handler[r].status \in 200..299
  <2>1. /\ Concluded(Bridged(r), success) /\ counted' = counted
        /\ handler[r].pc = "reply" /\ handler' = [handler EXCEPT ![r] = NoServe]
    BY <1>1 DEF Answer, Answered, Reply
  <2>2. success => counted[r] > 0
    <3>1. handler[r].status \in {0, 202, 401}
      BY BridgedRuns DEF Posting, Serving, HandlerShape
    <3>2. QED
      BY <2>1, <3>1 DEF Posting, Counted
  <2>3. success \in BOOLEAN
    OBVIOUS
  <2> HIDE DEF success
  <2>4. QED
    BY <2>1, <2>2, <2>3, EndsPost
<1>2. CASE TimeOut(r) \/ ConnectionLost(r)
  <2>1. /\ Concluded(Bridged(r), FALSE) /\ counted' = counted
        /\ handler' = [handler EXCEPT ![r] = NoServe]
    BY <1>2 DEF TimeOut, ConnectionLost, Unanswered, DropHandler
  <2>2. QED
    BY <2>1, EndsPost
<1>3. QED
  BY <1>1, <1>2

LEMMA DeathsPost ==
    ASSUME Posting, Inductive, DaemonDies \/ BridgeDies
    PROVE  Posting'
<1>1. CASE DaemonDies
  <2>1. /\ outbox' = <<>> /\ UNCHANGED <<event, counted>>
        /\ run' = [r \in Runs |-> IF run[r].pc = "idle" THEN run[r] ELSE [NoRun EXCEPT !.pc = "over"]]
        /\ delivery' = [t \in Deliveries |-> IF delivery[t].pc \in {"send", "sent"}
                                             THEN [delivery[t] EXCEPT !.pc = "lost"] ELSE delivery[t]]
        /\ handler' = [h \in Handlers |-> NoServe]
    BY <1>1 DEF DaemonDies, Crash
  <2>2. Serving'
    BY <2>1 DEF Posting, Serving, HandlerShape, NoServe
  <2>3. Sending'
    BY <2>1 DEF Posting, Sending, DeliveryStates
  <2>4. Queue' /\ Figured' /\ \A r \in Runs : ~Waits(r)'
    BY <2>1 DEF Posting, Queue, Figured, Waits
  <2>5. ASSUME NEW r \in Runs PROVE Queued(r)' /\ Counted(r)'
    <3> DEFINE d == delivery[Bridged(r)]
    <3>1. /\ d \in [pc : DeliveryStates, attempt : Nat]
          /\ delivery'[Bridged(r)] = IF d.pc \in {"send", "sent"} THEN [d EXCEPT !.pc = "lost"] ELSE d
      BY <2>1, BridgedRuns DEF Posting, Sending
    <3>2. /\ delivery'[Bridged(r)].attempt = d.attempt
          /\ delivery'[Bridged(r)].pc = IF d.pc \in {"send", "sent"} THEN "lost" ELSE d.pc
      BY <3>1
    <3>3. run'[r].pc \notin Live /\ (run[r].pc \notin Live => run'[r].pc = run[r].pc)
      <4>1. run[r].pc \in Live \cup {"idle", "over"}
        BY DEF Inductive, Typed, Running, RunShape
      <4>2. run'[r].pc = IF run[r].pc = "idle" THEN "idle" ELSE "over"
        BY <2>1 DEF NoRun
      <4>3. QED
        BY <4>1, <4>2 DEF Live
    <3>4. Queued(r)'
      BY <2>4, <3>2, <3>3 DEF Posting, Queued, Live
    <3>5. handler'[r].pc = "none"
      BY <2>1, BridgedRuns DEF NoServe
    <3>6. Counted(r)'
      BY <2>1, <3>2, <3>5 DEF Posting, Counted
    <3>7. QED
      BY <3>4, <3>6
  <2>6. QED
    BY <2>2, <2>3, <2>4, <2>5 DEF Posting
<1>2. CASE BridgeDies
  <2>1. /\ UNCHANGED <<run, event, outbox, delivery, counted>>
        /\ handler' = [h \in Handlers |-> IF handler[h].pc = "none" THEN NoServe
                                          ELSE [NoServe EXCEPT !.pc = "gone"]]
    BY <1>2 DEF BridgeDies, BridgeCrash, daemonVars
  <2>2. Serving'
    BY <2>1 DEF Posting, Serving, HandlerShape, NoServe
  <2>3. Sending' /\ Queue' /\ Figured' /\ \A r \in Runs : Queued(r)'
    BY <2>1 DEF Posting, Sending, Queue, Figured, Queued, Waits
  <2>4. ASSUME NEW r \in Runs PROVE Counted(r)'
    <3>1. handler'[r].pc = IF handler[r].pc = "none" THEN "none" ELSE "gone"
      BY <2>1, BridgedRuns DEF NoServe
    <3>2. QED
      BY <2>1, <3>1 DEF Posting, Counted
  <2>5. QED
    BY <2>2, <2>3, <2>4 DEF Posting
<1>3. QED
  BY <1>1, <1>2

\* The bridge's own steps leave a handler its answer.
LEMMA HandlersPost ==
    ASSUME Posting, Attached, BudgetAlone, UNCHANGED daemonVars
    PROVE  Posting'
<1>1. UNCHANGED <<run, event, outbox, delivery, counted>>
  BY DEF daemonVars, BudgetAlone, BridgeStart, ReconcilerTask, ReconcilerWakes, WriteTokens, WriteCost,
         WriteField, ReconcilerNext, CapHitFlush, Transition, Idle30s
<1>2. ASSUME NEW h \in Handlers, NEW pc \in {"flushing", "transition", "reply"},
             handler[h].pc \notin {"none", "gone"}, handler' = [handler EXCEPT ![h].pc = pc]
      PROVE  Posting'
  <2>1. Serving'
    BY <1>1, <1>2 DEF Posting, Serving, HandlerShape
  <2>2. Sending' /\ Queue' /\ Figured' /\ \A r \in Runs : Queued(r)'
    BY <1>1 DEF Posting, Sending, Queue, Figured, Queued, Waits
  <2>3. ASSUME NEW r \in Runs PROVE Counted(r)'
    <3>1. \/ handler'[r] = handler[r]
          \/ /\ handler'[r].pc = pc /\ handler'[r].status = handler[r].status
             /\ handler[r].pc \notin {"none", "gone"}
      BY <1>2, BridgedRuns DEF Posting, Serving, HandlerShape
    <3>2. QED
      BY <1>1, <3>1 DEF Posting, Counted
  <2>4. QED
    BY <2>1, <2>2, <2>3 DEF Posting
<1>3. CASE handler' = handler
  BY <1>1, <1>3, PostingStays DEF posting
<1>4. ASSUME NEW h \in Handlers, CapHitFlush(h) \/ Transition(h) PROVE Posting'
  BY <1>2, <1>4 DEF CapHitFlush, Transition
<1>5. ASSUME NEW h \in Handlers, WriteTokens(h) \/ WriteCost(h) PROVE Posting'
  <2>1. handler[h].pc = "flushing" /\ (handler' = handler \/ AfterFlush(h))
    BY <1>5, WriteFieldAttaches, HandlersFlush DEF Attached
  <2>2. QED
    BY <1>2, <1>3, <2>1 DEF AfterFlush
<1>6. CASE BridgeStart \/ ReconcilerTask \/ \E t \in Tickets : Idle30s(t)
  BY <1>3, <1>6, ReconcilerAttaches DEF BridgeStart, Idle30s
<1>7. QED
  BY <1>4, <1>5, <1>6 DEF BudgetAlone

LEMMA NextPosting == Posting /\ Attached /\ Inductive /\ [Next]_vars => Posting'
<1> SUFFICES ASSUME Posting, Attached, Inductive, [Next]_vars PROVE Posting'
  OBVIOUS
<1>1. ASSUME DaemonAlone, UNCHANGED budgetVars PROVE Posting'
  <2>1. UNCHANGED <<handler, counted>>
    BY <1>1 DEF budgetVars
  <2>2. CASE Start \/ Watch \/ Debounce \/ Settle200ms \/ TakeSignal \/ ReadFile \/ Swap \/ Wake
             \/ (\E name \in Names : Edit(name)) \/ (\E url \in Callbacks : Register(url))
    <3>1. UNCHANGED <<run, event, outbox, delivery>>
      BY <2>2 DEF Start, Watch, Debounce, Settle200ms, TakeSignal, ReadFile, Swap, Wake, Edit, Register,
                  emitting
    <3>2. QED
      BY <2>1, <3>1, PostingStays DEF posting
  <2>3. ASSUME NEW r \in Runs,
               (\E issue \in Issues, attempt \in 0..MaxRuns : Dispatch(r, issue, attempt)) \/ ReadPart(r) \/ FailEarly(r)
        PROVE  Posting'
    BY <2>1, <2>3, RunStepsPost
  <2>4. ASSUME NEW r \in Runs, NEW usage \in Usages, Finish(r, usage) PROVE Posting'
    BY <2>1, <2>4, FinishPosts
  <2>5. ASSUME NEW t \in Deliveries, Post(t) PROVE Posting'
    BY <2>1, <2>5, PostPosts, BridgedRuns
  <2>6. CASE Emit
    BY <2>1, <2>6, EmitPosts
  <2>7. QED
    BY <1>1, <2>2, <2>3, <2>4, <2>5, <2>6 DEF DaemonAlone
<1>2. CASE BudgetAlone /\ UNCHANGED daemonVars
  BY <1>2, HandlersPost
<1>3. ASSUME NEW r \in Runs, Arrive(r) \/ Answer(r) \/ TimeOut(r) \/ ConnectionLost(r) PROVE Posting'
  BY <1>3, ArrivePosts, AnswersPost
<1>4. CASE DaemonDies \/ BridgeDies
  BY <1>4, DeathsPost
<1>5. CASE UNCHANGED vars
  BY <1>5, PostingStays DEF vars, daemonVars, budgetVars, posting
<1>6. QED
  BY <1>1, <1>2, <1>3, <1>4, <1>5 DEF Next

LEMMA AlwaysPosting == Spec => [](Posting /\ Attached)
<1>1. Init => Posting /\ Attached
  BY InitPosting, InitAttached
<1>2. Posting /\ Attached /\ Inductive /\ [Next]_vars => Posting' /\ Attached'
  BY NextPosting, NextAttached
<1>3. QED
  BY <1>1, <1>2, DaemonInductive, PTL DEF Spec

\* A delivery that ended well was added up, none more often than it was posted,
\* and one was given up only after the last post: for every number of runs and
\* attempts, with answers lost and both programs dying (http/events.rs:232).
THEOREM DeliveriesCount == Spec => []DeliveredOrGivenUp
<1>1. Posting => DeliveredOrGivenUp
  BY DEF Posting, Counted, DeliveredOrGivenUp
<1>2. QED
  BY <1>1, AlwaysPosting, PTL

-----------------------------------------------------------------------------
(* The accumulators, their flushes and the tracker's fields.               *)

Amounts   == [tokens : Nat, cost : Nat]
AccShape  == [pending : Amounts, running : Amounts, idle : BOOLEAN]
TraceShape == [flushes : {"none", "clean", "muddled"}, asked : BOOLEAN, dropped : BOOLEAN]

BridgeShape ==
    /\ DOMAIN bridge = {"phase", "error", "file", "costCaps", "crashes"}
    /\ bridge.phase \in {"up", "down", "refused"}
AccountShape == acc \in [Tickets -> AccShape]
FlushShape   == flush \in [Flushers -> [pc : {"off", "tokens", "cost"}, ticket : Tickets \cup {None},
                                        total : Amounts]]
ShownShape   ==
    /\ fields \in [Tickets -> Amounts] /\ trace \in [Tickets -> TraceShape]
    /\ todo \subseteq Tickets /\ parked \subseteq Tickets

\* Whoever works for a ticket works for one the tracker knows.
Known ==
    /\ \A f \in Flushers : flush[f].pc # "off" => flush[f].ticket \in Tickets
    /\ \A h \in Handlers : handler[h].pc \notin {"none", "gone"} => handler[h].ticket \in Tickets

Accounts == BridgeShape /\ AccountShape /\ FlushShape /\ ShownShape /\ Known

LEMMA ZeroAmount == Zero \in Amounts
BY DEF Zero, Amounts

LEMMA CostIsNat ==
    ASSUME NEW cost \in Nat
    PROVE  CostToString(cost) \in Nat
<1> DEFINE units == cost \div CostUnit
<1>1. CostUnit \in Nat /\ CostUnit > 0
  BY BudgetBounds
<1>2. units \in Nat
  BY <1>1
<1> HIDE DEF units
<1>3. CostToString(cost) \in {units, units + 1}
  BY DEF CostToString, units
<1>4. QED
  BY <1>2, <1>3

LEMMA ComputedIsNat ==
    ASSUME NEW provider, NEW model, NEW input \in Nat, NEW output \in Nat
    PROVE  ComputeCost(provider, model, input, output) \in Nat
<1> DEFINE entry == <<NormalizeProvider(provider), model>>
<1>1. CASE entry \in DOMAIN Prices
  <2>1. Prices[entry].input \in Nat /\ Prices[entry].output \in Nat
    BY <1>1, BudgetPrices
  <2>2. \A a, b, c, d \in Nat : a * b + c * d \in Nat
    OBVIOUS
  <2>3. QED
    BY <1>1, <2>1, <2>2 DEF ComputeCost
<1>2. CASE entry \notin DOMAIN Prices
  BY <1>2 DEF ComputeCost
<1>3. QED
  BY <1>1, <1>2

LEMMA AppliedIsAccount ==
    ASSUME NEW a \in AccShape, NEW r \in Runs, Posting
    PROVE  Applied(a, event[r]) \in AccShape
<1> DEFINE e == event[r]
           spent == [tokens |-> e.input + e.output,
                     cost   |-> ComputeCost(e.provider, e.model, e.input, e.output)]
<1>1. e.input \in Nat /\ e.output \in Nat
  BY DEF Posting, Figured
<1>2. spent \in Amounts
  BY <1>1, ComputedIsNat DEF Amounts
<1> HIDE DEF spent
<1>3. Plus(a.pending, spent) \in Amounts /\ Plus(a.running, spent) \in Amounts
  BY <1>2 DEF Plus, Amounts, AccShape
<1>4. Applied(a, e) = [pending |-> Plus(a.pending, spent), running |-> Plus(a.running, spent),
                       idle |-> FALSE]
  BY DEF Applied, spent
<1>5. QED
  BY <1>3, <1>4 DEF AccShape

LEMMA InitAccounts == Init => Accounts
<1> SUFFICES ASSUME Init PROVE Accounts
  OBVIOUS
<1>1. /\ acc = [t \in Tickets |-> Fresh] /\ trace = [t \in Tickets |-> Untraced]
      /\ handler = [h \in Handlers |-> NoServe] /\ flush = [f \in Flushers |-> NoFlush]
      /\ todo = {} /\ parked = {} /\ fields = [t \in Tickets |-> Zero]
  BY DEF Init, BudgetInit
<1>2. PICK fresh \in BOOLEAN, phase \in {"up", "down"} :
          bridge = [phase |-> phase, error |-> Ok, file |-> plan.bridge, costCaps |-> fresh, crashes |-> 0]
  BY DEF Init, BudgetInit
<1>3. BridgeShape
  BY <1>2 DEF BridgeShape
<1>4. AccountShape
  BY <1>1, ZeroAmount DEF AccountShape, AccShape, Fresh
<1>5. FlushShape
  BY <1>1, ZeroAmount DEF FlushShape, NoFlush
<1>6. ShownShape
  BY <1>1, ZeroAmount DEF ShownShape, TraceShape, Untraced
<1>7. Known
  BY <1>1 DEF Known, NoFlush, NoServe
<1>8. QED
  BY <1>3, <1>4, <1>5, <1>6, <1>7 DEF Accounts

\* One flush of a ticket.
LEMMA FlushTicketAccounts ==
    ASSUME Accounts, NEW f \in Flushers, NEW ticket \in Tickets, FlushTicket(f, ticket)
    PROVE  AccountShape' /\ FlushShape' /\ trace' \in [Tickets -> TraceShape]
           /\ \A g \in Flushers : flush'[g].pc # "off" => flush'[g].ticket \in Tickets
<1>1. CASE acc[ticket].pending = Zero
  BY <1>1 DEF FlushTicket, Accounts, AccountShape, FlushShape, ShownShape, Known
<1>2. CASE acc[ticket].pending # Zero
  <2> DEFINE two == [pc |-> "tokens", ticket |-> ticket, total |-> Figures(acc[ticket])]
  <2>1. /\ acc' = [acc EXCEPT ![ticket].pending = Zero] /\ flush' = [flush EXCEPT ![f] = two]
        /\ \E kind \in {"clean", "muddled"} : trace' = [trace EXCEPT ![ticket].flushes = kind]
    BY <1>2 DEF FlushTicket
  <2>2. acc[ticket] \in AccShape
    BY DEF Accounts, AccountShape
  <2>3. two \in [pc : {"off", "tokens", "cost"}, ticket : Tickets \cup {None}, total : Amounts]
    BY <2>2 DEF Figures, AccShape
  <2>4. AccountShape'
    BY <2>1, ZeroAmount DEF Accounts, AccountShape, AccShape
  <2>5. trace' \in [Tickets -> TraceShape]
    BY <2>1 DEF Accounts, ShownShape, TraceShape
  <2> HIDE DEF two
  <2>6. FlushShape'
    BY <2>1, <2>3 DEF Accounts, FlushShape
  <2>7. flush'[f] = two /\ \A g \in Flushers \ {f} : flush'[g] = flush[g]
    BY <2>1 DEF Accounts, FlushShape
  <2>8. QED
    BY <2>4, <2>5, <2>6, <2>7 DEF Accounts, Known, two
<1>3. QED
  BY <1>1, <1>2

\* One write of a flush.
LEMMA WriteAccounts ==
    ASSUME Accounts, NEW f \in Flushers, WriteTokens(f) \/ WriteCost(f)
    PROVE  FlushShape' /\ ShownShape'
           /\ \A g \in Flushers : flush'[g].pc # "off" => flush'[g].ticket \in Tickets
           /\ UNCHANGED <<bridge, acc>>
<1>1. /\ flush[f] \in [pc : {"off", "tokens", "cost"}, ticket : Tickets \cup {None}, total : Amounts]
      /\ flush[f].pc # "off" /\ flush[f].ticket \in Tickets
  BY DEF WriteTokens, WriteCost, WriteField, Accounts, FlushShape, Known
<1>2. PICK field \in {"tokens", "cost"}, value \in Nat :
          /\ fields' = fields \/ fields' = [fields EXCEPT ![flush[f].ticket][field] = value]
          /\ \/ flush' = [flush EXCEPT ![f] = [@ EXCEPT !.pc = "cost"]]
             \/ flush' = [flush EXCEPT ![f] = NoFlush]
          /\ trace' = trace \/ trace' = [trace EXCEPT ![flush[f].ticket].flushes = "muddled"]
          /\ UNCHANGED <<bridge, acc, todo, parked>>
  <2>1. CASE WriteTokens(f)
    <3>1. flush[f].total.tokens \in Nat
      BY <1>1 DEF Amounts
    <3>2. /\ fields' = fields \/ fields' = [fields EXCEPT ![flush[f].ticket]["tokens"] = flush[f].total.tokens]
          /\ \/ flush' = [flush EXCEPT ![f] = [@ EXCEPT !.pc = "cost"]]
             \/ flush' = [flush EXCEPT ![f] = NoFlush]
          /\ trace' = trace \/ trace' = [trace EXCEPT ![flush[f].ticket].flushes = "muddled"]
          /\ UNCHANGED <<bridge, acc, todo, parked>>
      BY <2>1 DEF WriteTokens, WriteField
    <3>3. QED
      BY <3>1, <3>2
  <2>2. CASE WriteCost(f)
    <3> DEFINE value == CostToString(flush[f].total.cost)
    <3>1. value \in Nat
      BY <1>1, CostIsNat DEF Amounts
    <3>2. /\ fields' = fields \/ fields' = [fields EXCEPT ![flush[f].ticket]["cost"] = value]
          /\ flush' = [flush EXCEPT ![f] = NoFlush]
          /\ trace' = trace \/ trace' = [trace EXCEPT ![flush[f].ticket].flushes = "muddled"]
          /\ UNCHANGED <<bridge, acc, todo, parked>>
      BY <2>2 DEF WriteCost, WriteField
    <3> HIDE DEF value
    <3>3. QED
      BY <3>1, <3>2
  <2>3. QED
    BY <2>1, <2>2
<1>3. ShownShape'
  <2>1. fields' \in [Tickets -> Amounts]
    <3>1. [fields[flush[f].ticket] EXCEPT ![field] = value] \in Amounts
      BY <1>1 DEF Accounts, ShownShape, Amounts
    <3>2. \/ fields' = fields
          \/ fields' = [fields EXCEPT ![flush[f].ticket] = [fields[flush[f].ticket] EXCEPT ![field] = value]]
      BY <1>2
    <3>3. QED
      BY <3>1, <3>2 DEF Accounts, ShownShape
  <2>2. trace' \in [Tickets -> TraceShape]
    BY <1>1, <1>2 DEF Accounts, ShownShape, TraceShape
  <2>3. QED
    BY <1>2, <2>1, <2>2 DEF Accounts, ShownShape
<1>4. FlushShape'
  BY <1>1, <1>2, ZeroAmount DEF Accounts, FlushShape, NoFlush
<1>5. \A g \in Flushers : flush'[g].pc # "off" => flush'[g].ticket \in Tickets
  BY <1>1, <1>2 DEF Accounts, FlushShape, Known, NoFlush
<1>6. QED
  BY <1>2, <1>3, <1>4, <1>5

LEMMA TraceUpdated ==
    ASSUME NEW one \in TraceShape, NEW dropped \in BOOLEAN, NEW flushes \in {"none", "clean", "muddled"}
    PROVE  [one EXCEPT !.dropped = dropped, !.flushes = flushes] \in TraceShape
<1> DEFINE half == [one EXCEPT !.dropped = dropped]
<1>1. half \in TraceShape
  BY DEF TraceShape
<1> HIDE DEF half
<1>2. [half EXCEPT !.flushes = flushes] \in TraceShape
  BY <1>1 DEF TraceShape
<1>3. QED
  BY <1>2 DEF half

LEMMA HandlersKnown ==
    ASSUME Accounts, Posting, NEW h \in Handlers, NEW pc, handler' = [handler EXCEPT ![h].pc = pc],
           handler[h].pc \notin {"none", "gone"}
    PROVE  \A k \in Handlers : handler'[k].pc \notin {"none", "gone"} => handler'[k].ticket \in Tickets
BY DEF Accounts, Known, Posting, Serving, HandlerShape

LEMMA BridgeStepsAccount ==
    ASSUME Accounts, Posting, Attached, BudgetAlone
    PROVE  Accounts'
<1>1. CASE BridgeStart
  <2>1. UNCHANGED <<acc, handler, flush, todo, fields, parked, trace>>
    BY <1>1 DEF BridgeStart
  <2>2. BridgeShape'
    BY <1>1 DEF BridgeStart, Accounts, BridgeShape
  <2>3. QED
    BY <2>1, <2>2 DEF Accounts, AccountShape, FlushShape, ShownShape, Known
<1>2. CASE ReconcilerWakes
  <2>1. todo' \subseteq Tickets /\ UNCHANGED <<bridge, acc, handler, flush, fields, parked, trace>>
    BY <1>2 DEF ReconcilerWakes, Candidates
  <2>2. QED
    BY <2>1 DEF Accounts, BridgeShape, AccountShape, FlushShape, ShownShape, Known
<1>3. ASSUME NEW t \in Tickets, ReconcilerNext(t) PROVE Accounts'
  <2>1. /\ FlushTicket(Reconciler, t) /\ todo' = todo \ {t}
        /\ UNCHANGED <<bridge, handler, fields, parked>>
    BY <1>3 DEF ReconcilerNext
  <2>2. QED
    BY <2>1, FlushTicketAccounts, HandlersFlush DEF Accounts, BridgeShape, ShownShape, Known
<1>4. ASSUME NEW f \in Flushers, WriteTokens(f) \/ WriteCost(f) PROVE Accounts'
  <2>1. \A k \in Handlers : handler'[k].pc \notin {"none", "gone"} => handler'[k].ticket \in Tickets
    <3>1. CASE handler' = handler
      BY <3>1 DEF Accounts, Known
    <3>2. CASE f \in Handlers /\ AfterFlush(f)
      BY <1>4, <3>2, HandlersKnown, WriteFieldAttaches DEF AfterFlush, Attached
    <3>3. QED
      BY <1>4, <3>1, <3>2, WriteFieldAttaches DEF AfterFlush
  <2>2. BridgeShape' /\ AccountShape'
    <3>1. UNCHANGED <<bridge, acc>>
      BY <1>4 DEF WriteTokens, WriteCost, WriteField
    <3>2. QED
      BY <3>1 DEF Accounts, BridgeShape, AccountShape
  <2>3. QED
    BY <1>4, <2>1, <2>2, WriteAccounts DEF Accounts, Known
<1>5. ASSUME NEW h \in Handlers, CapHitFlush(h) PROVE Accounts'
  <2>1. /\ handler[h].pc = "capped" /\ FlushTicket(h, handler[h].ticket)
        /\ \E pc : handler' = [handler EXCEPT ![h].pc = pc]
        /\ UNCHANGED <<bridge, todo, fields, parked>>
    BY <1>5 DEF CapHitFlush
  <2>2. handler[h].ticket \in Tickets /\ h \in Flushers
    BY <2>1, HandlersFlush DEF Accounts, Known
  <2>3. \A k \in Handlers : handler'[k].pc \notin {"none", "gone"} => handler'[k].ticket \in Tickets
    BY <2>1, HandlersKnown
  <2>4. QED
    BY <2>1, <2>2, <2>3, FlushTicketAccounts DEF Accounts, BridgeShape, ShownShape, Known
<1>6. ASSUME NEW h \in Handlers, Transition(h) PROVE Accounts'
  <2>1. /\ handler[h].pc = "transition" /\ handler' = [handler EXCEPT ![h].pc = "reply"]
        /\ parked' = parked \/ parked' = parked \cup {handler[h].ticket}
        /\ trace' = [trace EXCEPT ![handler[h].ticket].asked = TRUE]
        /\ UNCHANGED <<bridge, acc, flush, todo, fields>>
    BY <1>6 DEF Transition
  <2>2. handler[h].ticket \in Tickets
    BY <2>1 DEF Accounts, Known
  <2>3. ShownShape'
    BY <2>1, <2>2 DEF Accounts, ShownShape, TraceShape
  <2>4. \A k \in Handlers : handler'[k].pc \notin {"none", "gone"} => handler'[k].ticket \in Tickets
    BY <2>1, HandlersKnown
  <2>5. QED
    BY <2>1, <2>3, <2>4 DEF Accounts, BridgeShape, AccountShape, FlushShape, Known
<1>7. ASSUME NEW t \in Tickets, Idle30s(t) PROVE Accounts'
  <2>1. acc' = [acc EXCEPT ![t].idle = TRUE] /\ UNCHANGED <<bridge, handler, flush, todo, fields, parked, trace>>
    BY <1>7 DEF Idle30s
  <2>2. AccountShape'
    BY <2>1 DEF Accounts, AccountShape, AccShape
  <2>3. QED
    BY <2>1, <2>2 DEF Accounts, BridgeShape, FlushShape, ShownShape, Known
<1>8. QED
  BY <1>1, <1>2, <1>3, <1>4, <1>5, <1>6, <1>7, HandlersFlush DEF BudgetAlone, ReconcilerTask

LEMMA ClientStepsAccount ==
    ASSUME Accounts, Posting, NEW r \in Runs, Arrive(r) \/ Answer(r) \/ TimeOut(r) \/ ConnectionLost(r)
    PROVE  Accounts'
<1>1. CASE Arrive(r)
  <2> DEFINE ticket == run[r].issue
  <2>1. /\ acc' = acc \/ acc' = [acc EXCEPT ![ticket] = Applied(acc[ticket], event[r])]
        /\ UNCHANGED <<bridge, flush, todo, fields, parked, trace>>
    BY <1>1 DEF Arrive, SinfoniaEvents, ApplySession
  <2>2. PICK pc, status : handler' = [handler EXCEPT ![r] = [pc |-> pc, status |-> status, ticket |-> ticket]]
    BY <1>1 DEF Arrive, SinfoniaEvents, ApplySession
  <2>3. ticket \in Tickets
    BY <1>1, BridgedRuns DEF Arrive, Posting, Queued
  <2>4. AccountShape'
    BY <2>1, <2>3, AppliedIsAccount DEF Accounts, AccountShape
  <2>5. \A k \in Handlers : handler'[k].pc \notin {"none", "gone"} => handler'[k].ticket \in Tickets
    BY <2>2, <2>3, BridgedRuns DEF Accounts, Known, Posting, Serving
  <2>6. QED
    BY <2>1, <2>4, <2>5 DEF Accounts, BridgeShape, FlushShape, ShownShape, Known
<1>2. CASE Answer(r) \/ ConnectionLost(r)
  <2>1. /\ handler' = [handler EXCEPT ![r] = NoServe]
        /\ UNCHANGED <<bridge, acc, flush, todo, fields, parked, trace>>
    BY <1>2 DEF Answer, ConnectionLost, Reply
  <2>2. QED
    BY <2>1, BridgedRuns DEF Accounts, BridgeShape, AccountShape, FlushShape, ShownShape, Known, NoServe,
                             Posting, Serving
<1>3. CASE TimeOut(r)
  <2> DEFINE ticket == handler[r].ticket
  <2>1. /\ handler[r].pc \in {"flushing", "transition", "reply"}
        /\ handler' = [handler EXCEPT ![r] = NoServe] /\ flush' = [flush EXCEPT ![r] = NoFlush]
        /\ trace' = [trace EXCEPT
                        ![ticket].dropped = @ \/ handler[r].pc # "reply",
                        ![ticket].flushes = IF handler[r].pc = "flushing" THEN "muddled" ELSE @]
        /\ UNCHANGED <<bridge, acc, todo, fields, parked>>
    BY <1>3 DEF TimeOut, DropHandler
  <2>2. ticket \in Tickets /\ r \in Flushers /\ r \in Handlers
    BY <2>1, BridgedRuns, HandlersFlush DEF Accounts, Known
  <2>3. trace' \in [Tickets -> TraceShape]
    <3> DEFINE dropped == trace[ticket].dropped \/ handler[r].pc # "reply"
               flushes == IF handler[r].pc = "flushing" THEN "muddled" ELSE trace[ticket].flushes
    <3>1. trace' = [trace EXCEPT ![ticket] = [trace[ticket] EXCEPT !.dropped = dropped, !.flushes = flushes]]
      BY <2>1
    <3>2. trace[ticket] \in TraceShape /\ dropped \in BOOLEAN /\ flushes \in {"none", "clean", "muddled"}
      BY <2>2 DEF Accounts, ShownShape, TraceShape
    <3> HIDE DEF dropped, flushes
    <3>3. [trace[ticket] EXCEPT !.dropped = dropped, !.flushes = flushes] \in TraceShape
      BY <3>2, TraceUpdated
    <3>4. QED
      BY <3>1, <3>3 DEF Accounts, ShownShape
  <2>4. FlushShape'
    BY <2>1, <2>2, ZeroAmount DEF Accounts, FlushShape, NoFlush
  <2>5. Known'
    BY <2>1, <2>2 DEF Accounts, FlushShape, Known, NoFlush, NoServe, Posting, Serving
  <2>6. QED
    BY <2>1, <2>3, <2>4, <2>5 DEF Accounts, BridgeShape, AccountShape, ShownShape
<1>4. QED
  BY <1>1, <1>2, <1>3

LEMMA DeathsAccount ==
    ASSUME Accounts, DaemonDies \/ BridgeDies
    PROVE  Accounts'
<1>1. CASE DaemonDies
  <2>1. /\ handler' = [h \in Handlers |-> NoServe]
        /\ flush' = [f \in Flushers |-> IF f \in Handlers THEN NoFlush ELSE flush[f]]
        /\ UNCHANGED <<bridge, acc, todo, fields, parked>>
    BY <1>1 DEF DaemonDies
  <2>2. trace' \in [Tickets -> TraceShape]
    <3>1. \A t \in Tickets : \E dropped \in BOOLEAN, flushes \in {"none", "clean", "muddled"} :
              trace'[t] = [trace[t] EXCEPT !.dropped = dropped, !.flushes = flushes]
      <4>1. TAKE t \in Tickets
      <4> DEFINE of == {h \in Handlers : handler[h].pc # "none" /\ handler[h].ticket = t}
                 dropped == trace[t].dropped \/ \E h \in of : handler[h].pc # "reply"
                 flushes == IF \E h \in of : handler[h].pc = "flushing" THEN "muddled" ELSE trace[t].flushes
      <4>2. trace'[t] = [trace[t] EXCEPT !.dropped = dropped, !.flushes = flushes]
        BY <1>1 DEF DaemonDies
      <4>3. dropped \in BOOLEAN /\ flushes \in {"none", "clean", "muddled"}
        BY DEF Accounts, ShownShape, TraceShape
      <4> HIDE DEF dropped, flushes
      <4>4. QED
        BY <4>2, <4>3
    <3>2. trace' = [t \in Tickets |-> trace'[t]]
      BY <1>1 DEF DaemonDies
    <3>3. \A t \in Tickets : trace'[t] \in TraceShape
      <4>1. TAKE t \in Tickets
      <4>2. PICK dropped \in BOOLEAN, flushes \in {"none", "clean", "muddled"} :
                trace'[t] = [trace[t] EXCEPT !.dropped = dropped, !.flushes = flushes]
        BY <3>1
      <4>3. trace[t] \in TraceShape
        BY DEF Accounts, ShownShape
      <4>4. [trace[t] EXCEPT !.dropped = dropped, !.flushes = flushes] \in TraceShape
        BY <4>3, TraceUpdated
      <4>5. QED
        BY <4>2, <4>4
    <3>4. QED
      BY <3>2, <3>3
  <2>3. FlushShape'
    BY <2>1, ZeroAmount DEF Accounts, FlushShape, NoFlush
  <2>4. Known'
    BY <2>1 DEF Accounts, Known, NoFlush, NoServe
  <2>5. QED
    BY <2>1, <2>2, <2>3, <2>4 DEF Accounts, BridgeShape, AccountShape, ShownShape
<1>2. CASE BridgeDies
  <2>1. /\ bridge' = [bridge EXCEPT !.phase = "down", !.crashes = @ + 1]
        /\ acc' = [t \in Tickets |-> Fresh] /\ trace' = [t \in Tickets |-> Untraced]
        /\ handler' = [h \in Handlers |-> IF handler[h].pc = "none" THEN NoServe
                                          ELSE [NoServe EXCEPT !.pc = "gone"]]
        /\ flush' = [f \in Flushers |-> NoFlush] /\ todo' = {} /\ UNCHANGED <<fields, parked>>
    BY <1>2 DEF BridgeDies, BridgeCrash
  <2>2. BridgeShape'
    BY <2>1 DEF Accounts, BridgeShape
  <2>3. AccountShape' /\ FlushShape'
    BY <2>1, ZeroAmount DEF AccountShape, AccShape, Fresh, FlushShape, NoFlush
  <2>4. ShownShape' /\ Known'
    BY <2>1 DEF Accounts, ShownShape, TraceShape, Untraced, Known, NoFlush, NoServe
  <2>5. QED
    BY <2>2, <2>3, <2>4 DEF Accounts
<1>3. QED
  BY <1>1, <1>2

LEMMA NextAccounts == Accounts /\ Posting /\ Attached /\ [Next]_vars => Accounts'
<1> SUFFICES ASSUME Accounts, Posting, Attached, [Next]_vars PROVE Accounts'
  OBVIOUS
<1>1. CASE UNCHANGED budgetVars
  BY <1>1 DEF budgetVars, Accounts, BridgeShape, AccountShape, FlushShape, ShownShape, Known
<1>2. CASE BudgetAlone
  BY <1>2, BridgeStepsAccount
<1>3. ASSUME NEW r \in Runs, Arrive(r) \/ Answer(r) \/ TimeOut(r) \/ ConnectionLost(r) PROVE Accounts'
  BY <1>3, ClientStepsAccount
<1>4. CASE DaemonDies \/ BridgeDies
  BY <1>4, DeathsAccount
<1>5. QED
  BY <1>1, <1>2, <1>3, <1>4 DEF Next, vars

\* The deployment's state always has its type; a handler is flushing exactly
\* while its flush is under way.
THEOREM DeploymentTypeCorrect == Spec => []DeploymentTypeOK
<1>1. Init => Accounts
  BY InitAccounts
<1>2. Accounts /\ Posting /\ Attached /\ [Next]_vars => Accounts'
  BY NextAccounts
<1>3. Spec => []Accounts
  BY <1>1, <1>2, AlwaysPosting, PTL DEF Spec
<1>4. Accounts /\ Posting /\ Attached => BudgetTypeOK
  <2> SUFFICES ASSUME Accounts, Posting, Attached PROVE BudgetTypeOK
    OBVIOUS
  <2>1. /\ bridge.phase \in {"up", "down", "refused"}
        /\ acc \in [Tickets -> [pending : [tokens : Nat, cost : Nat],
                                running : [tokens : Nat, cost : Nat], idle : BOOLEAN]]
        /\ flush \in [Flushers -> [pc : {"off", "tokens", "cost"}, ticket : Tickets \cup {None},
                                   total : [tokens : Nat, cost : Nat]]]
        /\ todo \subseteq Tickets /\ parked \subseteq Tickets
        /\ fields \in [Tickets -> [tokens : Nat, cost : Nat]]
    BY DEF Accounts, BridgeShape, AccountShape, AccShape, FlushShape, ShownShape, Amounts
  <2>2. handler \in [Handlers -> [pc : {"none", "capped", "flushing", "transition", "reply", "gone"},
                                  status : {0, 202, 401}, ticket : Tickets \cup {None}]]
    BY DEF Posting, Serving, HandlerShape
  <2>3. \A h \in Handlers : (handler[h].pc = "flushing") = (flush[h].pc # "off")
    BY DEF Attached
  <2>4. QED
    BY <2>1, <2>2, <2>3 DEF BudgetTypeOK
<1>5. Spec => []DaemonTypeOK
  BY DaemonImplemented, DaemonTypeCorrect, PTL
<1>6. QED
  BY <1>3, <1>4, <1>5, AlwaysPosting, PTL DEF DeploymentTypeOK

-----------------------------------------------------------------------------
(* Caps.                                                                   *)

Busy == {"capped", "flushing", "transition"}

BusyFor(h, t) == handler[h].pc \in Busy /\ handler[h].ticket = t

\* A ticket at its cap was asked to move, or a handler is about to ask.
Capped(t) ==
    (bridge.phase = "up" /\ acc[t].running # Zero /\ CapHit(acc[t]) /\ ~trace[t].dropped) =>
        trace[t].asked \/ \E h \in Handlers : BusyFor(h, t)

Capping ==
    /\ bridge.phase # "up" => \A t \in Tickets : acc[t].running = Zero
    /\ \A t \in Tickets : Capped(t)

LEMMA CapHitStays ==
    ASSUME NEW t, bridge' = bridge, acc'[t].running = acc[t].running
    PROVE  CapHit(acc[t])' <=> CapHit(acc[t])
BY DEF CapHit, Loop

\* A ticket stays capped under a step that leaves its total and its traces, and
\* every handler that is about to ask.
LEMMA CappedStays ==
    ASSUME NEW t, Capped(t), bridge' = bridge, acc'[t].running = acc[t].running,
           trace[t].dropped => trace'[t].dropped, trace[t].asked => trace'[t].asked,
           \A h \in Handlers : BusyFor(h, t) => BusyFor(h, t)' \/ trace'[t].dropped \/ trace'[t].asked
    PROVE  Capped(t)'
BY CapHitStays DEF Capped

LEMMA CappingStays ==
    ASSUME Capping, bridge' = bridge, \A t \in Tickets : acc'[t].running = acc[t].running,
           \A t \in Tickets : Capped(t)'
    PROVE  Capping'
BY DEF Capping

LEMMA InitCapping == Init => Capping
<1> SUFFICES ASSUME Init PROVE Capping
  OBVIOUS
<1>1. \A t \in Tickets : acc[t].running = Zero
  BY DEF Init, BudgetInit, Fresh
<1>2. QED
  BY <1>1 DEF Capping, Capped

LEMMA FlushTicketCaps ==
    ASSUME Accounts, NEW f \in Flushers, NEW ticket \in Tickets, FlushTicket(f, ticket)
    PROVE  \A t \in Tickets : /\ acc'[t].running = acc[t].running
                              /\ trace'[t].dropped = trace[t].dropped /\ trace'[t].asked = trace[t].asked
<1>1. CASE acc[ticket].pending = Zero
  BY <1>1 DEF FlushTicket
<1>2. CASE acc[ticket].pending # Zero
  <2>1. PICK kind : /\ acc' = [acc EXCEPT ![ticket].pending = Zero]
                    /\ trace' = [trace EXCEPT ![ticket].flushes = kind]
    BY <1>2 DEF FlushTicket
  <2>2. QED
    BY <2>1 DEF Accounts, AccountShape, AccShape, ShownShape, TraceShape
<1>3. QED
  BY <1>1, <1>2

LEMMA WriteCaps ==
    ASSUME Accounts, NEW f \in Flushers, WriteTokens(f) \/ WriteCost(f)
    PROVE  /\ bridge' = bridge /\ acc' = acc
           /\ \A t \in Tickets : trace'[t].dropped = trace[t].dropped /\ trace'[t].asked = trace[t].asked
<1>1. /\ bridge' = bridge /\ acc' = acc
      /\ trace' = trace \/ trace' = [trace EXCEPT ![flush[f].ticket].flushes = "muddled"]
  BY DEF WriteTokens, WriteCost, WriteField
<1>2. QED
  BY <1>1 DEF Accounts, ShownShape, TraceShape

LEMMA MovedHandler ==
    ASSUME Posting, NEW h \in Handlers, NEW pc \in Busy, handler[h].pc \in Busy,
           handler' = [handler EXCEPT ![h].pc = pc]
    PROVE  \A k \in Handlers, t \in Tickets : BusyFor(k, t) => BusyFor(k, t)'
BY DEF Posting, Serving, HandlerShape, BusyFor

LEMMA BridgeStepsCap ==
    ASSUME Capping, Accounts, Posting, Attached, BudgetAlone
    PROVE  Capping'
<1>1. CASE BridgeStart
  <2>1. UNCHANGED <<acc, trace, handler>> /\ bridge.phase # "up"
    BY <1>1 DEF BridgeStart
  <2>2. QED
    BY <2>1 DEF Capping, Capped
<1>2. CASE ReconcilerTask
  <2>1. /\ handler' = handler /\ bridge' = bridge
        /\ \A t \in Tickets : /\ acc'[t].running = acc[t].running
                              /\ trace'[t].dropped = trace[t].dropped /\ trace'[t].asked = trace[t].asked
    <3>1. handler' = handler
      BY <1>2, ReconcilerAttaches
    <3>2. CASE ReconcilerWakes
      BY <3>1, <3>2 DEF ReconcilerWakes
    <3>3. CASE WriteTokens(Reconciler) \/ WriteCost(Reconciler)
      BY <3>1, <3>3, WriteCaps, HandlersFlush
    <3>4. ASSUME NEW ticket \in Tickets, ReconcilerNext(ticket)
          PROVE  /\ bridge' = bridge
                 /\ \A t \in Tickets : /\ acc'[t].running = acc[t].running
                                       /\ trace'[t].dropped = trace[t].dropped
                                       /\ trace'[t].asked = trace[t].asked
      BY <3>4, FlushTicketCaps, HandlersFlush DEF ReconcilerNext
    <3>5. QED
      BY <1>2, <3>1, <3>2, <3>3, <3>4 DEF ReconcilerTask
  <2>2. \A t \in Tickets : Capped(t)'
    BY <2>1, CappedStays DEF Capping, BusyFor
  <2>3. QED
    BY <2>1, <2>2, CappingStays
<1>3. ASSUME NEW h \in Handlers, CapHitFlush(h) PROVE Capping'
  <2>1. /\ handler[h].pc = "capped" /\ bridge' = bridge /\ FlushTicket(h, handler[h].ticket)
        /\ \E pc \in Busy : handler' = [handler EXCEPT ![h].pc = pc]
    BY <1>3 DEF CapHitFlush, Busy
  <2>2. handler[h].ticket \in Tickets /\ h \in Flushers
    BY <2>1, HandlersFlush DEF Accounts, Known
  <2>3. \A k \in Handlers, t \in Tickets : BusyFor(k, t) => BusyFor(k, t)'
    BY <2>1, MovedHandler DEF Busy
  <2>4. \A t \in Tickets : /\ acc'[t].running = acc[t].running
                           /\ trace'[t].dropped = trace[t].dropped /\ trace'[t].asked = trace[t].asked
    BY <2>1, <2>2, FlushTicketCaps
  <2>5. \A t \in Tickets : Capped(t)'
    BY <2>1, <2>3, <2>4, CappedStays DEF Capping
  <2>6. QED
    BY <2>1, <2>4, <2>5, CappingStays
<1>4. ASSUME NEW h \in Handlers, WriteTokens(h) \/ WriteCost(h) PROVE Capping'
  <2>1. handler[h].pc = "flushing" /\ h \in Flushers
    BY <1>4, WriteFieldAttaches, HandlersFlush DEF Attached
  <2>2. handler' = handler \/ handler' = [handler EXCEPT ![h].pc = "transition"]
    BY <1>4, <2>1, WriteFieldAttaches DEF AfterFlush
  <2>3. \A k \in Handlers, t \in Tickets : BusyFor(k, t) => BusyFor(k, t)'
    <3>1. CASE handler' = handler
      BY <3>1 DEF BusyFor
    <3>2. CASE handler' = [handler EXCEPT ![h].pc = "transition"]
      BY <2>1, <3>2, MovedHandler DEF Busy
    <3>3. QED
      BY <2>2, <3>1, <3>2
  <2>4. /\ bridge' = bridge
        /\ \A t \in Tickets : /\ acc'[t].running = acc[t].running
                              /\ trace'[t].dropped = trace[t].dropped /\ trace'[t].asked = trace[t].asked
    BY <1>4, <2>1, WriteCaps
  <2>5. \A t \in Tickets : Capped(t)'
    BY <2>3, <2>4, CappedStays DEF Capping
  <2>6. QED
    BY <2>4, <2>5, CappingStays
<1>5. ASSUME NEW h \in Handlers, Transition(h) PROVE Capping'
  <2>1. /\ handler[h].pc = "transition" /\ handler' = [handler EXCEPT ![h].pc = "reply"]
        /\ trace' = [trace EXCEPT ![handler[h].ticket].asked = TRUE]
        /\ bridge' = bridge /\ acc' = acc
    BY <1>5 DEF Transition
  <2>2. handler[h].ticket \in Tickets
    BY <2>1 DEF Accounts, Known
  <2>3. /\ trace'[handler[h].ticket].asked
        /\ \A t \in Tickets : /\ trace'[t].dropped = trace[t].dropped
                              /\ trace[t].asked => trace'[t].asked
    BY <2>1, <2>2 DEF Accounts, ShownShape, TraceShape
  <2>4. \A k \in Handlers \ {h} : handler'[k] = handler[k]
    BY <2>1
  <2>5. \A k \in Handlers, t \in Tickets : BusyFor(k, t) => BusyFor(k, t)' \/ trace'[t].asked
    BY <2>3, <2>4 DEF BusyFor
  <2>6. \A t \in Tickets : Capped(t)'
    BY <2>1, <2>3, <2>5, CappedStays DEF Capping
  <2>7. QED
    BY <2>1, <2>6, CappingStays
<1>6. ASSUME NEW ticket \in Tickets, Idle30s(ticket) PROVE Capping'
  <2>1. acc' = [acc EXCEPT ![ticket].idle = TRUE] /\ UNCHANGED <<bridge, handler, trace>>
    BY <1>6 DEF Idle30s
  <2>2. \A t \in Tickets : acc'[t].running = acc[t].running
    BY <2>1 DEF Accounts, AccountShape, AccShape
  <2>3. \A t \in Tickets : Capped(t)'
    BY <2>1, <2>2, CappedStays DEF Capping, BusyFor
  <2>4. QED
    BY <2>1, <2>2, <2>3, CappingStays
<1>7. QED
  BY <1>1, <1>2, <1>3, <1>4, <1>5, <1>6 DEF BudgetAlone

LEMMA ArriveCaps ==
    ASSUME Capping, Accounts, Posting, NEW r \in Runs, Arrive(r)
    PROVE  Capping'
<1> PICK ticket \in Tickets : ticket = run[r].issue
  BY BridgedRuns DEF Arrive, Posting, Queued
<1> PICK a : a = Applied(acc[ticket], event[r])
  OBVIOUS
<1>1. /\ bridge.phase = "up" /\ handler[r].pc = "none" /\ UNCHANGED <<bridge, trace>>
      /\ r \in Handlers
  BY BridgedRuns DEF Arrive, SinfoniaEvents
<1>2. PICK one : handler' = [handler EXCEPT ![r] = one]
  BY DEF Arrive, SinfoniaEvents, ApplySession
<1>3. \A k \in Handlers : k # r => handler'[k] = handler[k]
  BY <1>2 DEF Posting, Serving
<1>4. \A k \in Handlers, t \in Tickets : BusyFor(k, t) => BusyFor(k, t)'
  BY <1>1, <1>3 DEF BusyFor, Busy
<1>5. CASE Verified(event[r])
  <2>1. /\ acc' = [acc EXCEPT ![ticket] = a]
        /\ handler' = [handler EXCEPT ![r] = [pc |-> IF CapHit(a) THEN "capped" ELSE "reply",
                                              status |-> 202, ticket |-> ticket]]
    BY <1>5 DEF Arrive, SinfoniaEvents, ApplySession
  <2>2. acc'[ticket] = a /\ \A t \in Tickets \ {ticket} : acc'[t] = acc[t]
    BY <2>1 DEF Accounts, AccountShape
  <2>3. handler'[r] = [pc |-> IF CapHit(a) THEN "capped" ELSE "reply", status |-> 202, ticket |-> ticket]
    BY <1>1, <2>1 DEF Posting, Serving
  <2>4. Capped(ticket)'
    <3>1. CASE CapHit(a)
      <4>1. BusyFor(r, ticket)'
        BY <2>3, <3>1 DEF BusyFor, Busy
      <4>2. QED
        BY <1>1, <4>1 DEF Capped
    <3>2. CASE ~CapHit(a)
      <4>1. ~CapHit(acc[ticket])'
        BY <1>1, <2>2, <3>2 DEF CapHit, Loop
      <4>2. QED
        BY <4>1 DEF Capped
    <3>3. QED
      BY <3>1, <3>2
  <2>5. \A t \in Tickets \ {ticket} : Capped(t)'
    BY <1>1, <1>4, <2>2, CappedStays DEF Capping
  <2>6. QED
    BY <1>1, <2>4, <2>5 DEF Capping
<1>6. CASE ~Verified(event[r])
  <2>1. acc' = acc
    BY <1>6 DEF Arrive, SinfoniaEvents
  <2>2. \A t \in Tickets : Capped(t)'
    BY <1>1, <1>4, <2>1, CappedStays DEF Capping
  <2>3. QED
    BY <1>1, <2>1, <2>2, CappingStays
<1>7. QED
  BY <1>5, <1>6

LEMMA ClientsLeaveCaps ==
    ASSUME Capping, Accounts, Posting, NEW r \in Runs, Answer(r) \/ TimeOut(r) \/ ConnectionLost(r)
    PROVE  Capping'
<1>1. /\ UNCHANGED <<bridge, acc>> /\ handler' = [handler EXCEPT ![r] = NoServe] /\ r \in Handlers
  BY BridgedRuns DEF Answer, TimeOut, ConnectionLost, Reply, DropHandler
<1>2. \A k \in Handlers \ {r} : handler'[k] = handler[k]
  BY <1>1
<1>3. CASE Answer(r) \/ ConnectionLost(r)
  <2>1. handler[r].pc \notin Busy /\ trace' = trace
    BY <1>3 DEF Answer, ConnectionLost, Reply, Busy
  <2>2. \A k \in Handlers, t \in Tickets : BusyFor(k, t) => BusyFor(k, t)'
    BY <1>2, <2>1 DEF BusyFor
  <2>3. \A t \in Tickets : Capped(t)'
    BY <1>1, <2>1, <2>2, CappedStays DEF Capping
  <2>4. QED
    BY <1>1, <2>3, CappingStays
<1>4. CASE TimeOut(r)
  <2> DEFINE ticket  == handler[r].ticket
             dropped == trace[ticket].dropped \/ handler[r].pc # "reply"
             flushes == IF handler[r].pc = "flushing" THEN "muddled" ELSE trace[ticket].flushes
  <2>1. /\ handler[r].pc \in {"flushing", "transition", "reply"}
        /\ trace' = [trace EXCEPT ![ticket] = [trace[ticket] EXCEPT !.dropped = dropped, !.flushes = flushes]]
    BY <1>4 DEF TimeOut, DropHandler
  <2>2. ticket \in Tickets
    BY <1>1, <2>1 DEF Accounts, Known
  <2>3. trace[ticket] \in TraceShape /\ trace'[ticket] = [trace[ticket] EXCEPT !.dropped = dropped, !.flushes = flushes]
        /\ \A t \in Tickets \ {ticket} : trace'[t] = trace[t]
    BY <2>1, <2>2 DEF Accounts, ShownShape
  <2> HIDE DEF flushes
  <2>4. trace'[ticket].dropped = dropped /\ trace'[ticket].asked = trace[ticket].asked
    BY <2>3 DEF TraceShape
  <2>5. \A t \in Tickets : /\ trace[t].dropped => trace'[t].dropped
                           /\ trace[t].asked => trace'[t].asked
    BY <2>3, <2>4
  <2>6. \A k \in Handlers, t \in Tickets : BusyFor(k, t) => BusyFor(k, t)' \/ trace'[t].dropped
    BY <1>2, <2>4 DEF BusyFor, Busy
  <2>7. \A t \in Tickets : Capped(t)'
    BY <1>1, <2>5, <2>6, CappedStays DEF Capping
  <2>8. QED
    BY <1>1, <2>7, CappingStays
<1>5. QED
  BY <1>3, <1>4

LEMMA DeathsLeaveCaps ==
    ASSUME Capping, Accounts, DaemonDies \/ BridgeDies
    PROVE  Capping'
<1>1. CASE DaemonDies
  <2>1. UNCHANGED <<bridge, acc>> /\ \A h \in Handlers : handler[h].pc # "capped"
    BY <1>1 DEF DaemonDies
  <2>2. ASSUME NEW t \in Tickets PROVE Capped(t)'
    <3> DEFINE of == {h \in Handlers : handler[h].pc # "none" /\ handler[h].ticket = t}
               dropped == trace[t].dropped \/ \E h \in of : handler[h].pc # "reply"
               flushes == IF \E h \in of : handler[h].pc = "flushing" THEN "muddled" ELSE trace[t].flushes
    <3>1. trace'[t] = [trace[t] EXCEPT !.dropped = dropped, !.flushes = flushes] /\ trace[t] \in TraceShape
      BY <1>1 DEF DaemonDies, Accounts, ShownShape
    <3>2. \A h \in Handlers : BusyFor(h, t) => dropped
      BY DEF BusyFor, Busy
    <3>3. trace[t].dropped => dropped
      OBVIOUS
    <3> HIDE DEF dropped, flushes
    <3>4. trace'[t].dropped = dropped /\ trace'[t].asked = trace[t].asked
      BY <3>1 DEF TraceShape
    <3>5. QED
      BY <2>1, <3>2, <3>3, <3>4, CappedStays DEF Capping
  <2>3. QED
    BY <2>1, <2>2, CappingStays
<1>2. CASE BridgeDies
  <2>1. acc' = [t \in Tickets |-> Fresh]
    BY <1>2 DEF BridgeDies, BridgeCrash
  <2>2. \A t \in Tickets : acc'[t].running = Zero
    BY <2>1 DEF Fresh
  <2>3. QED
    BY <2>2 DEF Capping, Capped
<1>3. QED
  BY <1>1, <1>2

LEMMA NextCapping == Capping /\ Accounts /\ Posting /\ Attached /\ [Next]_vars => Capping'
<1> SUFFICES ASSUME Capping, Accounts, Posting, Attached, [Next]_vars PROVE Capping'
  OBVIOUS
<1>1. CASE UNCHANGED budgetVars
  <2>1. \A t \in Tickets : Capped(t)'
    BY <1>1, CappedStays DEF budgetVars, Capping, BusyFor
  <2>2. QED
    BY <1>1, <2>1 DEF budgetVars, Capping
<1>2. CASE BudgetAlone
  BY <1>2, BridgeStepsCap
<1>3. ASSUME NEW r \in Runs, Arrive(r) \/ Answer(r) \/ TimeOut(r) \/ ConnectionLost(r) PROVE Capping'
  BY <1>3, ArriveCaps, ClientsLeaveCaps
<1>4. CASE DaemonDies \/ BridgeDies
  BY <1>4, DeathsLeaveCaps
<1>5. QED
  BY <1>1, <1>2, <1>3, <1>4 DEF Next, vars

LEMMA AlwaysAccounts == Spec => [](Accounts /\ Capping)
<1>1. Init => Accounts /\ Capping
  BY InitAccounts, InitCapping
<1>2. Accounts /\ Capping /\ Posting /\ Attached /\ [Next]_vars => Accounts' /\ Capping'
  BY NextAccounts, NextCapping
<1>3. QED
  BY <1>1, <1>2, AlwaysPosting, PTL DEF Spec

\* No ticket stays at its cap without having been asked to move, unless a
\* handler was dropped on the way: whichever writes of the flush before it
\* fail, for every cost table and every order of sessions (events.rs:177).
THEOREM CapsActedOn == Spec => []CapActedOn
<1>1. Capping => CapActedOn
  BY DEF Capping, Capped, BusyFor, Busy, CapActedOn
<1>2. QED
  BY <1>1, AlwaysAccounts, PTL

-----------------------------------------------------------------------------
(* What the tracker shows.                                                 *)

Writes(f, t) == flush[f].pc # "off" /\ flush[f].ticket = t

OutTokens(t) == acc[t].running.tokens - acc[t].pending.tokens
OutCost(t)   == acc[t].running.cost - acc[t].pending.cost

\* One flush at a time writes what the accumulator has let go of.
Clean(t) ==
    trace[t].flushes = "clean" =>
        /\ \A f, g \in Flushers : Writes(f, t) /\ Writes(g, t) => f = g
        /\ \A f \in Flushers : Writes(f, t) =>
              /\ flush[f].total.tokens = OutTokens(t) /\ flush[f].total.cost = OutCost(t)
              /\ flush[f].pc = "cost" => fields[t].tokens = OutTokens(t)
        /\ (\A f \in Flushers : ~Writes(f, t)) =>
              fields[t].tokens = OutTokens(t) /\ fields[t].cost = CostToString(OutCost(t))

Writing == \A t \in Tickets : Clean(t)

LEMMA CleanStays ==
    ASSUME NEW t, Clean(t), fields'[t] = fields[t],
           OutTokens(t)' = OutTokens(t), OutCost(t)' = OutCost(t),
           trace'[t].flushes = "clean" => trace[t].flushes = "clean",
           \A f \in Flushers : (Writes(f, t)' <=> Writes(f, t)) /\ (Writes(f, t) => flush'[f] = flush[f])
    PROVE  Clean(t)'
<1>1. CostToString(OutCost(t))' = CostToString(OutCost(t))
  BY DEF CostToString
<1>2. QED
  BY <1>1 DEF Clean

LEMMA InitWriting == Init => Writing
BY DEF Init, BudgetInit, Untraced, Writing, Clean

LEMMA FlushTicketWrites ==
    ASSUME Writing, Accounts, NEW f \in Flushers, NEW ticket \in Tickets, FlushTicket(f, ticket),
           flush[f].pc = "off", fields' = fields
    PROVE  Writing'
<1>1. CASE acc[ticket].pending = Zero
  <2>1. UNCHANGED <<acc, flush, trace>>
    BY <1>1 DEF FlushTicket
  <2>2. QED
    BY <2>1, CleanStays DEF Writing, Writes, OutTokens, OutCost
<1>2. CASE acc[ticket].pending # Zero
  <2>1. /\ acc' = [acc EXCEPT ![ticket].pending = Zero]
        /\ flush' = [flush EXCEPT ![f] = [pc |-> "tokens", ticket |-> ticket, total |-> Figures(acc[ticket])]]
        /\ trace' = [trace EXCEPT ![ticket].flushes = IF Flushing(ticket) THEN "muddled" ELSE "clean"]
    BY <1>2 DEF FlushTicket
  <2>2. /\ flush'[f] = [pc |-> "tokens", ticket |-> ticket, total |-> acc[ticket].running]
        /\ \A g \in Flushers \ {f} : flush'[g] = flush[g]
        /\ \A t \in Tickets \ {ticket} : acc'[t] = acc[t] /\ trace'[t] = trace[t]
    BY <2>1 DEF Accounts, FlushShape, AccountShape, ShownShape, Figures
  <2>3. Clean(ticket)'
    <3>1. trace'[ticket].flushes = IF Flushing(ticket) THEN "muddled" ELSE "clean"
      BY <2>1 DEF Accounts, ShownShape, TraceShape
    <3>2. CASE Flushing(ticket)
      BY <3>1, <3>2 DEF Clean
    <3>3. CASE ~Flushing(ticket)
      <4>1. \A g \in Flushers : ~Writes(g, ticket)
        BY <3>3 DEF Flushing, Writes
      <4>2. \A g \in Flushers : Writes(g, ticket)' <=> g = f
        BY <2>2, <4>1 DEF Writes
      <4>3. acc[ticket] \in AccShape /\ acc'[ticket] = [acc[ticket] EXCEPT !.pending = Zero]
        BY <2>1 DEF Accounts, AccountShape
      <4>4. /\ acc'[ticket].running = acc[ticket].running /\ acc'[ticket].pending = Zero
            /\ acc[ticket].running \in Amounts
        BY <4>3 DEF AccShape
      <4>5. OutTokens(ticket)' = acc[ticket].running.tokens /\ OutCost(ticket)' = acc[ticket].running.cost
        BY <4>4 DEF OutTokens, OutCost, Zero, Amounts
      <4>6. QED
        BY <2>2, <4>2, <4>5 DEF Clean
    <3>4. QED
      BY <3>2, <3>3
  <2>4. ASSUME NEW t \in Tickets \ {ticket} PROVE Clean(t)'
    <3>1. \A g \in Flushers : (Writes(g, t)' <=> Writes(g, t)) /\ (Writes(g, t) => flush'[g] = flush[g])
      BY <2>2 DEF Writes
    <3>2. OutTokens(t)' = OutTokens(t) /\ OutCost(t)' = OutCost(t)
      BY <2>2 DEF OutTokens, OutCost
    <3>3. QED
      BY <2>2, <3>1, <3>2, CleanStays DEF Writing
  <2>5. QED
    BY <2>3, <2>4 DEF Writing
<1>3. QED
  BY <1>1, <1>2

\* A write that fails muddles its ticket; one that succeeds is the next of two.
LEMMA WritesGoOn ==
    ASSUME Writing, Accounts, NEW f \in Flushers, WriteTokens(f) \/ WriteCost(f)
    PROVE  Writing'
<1> PICK ticket \in Tickets : ticket = flush[f].ticket /\ flush[f].pc # "off"
  BY DEF WriteTokens, WriteCost, WriteField, Accounts, Known
<1>1. acc' = acc /\ \A t \in Tickets : OutTokens(t)' = OutTokens(t) /\ OutCost(t)' = OutCost(t)
  BY DEF WriteTokens, WriteCost, WriteField, OutTokens, OutCost
<1>2. /\ flush' = [flush EXCEPT ![f] = [@ EXCEPT !.pc = "cost"]] \/ flush' = [flush EXCEPT ![f] = NoFlush]
      /\ \/ fields' = fields
         \/ fields' = [fields EXCEPT ![ticket]["tokens"] = flush[f].total.tokens]
         \/ fields' = [fields EXCEPT ![ticket]["cost"] = CostToString(flush[f].total.cost)]
      /\ trace' = trace \/ trace' = [trace EXCEPT ![ticket].flushes = "muddled"]
  <2>1. CASE WriteTokens(f)
    BY <2>1 DEF WriteTokens, WriteField
  <2>2. CASE WriteCost(f)
    <3>1. PICK value : value = CostToString(flush[f].total.cost)
      OBVIOUS
    <3>2. PICK landed \in BOOLEAN, ok \in BOOLEAN :
              /\ fields' = IF landed THEN [fields EXCEPT ![ticket]["cost"] = value] ELSE fields
              /\ flush' = [flush EXCEPT ![f] = NoFlush]
              /\ trace' = IF ok THEN trace ELSE [trace EXCEPT ![ticket].flushes = "muddled"]
      BY <2>2, <3>1 DEF WriteCost, WriteField
    <3>3. QED
      BY <3>1, <3>2
  <2>3. QED
    BY <2>1, <2>2
<1>3. \A t \in Tickets \ {ticket} : fields'[t] = fields[t] /\ trace'[t] = trace[t]
  <2>1. PICK value : value = CostToString(flush[f].total.cost)
    OBVIOUS
  <2>2. \/ fields' = fields
        \/ fields' = [fields EXCEPT ![ticket]["tokens"] = flush[f].total.tokens]
        \/ fields' = [fields EXCEPT ![ticket]["cost"] = value]
    BY <1>2, <2>1
  <2>3. QED
    BY <1>2, <2>2 DEF Accounts, ShownShape
<1>9. /\ \A g \in Flushers \ {f} : flush'[g] = flush[g]
      /\ flush'[f].pc = "off" \/ (flush'[f].pc = "cost" /\ flush'[f].ticket = ticket
                                  /\ flush'[f].total = flush[f].total)
  BY <1>2 DEF Accounts, FlushShape, NoFlush
<1>4. ASSUME NEW t \in Tickets \ {ticket} PROVE Clean(t)'
  <2>1. \A g \in Flushers : (Writes(g, t)' <=> Writes(g, t)) /\ (Writes(g, t) => flush'[g] = flush[g])
    BY <1>9 DEF Writes
  <2>2. QED
    BY <1>1, <1>3, <2>1, CleanStays DEF Writing
<1>5. Clean(ticket)'
  <2>1. SUFFICES ASSUME trace'[ticket].flushes = "clean" PROVE Clean(ticket)'
    BY DEF Clean
  <2>2. PICK field \in {"tokens", "cost"} :
            /\ trace' = trace
            /\ field = "tokens" <=> flush[f].pc = "tokens"
            /\ fields' = [fields EXCEPT ![ticket][field] =
                             IF field = "tokens" THEN flush[f].total.tokens
                             ELSE CostToString(flush[f].total.cost)]
            /\ IF field = "tokens" THEN flush' = [flush EXCEPT ![f] = [@ EXCEPT !.pc = "cost"]]
               ELSE flush' = [flush EXCEPT ![f] = NoFlush]
    <3>1. CASE WriteTokens(f)
      <4>1. PICK landed \in BOOLEAN, ok \in BOOLEAN :
                /\ ok => landed
                /\ fields' = IF landed THEN [fields EXCEPT ![ticket]["tokens"] = flush[f].total.tokens] ELSE fields
                /\ flush' = [flush EXCEPT ![f] = IF ok THEN [@ EXCEPT !.pc = "cost"] ELSE NoFlush]
                /\ trace' = IF ok THEN trace ELSE [trace EXCEPT ![ticket].flushes = "muddled"]
        BY <3>1 DEF WriteTokens, WriteField
      <4>2. ok
        BY <2>1, <4>1 DEF Accounts, ShownShape, TraceShape
      <4>3. QED
        BY <3>1, <4>1, <4>2 DEF WriteTokens, WriteField
    <3>2. CASE WriteCost(f)
      <4> DEFINE value == CostToString(flush[f].total.cost)
      <4>1. PICK landed \in BOOLEAN, ok \in BOOLEAN :
                /\ ok => landed
                /\ fields' = IF landed THEN [fields EXCEPT ![ticket]["cost"] = value] ELSE fields
                /\ flush' = [flush EXCEPT ![f] = NoFlush]
                /\ trace' = IF ok THEN trace ELSE [trace EXCEPT ![ticket].flushes = "muddled"]
        BY <3>2 DEF WriteCost, WriteField
      <4> HIDE DEF value
      <4>2. ok
        BY <2>1, <4>1 DEF Accounts, ShownShape, TraceShape
      <4>3. QED
        BY <3>2, <4>1, <4>2 DEF WriteCost, WriteField, value
    <3>3. QED
      BY <3>1, <3>2
  <2>3. /\ trace[ticket].flushes = "clean" /\ Writes(f, ticket)
        /\ flush[f].total.tokens = OutTokens(ticket) /\ flush[f].total.cost = OutCost(ticket)
        /\ flush[f].pc = "cost" => fields[ticket].tokens = OutTokens(ticket)
        /\ \A g \in Flushers : Writes(g, ticket) => g = f
    BY <2>1, <2>2 DEF Writing, Clean, Writes
  <2>4. fields[ticket] \in Amounts /\ fields \in [Tickets -> Amounts] /\ flush[f].pc \in {"tokens", "cost"}
    BY DEF Accounts, ShownShape, FlushShape
  <2>5. \A g \in Flushers : Writes(g, ticket)' => g = f
    BY <1>9, <2>3 DEF Writes
  <2>6. CASE flush[f].pc = "tokens"
    <3>1. fields' = [fields EXCEPT ![ticket]["tokens"] = flush[f].total.tokens]
          /\ flush'[f] = [flush[f] EXCEPT !.pc = "cost"]
      BY <2>2, <2>6 DEF Accounts, FlushShape
    <3>2. fields'[ticket].tokens = OutTokens(ticket)
      BY <2>3, <2>4, <3>1 DEF Amounts
    <3>3. Writes(f, ticket)' /\ flush'[f].total = flush[f].total
      BY <3>1 DEF Writes, Accounts, FlushShape
    <3>4. QED
      BY <1>1, <2>3, <2>5, <3>2, <3>3 DEF Clean
  <2>7. CASE flush[f].pc = "cost"
    <3> DEFINE value == CostToString(flush[f].total.cost)
    <3>1. fields' = [fields EXCEPT ![ticket]["cost"] = value] /\ flush'[f] = NoFlush
      BY <2>2, <2>7 DEF Accounts, FlushShape
    <3> HIDE DEF value
    <3>2. fields'[ticket].tokens = fields[ticket].tokens /\ fields'[ticket].cost = value
      BY <2>4, <3>1 DEF Amounts
    <3>3. \A g \in Flushers : ~Writes(g, ticket)'
      BY <2>5, <3>1 DEF Writes, NoFlush
    <3>4. value = CostToString(OutCost(ticket))'
      BY <1>1, <2>3 DEF value, CostToString
    <3>5. QED
      BY <1>1, <2>3, <2>7, <3>2, <3>3, <3>4 DEF Clean
  <2>8. QED
    BY <2>4, <2>6, <2>7
<1>6. QED
  BY <1>4, <1>5 DEF Writing

\* A step that writes nothing and ends no flush but of tickets it muddles.
LEMMA WritingStays ==
    ASSUME Writing, fields' = fields,
           \A t \in Tickets : /\ OutTokens(t)' = OutTokens(t) /\ OutCost(t)' = OutCost(t)
                              /\ trace'[t].flushes = "clean" => trace[t].flushes = "clean",
           \A t \in Tickets : trace'[t].flushes = "clean" =>
               \A f \in Flushers : (Writes(f, t)' <=> Writes(f, t)) /\ (Writes(f, t) => flush'[f] = flush[f])
    PROVE  Writing'
<1> SUFFICES ASSUME NEW t \in Tickets, trace'[t].flushes = "clean" PROVE Clean(t)'
  BY DEF Writing, Clean
<1>1. QED
  BY CleanStays DEF Writing

LEMMA SameFlushes ==
    ASSUME flush' = flush
    PROVE  \A t \in Tickets : \A f \in Flushers :
               (Writes(f, t)' <=> Writes(f, t)) /\ (Writes(f, t) => flush'[f] = flush[f])
BY DEF Writes

LEMMA SameAccounts ==
    ASSUME acc' = acc
    PROVE  \A t \in Tickets : OutTokens(t)' = OutTokens(t) /\ OutCost(t)' = OutCost(t)
BY DEF OutTokens, OutCost

LEMMA BridgeStepsWrite ==
    ASSUME Writing, Accounts, Posting, Attached, BudgetAlone
    PROVE  Writing'
<1>1. CASE BridgeStart \/ ReconcilerWakes
  <2>1. UNCHANGED <<acc, flush, fields, trace>>
    BY <1>1 DEF BridgeStart, ReconcilerWakes
  <2>2. QED
    BY <2>1, SameFlushes, SameAccounts, WritingStays
<1>2. ASSUME NEW t \in Tickets, ReconcilerNext(t) PROVE Writing'
  <2>1. flush[Reconciler].pc = "off" /\ FlushTicket(Reconciler, t) /\ fields' = fields
    BY <1>2 DEF ReconcilerNext
  <2>2. QED
    BY <2>1, HandlersFlush, FlushTicketWrites
<1>3. ASSUME NEW f \in Flushers, WriteTokens(f) \/ WriteCost(f) PROVE Writing'
  BY <1>3, WritesGoOn
<1>4. ASSUME NEW h \in Handlers, CapHitFlush(h) PROVE Writing'
  <2>1. handler[h].pc = "capped" /\ FlushTicket(h, handler[h].ticket) /\ fields' = fields
    BY <1>4 DEF CapHitFlush
  <2>2. handler[h].ticket \in Tickets /\ h \in Flushers /\ flush[h].pc = "off"
    BY <2>1, HandlersFlush DEF Accounts, Known, Attached
  <2>3. QED
    BY <2>1, <2>2, FlushTicketWrites
<1>5. ASSUME NEW h \in Handlers, Transition(h) PROVE Writing'
  <2>1. UNCHANGED <<acc, flush, fields>> /\ trace' = [trace EXCEPT ![handler[h].ticket].asked = TRUE]
    BY <1>5 DEF Transition
  <2>2. \A t \in Tickets : trace'[t].flushes = trace[t].flushes
    BY <2>1 DEF Accounts, ShownShape, TraceShape
  <2>3. QED
    BY <2>1, <2>2, SameFlushes, SameAccounts, WritingStays
<1>6. ASSUME NEW t \in Tickets, Idle30s(t) PROVE Writing'
  <2>1. acc' = [acc EXCEPT ![t].idle = TRUE] /\ UNCHANGED <<flush, fields, trace>>
    BY <1>6 DEF Idle30s
  <2>2. \A u \in Tickets : acc'[u].running = acc[u].running /\ acc'[u].pending = acc[u].pending
    BY <2>1 DEF Accounts, AccountShape, AccShape
  <2>3. \A u \in Tickets : OutTokens(u)' = OutTokens(u) /\ OutCost(u)' = OutCost(u)
    BY <2>2 DEF OutTokens, OutCost
  <2>4. QED
    BY <2>1, <2>3, SameFlushes, WritingStays
<1>7. QED
  BY <1>1, <1>2, <1>3, <1>4, <1>5, <1>6, HandlersFlush DEF BudgetAlone, ReconcilerTask

\* A session adds as much to what is pending as to the total.
LEMMA ArriveWrites ==
    ASSUME Writing, Accounts, Posting, NEW r \in Runs, Arrive(r)
    PROVE  Writing'
<1>1. UNCHANGED <<flush, fields, trace>>
  BY DEF Arrive, SinfoniaEvents
<1>2. CASE Verified(event[r])
  <2> PICK ticket \in Tickets : ticket = run[r].issue
    BY BridgedRuns DEF Arrive, Posting, Queued
  <2> PICK a : a = Applied(acc[ticket], event[r])
    OBVIOUS
  <2>1. acc' = [acc EXCEPT ![ticket] = a]
    BY <1>2 DEF Arrive, SinfoniaEvents, ApplySession
  <2>2. acc'[ticket] = a /\ \A t \in Tickets \ {ticket} : acc'[t] = acc[t]
    BY <2>1 DEF Accounts, AccountShape
  <2>3. acc[ticket] \in AccShape
    BY DEF Accounts, AccountShape
  <2>4. PICK spent \in Amounts : /\ a.pending = Plus(acc[ticket].pending, spent)
                                 /\ a.running = Plus(acc[ticket].running, spent)
    <3>1. event[r].input \in Nat /\ event[r].output \in Nat
      BY DEF Posting, Figured
    <3>2. PICK cost \in Nat : cost = ComputeCost(event[r].provider, event[r].model, event[r].input, event[r].output)
      BY <3>1, ComputedIsNat
    <3>3. [tokens |-> event[r].input + event[r].output, cost |-> cost] \in Amounts
      BY <3>1 DEF Amounts
    <3>4. QED
      BY <3>2, <3>3 DEF Applied
  <2>5. /\ acc[ticket].pending \in Amounts /\ acc[ticket].running \in Amounts
    BY <2>3 DEF AccShape
  <2>6. a.running.tokens - a.pending.tokens = acc[ticket].running.tokens - acc[ticket].pending.tokens
        /\ a.running.cost - a.pending.cost = acc[ticket].running.cost - acc[ticket].pending.cost
    BY <2>4, <2>5 DEF Plus, Amounts
  <2>7. \A t \in Tickets : OutTokens(t)' = OutTokens(t) /\ OutCost(t)' = OutCost(t)
    BY <2>2, <2>6 DEF OutTokens, OutCost
  <2>8. QED
    BY <1>1, <2>7, SameFlushes, WritingStays
<1>3. CASE ~Verified(event[r])
  <2>1. acc' = acc
    BY <1>3 DEF Arrive, SinfoniaEvents
  <2>2. QED
    BY <1>1, <2>1, SameFlushes, SameAccounts, WritingStays
<1>4. QED
  BY <1>2, <1>3

\* A handler that is dropped in its flush muddles its ticket.
LEMMA ClientsWrite ==
    ASSUME Writing, Accounts, Attached, NEW r \in Runs, Answer(r) \/ TimeOut(r) \/ ConnectionLost(r)
    PROVE  Writing'
<1>1. CASE Answer(r) \/ ConnectionLost(r)
  <2>1. UNCHANGED <<acc, flush, fields, trace>>
    BY <1>1 DEF Answer, ConnectionLost, Reply
  <2>2. QED
    BY <2>1, SameFlushes, SameAccounts, WritingStays
<1>2. CASE TimeOut(r)
  <2> PICK ticket : ticket = handler[r].ticket
    OBVIOUS
  <2> DEFINE dropped == trace[ticket].dropped \/ handler[r].pc # "reply"
             flushes == IF handler[r].pc = "flushing" THEN "muddled" ELSE trace[ticket].flushes
  <2>1. /\ handler[r].pc \in {"flushing", "transition", "reply"}
        /\ flush' = [flush EXCEPT ![r] = NoFlush] /\ UNCHANGED <<acc, fields>>
        /\ trace' = [trace EXCEPT ![ticket] = [trace[ticket] EXCEPT !.dropped = dropped, !.flushes = flushes]]
    BY <1>2 DEF TimeOut, DropHandler
  <2>2. ticket \in Tickets /\ r \in Flushers /\ r \in Handlers
    BY <2>1, BridgedRuns, HandlersFlush DEF Accounts, Known
  <2> HIDE DEF dropped
  <2>3. /\ trace'[ticket].flushes = flushes
        /\ \A t \in Tickets \ {ticket} : trace'[t] = trace[t]
    <3> HIDE DEF flushes
    <3>1. trace[ticket] \in TraceShape
      BY <2>2 DEF Accounts, ShownShape
    <3>2. trace'[ticket] = [trace[ticket] EXCEPT !.dropped = dropped, !.flushes = flushes]
      BY <2>1, <2>2 DEF Accounts, ShownShape
    <3>3. QED
      BY <2>1, <2>2, <3>1, <3>2 DEF Accounts, ShownShape, TraceShape
  <2>4. \A f \in Flushers \ {r} : flush'[f] = flush[f]
    BY <2>1 DEF Accounts, FlushShape
  <2>5. ASSUME NEW t \in Tickets, trace'[t].flushes = "clean", NEW f \in Flushers
        PROVE  (Writes(f, t)' <=> Writes(f, t)) /\ (Writes(f, t) => flush'[f] = flush[f])
    <3>1. CASE f # r
      BY <2>4, <3>1 DEF Writes
    <3>2. CASE f = r
      <4>1. ~Writes(f, t)
        <5>1. CASE handler[r].pc = "flushing"
          <6>1. flush[r].ticket = ticket /\ trace'[ticket].flushes = "muddled"
            BY <2>2, <2>3, <5>1 DEF Attached
          <6>2. QED
            BY <2>5, <3>2, <6>1 DEF Writes
        <5>2. CASE handler[r].pc # "flushing"
          BY <2>2, <3>2, <5>2 DEF Attached, Writes
        <5>3. QED
          BY <5>1, <5>2
      <4>2. flush'[r] = NoFlush
        BY <2>1, <2>2 DEF Accounts, FlushShape
      <4>3. ~Writes(f, t)'
        BY <3>2, <4>2 DEF Writes, NoFlush
      <4>4. QED
        BY <4>1, <4>3
    <3>3. QED
      BY <3>1, <3>2
  <2>6. \A t \in Tickets : trace'[t].flushes = "clean" => trace[t].flushes = "clean"
    BY <2>3
  <2>7. QED
    BY <2>1, <2>5, <2>6, SameAccounts, WritingStays
<1>3. QED
  BY <1>1, <1>2

LEMMA DeathsWrite ==
    ASSUME Writing, Accounts, Attached, DaemonDies \/ BridgeDies
    PROVE  Writing'
<1>1. CASE DaemonDies
  <2>1. /\ flush' = [f \in Flushers |-> IF f \in Handlers THEN NoFlush ELSE flush[f]]
        /\ UNCHANGED <<acc, fields>>
    BY <1>1 DEF DaemonDies
  <2>2. ASSUME NEW t \in Tickets
        PROVE  trace'[t].flushes =
                   IF \E h \in Handlers : handler[h].pc = "flushing" /\ handler[h].ticket = t
                   THEN "muddled" ELSE trace[t].flushes
    <3> DEFINE of == {h \in Handlers : handler[h].pc # "none" /\ handler[h].ticket = t}
               dropped == trace[t].dropped \/ \E h \in of : handler[h].pc # "reply"
               flushes == IF \E h \in of : handler[h].pc = "flushing" THEN "muddled" ELSE trace[t].flushes
    <3>1. trace'[t] = [trace[t] EXCEPT !.dropped = dropped, !.flushes = flushes] /\ trace[t] \in TraceShape
      BY <1>1 DEF DaemonDies, Accounts, ShownShape
    <3>2. (\E h \in of : handler[h].pc = "flushing")
          <=> \E h \in Handlers : handler[h].pc = "flushing" /\ handler[h].ticket = t
      OBVIOUS
    <3>3. trace'[t].flushes = flushes
      <4> HIDE DEF dropped, flushes
      <4>1. QED
        BY <3>1 DEF TraceShape
    <3>4. QED
      BY <3>2, <3>3
  <2>3. ASSUME NEW t \in Tickets, trace'[t].flushes = "clean", NEW f \in Flushers
        PROVE  (Writes(f, t)' <=> Writes(f, t)) /\ (Writes(f, t) => flush'[f] = flush[f])
    <3>1. CASE f \notin Handlers
      BY <2>1, <3>1 DEF Writes
    <3>2. CASE f \in Handlers
      <4>1. ~(handler[f].pc = "flushing" /\ handler[f].ticket = t)
        BY <2>2, <2>3, <3>2
      <4>2. ~Writes(f, t)
        BY <3>2, <4>1 DEF Attached, Writes
      <4>3. ~Writes(f, t)'
        BY <2>1, <3>2 DEF Writes, NoFlush
      <4>4. QED
        BY <4>2, <4>3
    <3>3. QED
      BY <3>1, <3>2
  <2>4. \A t \in Tickets : trace'[t].flushes = "clean" => trace[t].flushes = "clean"
    BY <2>2
  <2>5. QED
    BY <2>1, <2>3, <2>4, SameAccounts, WritingStays
<1>2. CASE BridgeDies
  <2>1. trace' = [t \in Tickets |-> Untraced]
    BY <1>2 DEF BridgeDies, BridgeCrash
  <2>2. QED
    BY <2>1 DEF Writing, Clean, Untraced
<1>3. QED
  BY <1>1, <1>2

LEMMA NextWriting == Writing /\ Accounts /\ Posting /\ Attached /\ [Next]_vars => Writing'
<1> SUFFICES ASSUME Writing, Accounts, Posting, Attached, [Next]_vars PROVE Writing'
  OBVIOUS
<1>1. CASE UNCHANGED budgetVars
  <2>1. UNCHANGED <<acc, flush, fields, trace>>
    BY <1>1 DEF budgetVars
  <2>2. QED
    BY <2>1, SameFlushes, SameAccounts, WritingStays
<1>2. CASE BudgetAlone
  BY <1>2, BridgeStepsWrite
<1>3. ASSUME NEW r \in Runs, Arrive(r) \/ Answer(r) \/ TimeOut(r) \/ ConnectionLost(r) PROVE Writing'
  BY <1>3, ArriveWrites, ClientsWrite
<1>4. CASE DaemonDies \/ BridgeDies
  BY <1>4, DeathsWrite
<1>5. QED
  BY <1>1, <1>2, <1>3, <1>4 DEF Next, vars

\* The figures in the tracker are those the accumulator has let go of, for every
\* number of sessions, tickets and requests, whatever arrives while a flush is
\* at work, as long as the ticket's last flush ended well and met no other
\* (feedback/budget.rs:190).
THEOREM FieldsAlwaysMatch == Spec => []FieldsMatch
<1>1. Writing => FieldsMatch
  BY DEF Writing, Clean, Writes, OutTokens, OutCost, Flushing, FieldsMatch
<1>2. Spec => []Writing
  <2>1. Writing /\ Accounts /\ Posting /\ Attached /\ [Next]_vars => Writing'
    BY NextWriting
  <2>2. QED
    BY <2>1, InitWriting, AlwaysPosting, AlwaysAccounts, PTL DEF Spec
<1>3. QED
  BY <1>1, <1>2, PTL

-----------------------------------------------------------------------------
(* What the checks of the bridge tell of its start.                        *)

LEMMA FirstIsOk ==
    ASSUME NEW E, DOMAIN E \subseteq Nat \ {0}, 1 \in DOMAIN E, FirstError(E) = Ok
    PROVE  E[1] = Ok
<1> DEFINE First(i) == E[i] # Ok /\ \A j \in DOMAIN E : j < i => E[j] = Ok
<1>1. CASE \E i \in DOMAIN E : First(i)
  <2>1. E[CHOOSE i \in DOMAIN E : First(i)] # Ok
    BY <1>1
  <2>2. QED
    BY <2>1 DEF FirstError
<1>2. CASE ~ \E i \in DOMAIN E : First(i)
  <2>1. \A j \in DOMAIN E : ~(j < 1)
    OBVIOUS
  <2>2. QED
    BY <1>2, <2>1
<1>3. QED
  BY <1>1, <1>2

LEMMA FirstOfStart ==
    ASSUME NEW a, NEW b, NEW c, NEW d, NEW e
    PROVE  FirstError(<<a, b, c, d, e>>) = IF a # Ok THEN a ELSE IF b # Ok THEN b
                                           ELSE IF c # Ok THEN c ELSE IF d # Ok THEN d ELSE e
<1> DEFINE E == <<a, b, c, d, e>>
           First(i) == E[i] # Ok /\ \A j \in DOMAIN E : j < i => E[j] = Ok
<1>1. DOMAIN E = {1, 2, 3, 4, 5} /\ E[1] = a /\ E[2] = b /\ E[3] = c /\ E[4] = d /\ E[5] = e
  OBVIOUS
<1>2. ASSUME NEW k \in DOMAIN E, First(k) PROVE FirstError(E) = E[k]
  <2>1. \A i \in DOMAIN E : First(i) => i = k
    BY <1>1, <1>2
  <2>2. (CHOOSE i \in DOMAIN E : First(i)) = k
    BY <1>2, <2>1
  <2>3. QED
    BY <1>2, <2>2 DEF FirstError
<1>3. CASE a # Ok
  <2>1. First(1)
    BY <1>1, <1>3
  <2>2. QED
    BY <1>1, <1>2, <1>3, <2>1
<1>4. CASE a = Ok /\ b # Ok
  <2>1. First(2)
    BY <1>1, <1>4
  <2>2. QED
    BY <1>1, <1>2, <1>4, <2>1
<1>5. CASE a = Ok /\ b = Ok /\ c # Ok
  <2>1. First(3)
    BY <1>1, <1>5
  <2>2. QED
    BY <1>1, <1>2, <1>5, <2>1
<1>6. CASE a = Ok /\ b = Ok /\ c = Ok /\ d # Ok
  <2>1. First(4)
    BY <1>1, <1>6
  <2>2. QED
    BY <1>1, <1>2, <1>6, <2>1
<1>7. CASE a = Ok /\ b = Ok /\ c = Ok /\ d = Ok /\ e # Ok
  <2>1. First(5)
    BY <1>1, <1>7
  <2>2. QED
    BY <1>1, <1>2, <1>7, <2>1
<1>8. CASE a = Ok /\ b = Ok /\ c = Ok /\ d = Ok /\ e = Ok
  BY <1>1, <1>8 DEF FirstError
<1>9. QED
  BY <1>3, <1>4, <1>5, <1>6, <1>7, <1>8

LEMMA TrackerErrors ==
    ASSUME NEW t
    PROVE  BuildTracker(t) \in {Ok, "key", "slug", "endpoint"}
<1> DEFINE a == Unless(t.api_key # None, "key")
           b == Unless(t.project_slug # None, "slug")
           c == Unless(t.endpoint # "" /\ t.endpoint \notin BadUrls, "endpoint")
<1>1. a \in {Ok, "key"} /\ b \in {Ok, "slug"} /\ c \in {Ok, "endpoint"}
  BY DEF Unless
<1>2. NewLinear(t) = FirstError(<<a, b>>) /\ NewJira(t) = FirstError(<<a, b, c>>)
  BY DEF NewLinear, NewJira
<1> HIDE DEF a, b, c
<1>3. FirstError(<<a, b>>) \in {a, b}
  BY FirstOfTwo
<1>4. FirstError(<<a, b, c>>) \in {Ok, a, b, c}
  <2> DEFINE E == <<a, b, c>>
             First(i) == E[i] # Ok /\ \A j \in DOMAIN E : j < i => E[j] = Ok
  <2>1. DOMAIN E = {1, 2, 3} /\ E[1] = a /\ E[2] = b /\ E[3] = c
    OBVIOUS
  <2>2. CASE \A i \in DOMAIN E : E[i] = Ok
    BY <2>2 DEF FirstError
  <2>3. CASE ~ \A i \in DOMAIN E : E[i] = Ok
    <3>1. \E i \in DOMAIN E : First(i)
      BY <2>1, <2>3
    <3>2. (CHOOSE i \in DOMAIN E : First(i)) \in DOMAIN E
      BY <3>1
    <3>3. FirstError(E) = E[CHOOSE i \in DOMAIN E : First(i)]
      BY <2>3 DEF FirstError
    <3> HIDE DEF First
    <3>4. QED
      BY <2>1, <3>2, <3>3
  <2>4. QED
    BY <2>2, <2>3
<1>5. QED
  BY <1>1, <1>2, <1>3, <1>4 DEF BuildTracker

LEMMA ReadBridgeAuthorized ==
    ASSUME NEW text, ReadBridgeError(text) = Ok
    PROVE  AuthError(Bridge(text).github) = Ok
<1>1. ReadBridgeError(text) = IF ParseBridgeError(text.config) # Ok THEN ParseBridgeError(text.config)
                              ELSE Validate(ParseBridge(text.config))
  <2>1. text.front \notin {"missing", "none", "unclosed", "malformed", "list", "scalar", "null"}
    BY DEF ReadBridgeError, Ok
  <2>2. QED
    BY <2>1 DEF ReadBridgeError
<1>2. Validate(Bridge(text)) = Ok
  BY <1>1 DEF Bridge
<1> DEFINE cfg  == Bridge(text)
<1> HIDE DEF cfg
<1>3. Validate(cfg) = Ok
  BY <1>2 DEF cfg
<1>4. AuthError(cfg.github) = Ok
  BY <1>3, FirstIsOk DEF Validate
<1>5. QED
  BY <1>4 DEF cfg

LEMMA StartsAfterReading ==
    ASSUME NEW text, ReadBridgeError(text) = Ok, NEW opens \in BOOLEAN, NEW listens \in BOOLEAN
    PROVE  LET bind     == Unless(Bridge(text).server.bind \notin BadUrls, "bind")
               database == Unless(opens, "database")
               tracker  == BuildTracker(Bridge(text).tracker)
               github   == BuildGitHub(Bridge(text).github)
               listen   == Unless(listens, "listen")
           IN  /\ BridgeStartError(text, opens, listens)
                     = IF bind # Ok THEN bind ELSE IF database # Ok THEN database
                       ELSE IF tracker # Ok THEN tracker ELSE IF github # Ok THEN github ELSE listen
               /\ github \in {Ok, "github"}
<1> DEFINE bind     == Unless(Bridge(text).server.bind \notin BadUrls, "bind")
           database == Unless(opens, "database")
           tracker  == BuildTracker(Bridge(text).tracker)
           github   == BuildGitHub(Bridge(text).github)
           listen   == Unless(listens, "listen")
<1>1. BridgeStartError(text, opens, listens) = FirstError(<<bind, database, tracker, github, listen>>)
  BY DEF BridgeStartError
<1>2. github \in {Ok, "github"}
  BY ReadBridgeAuthorized DEF BuildGitHub, Unless
<1> HIDE DEF tracker, github, bind, database, listen
<1>3. FirstError(<<bind, database, tracker, github, listen>>)
        = IF bind # Ok THEN bind ELSE IF database # Ok THEN database
          ELSE IF tracker # Ok THEN tracker ELSE IF github # Ok THEN github ELSE listen
  BY FirstOfStart
<1>4. QED
  BY <1>1, <1>2, <1>3 DEF tracker, github, bind, database, listen

LEMMA SelfTestTells ==
    ASSUME NEW text, SelfTest(text, TRUE, TRUE, TRUE) = 0
    PROVE  BuildGitHub(Bridge(text).github) = Ok /\ BuildTracker(Bridge(text).tracker) = Ok
<1> DEFINE fails(check) ==
        CASE check = "github"  -> BuildGitHub(Bridge(text).github) # Ok \/ ~TRUE
          [] check = "webhook" -> Bridge(text).server.public_url # None /\ ~TRUE
          [] check = "tracker" -> BuildTracker(Bridge(text).tracker) # Ok
                                  \/ (~TRUE /\ (Bridge(text).tracker.kind = "jira"
                                                => Bridge(text).tracker.active_states # {}))
    failed == {check \in {"github", "webhook", "tracker"} : fails(check)}
<1>1. Cardinality(failed) = 0
  BY DEF SelfTest
<1>2. IsFiniteSet(failed)
  <2>1. IsFiniteSet({"github", "webhook", "tracker"})
    <3>1. IsFiniteSet({"github"})
      BY FS_Singleton
    <3>2. IsFiniteSet({"github"} \cup {"webhook"})
      BY <3>1, FS_AddElement
    <3>3. IsFiniteSet(({"github"} \cup {"webhook"}) \cup {"tracker"})
      BY <3>2, FS_AddElement
    <3>4. {"github", "webhook", "tracker"} = ({"github"} \cup {"webhook"}) \cup {"tracker"}
      OBVIOUS
    <3>5. QED
      BY <3>3, <3>4
  <2>2. QED
    BY <2>1, FS_Subset
<1>3. failed = {}
  BY <1>1, <1>2, FS_EmptySet
<1>4. ~fails("github") /\ ~fails("tracker")
  BY <1>3
<1>5. QED
  BY <1>4

\* Whatever the address and the database do, the error is one of that start.
Denied ==
    /\ bridge.file \in DOMAIN BridgeFiles
    /\ bridge.phase = "refused" =>
          /\ bridge.error # Ok
          /\ \E outside \in BOOLEAN \X BOOLEAN : bridge.error = BridgeStarts[bridge.file][outside]

LEMMA BridgeTables ==
    ASSUME NEW name \in DOMAIN BridgeFiles
    PROVE  /\ \A outside \in BOOLEAN \X BOOLEAN :
                 BridgeStarts[name][outside] = BridgeStartError(BridgeFiles[name], outside[1], outside[2])
           /\ BridgeReads[name] = ReadBridgeError(BridgeFiles[name])
<1> DEFINE starts == [n \in DOMAIN BridgeFiles |-> [outside \in BOOLEAN \X BOOLEAN |->
                          BridgeStartError(BridgeFiles[n], outside[1], outside[2])]]
           reads  == [n \in DOMAIN BridgeFiles |-> ReadBridgeError(BridgeFiles[n])]
<1>1. /\ \A outside \in BOOLEAN \X BOOLEAN :
            starts[name][outside] = BridgeStartError(BridgeFiles[name], outside[1], outside[2])
      /\ reads[name] = ReadBridgeError(BridgeFiles[name])
  OBVIOUS
<1> HIDE DEF starts, reads
<1>2. Evaluated(starts) = starts /\ Evaluated(reads) = reads
  BY DEF Evaluated
<1>3. BridgeStarts = Evaluated(starts) /\ BridgeReads = Evaluated(reads)
  BY DEF BridgeStarts, BridgeReads, starts, reads
<1>4. QED
  BY <1>1, <1>2, <1>3

LEMMA NextDenied == Denied /\ Accounts /\ [Next]_vars => Denied'
<1> SUFFICES ASSUME Denied, Accounts, [Next]_vars PROVE Denied'
  OBVIOUS
<1>1. CASE bridge' = bridge
  BY <1>1 DEF Denied
<1>2. CASE BridgeStart
  <2> PICK error \in {BridgeStarts[bridge.file][outside] : outside \in BOOLEAN \X BOOLEAN} :
        \/ error # Ok /\ bridge' = [bridge EXCEPT !.phase = "refused", !.error = error]
        \/ \E fresh \in BOOLEAN :
              bridge' = [bridge EXCEPT !.phase = "up", !.error = Ok, !.costCaps = fresh]
    BY <1>2 DEF BridgeStart
  <2>1. bridge'.file = bridge.file
        /\ (bridge'.phase = "refused" => bridge'.error = error /\ error # Ok)
    BY DEF Accounts, BridgeShape
  <2>2. QED
    BY <2>1 DEF Denied
<1>3. CASE BridgeDies
  BY <1>3 DEF BridgeDies, BridgeCrash, Denied, Accounts, BridgeShape
<1>4. CASE BudgetAlone
  BY <1>2, <1>1, <1>4 DEF BudgetAlone, ReconcilerTask, ReconcilerWakes, ReconcilerNext, WriteTokens, WriteCost,
                          WriteField, CapHitFlush, Transition, Idle30s
<1>5. ASSUME NEW r \in Runs, Arrive(r) \/ Answer(r) \/ TimeOut(r) \/ ConnectionLost(r) PROVE bridge' = bridge
  BY <1>5 DEF Arrive, SinfoniaEvents, Answer, Reply, TimeOut, DropHandler, ConnectionLost
<1>6. CASE DaemonDies \/ UNCHANGED budgetVars
  BY <1>1, <1>6 DEF DaemonDies, budgetVars
<1>7. QED
  BY <1>1, <1>3, <1>4, <1>5, <1>6 DEF Next, vars

\* A bridge that --check accepts is refused at its start only for its address,
\* its database or the credentials of the tracker and of GitHub, and one that
\* --self-test accepts only for its address or its database, which neither of the
\* two looks at: for every BRIDGE.md and every environment, whether or not the
\* database opens and the address is free (selftest.rs:99, main.rs:134).
THEOREM ChecksTellOfBridgeStart == Spec => []ChecksPredictBridgeStart
<1>1. Init => Denied
  <2> SUFFICES ASSUME Init PROVE Denied
    OBVIOUS
  <2>1. PICK fresh \in BOOLEAN, phase \in {"up", "down"} :
            bridge = [phase |-> phase, error |-> Ok, file |-> plan.bridge, costCaps |-> fresh, crashes |-> 0]
    BY DEF Init, BudgetInit
  <2>2. plan \in Plans
    BY DEF Init, DaemonInit
  <2>3. QED
    BY <2>1, <2>2, DeploymentPlans DEF Denied
<1>2. Spec => []Denied
  BY <1>1, NextDenied, AlwaysAccounts, PTL DEF Spec
<1>3. Denied => ChecksPredictBridgeStart
  <2> SUFFICES ASSUME Denied, bridge.phase = "refused", BridgeReads[bridge.file] = Ok
               PROVE  /\ bridge.error \in {"bind", "database", "listen", "key", "slug", "endpoint", "github"}
                      /\ SelfTest(BridgeFiles[bridge.file], TRUE, TRUE, TRUE) = 0
                            => bridge.error \in {"bind", "database", "listen"}
    BY DEF ChecksPredictBridgeStart
  <2> PICK name : name = bridge.file /\ name \in DOMAIN BridgeFiles
    BY DEF Denied
  <2> PICK text : text = BridgeFiles[name]
    OBVIOUS
  <2> PICK opens \in BOOLEAN, listens \in BOOLEAN : bridge.error = BridgeStarts[name][<<opens, listens>>]
    BY DEF Denied
  <2> PICK bind : bind = Unless(Bridge(text).server.bind \notin BadUrls, "bind")
    OBVIOUS
  <2> PICK database : database = Unless(opens, "database")
    OBVIOUS
  <2> PICK tracker : tracker = BuildTracker(Bridge(text).tracker)
    OBVIOUS
  <2> PICK github : github = BuildGitHub(Bridge(text).github)
    OBVIOUS
  <2> PICK listen : listen = Unless(listens, "listen")
    OBVIOUS
  <2>1. ReadBridgeError(text) = Ok /\ bridge.error = BridgeStartError(text, opens, listens)
    <3>1. <<opens, listens>> \in BOOLEAN \X BOOLEAN
      OBVIOUS
    <3>2. QED
      BY <3>1, BridgeTables
  <2>2. bridge.error # Ok
    BY DEF Denied
  <2>3. /\ bridge.error = IF bind # Ok THEN bind ELSE IF database # Ok THEN database
                          ELSE IF tracker # Ok THEN tracker ELSE IF github # Ok THEN github ELSE listen
        /\ github \in {Ok, "github"}
    BY <2>1, StartsAfterReading
  <2>4. /\ tracker \in {Ok, "key", "slug", "endpoint"} /\ bind \in {Ok, "bind"}
        /\ database \in {Ok, "database"} /\ listen \in {Ok, "listen"}
    BY TrackerErrors DEF Unless
  <2>5. SelfTest(text, TRUE, TRUE, TRUE) = 0 => github = Ok /\ tracker = Ok
    BY SelfTestTells
  <2>6. QED
    BY <2>2, <2>3, <2>4, <2>5
<1>4. QED
  BY <1>2, <1>3, PTL
=============================================================================
