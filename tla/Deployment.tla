----------------------------- MODULE Deployment -----------------------------
(***************************************************************************)
(* A daemon and a bridge at work: the daemon posts completed sessions to   *)
(* its subscriber, the bridge, which adds them up for their tickets.  An   *)
(* answer can be lost, late or never sent; both processes can stop and     *)
(* start; and the two read their shared secret from files of their own.    *)
(***************************************************************************)
EXTENDS Daemon, Budget

CONSTANTS BridgeUrl   \* where the bridge is registered

ASSUME DeploymentBounds == Handlers = Runs /\ Tickets = Issues /\ Callbacks = {BridgeUrl}
ASSUME DeploymentPlans == \A p \in Plans : p.bridge \in DOMAIN BridgeFiles

vars == <<daemonVars, budgetVars>>

Bridged(r) == <<r, BridgeUrl>>

\* A post reaches the bridge.
Arrive(r) ==
    /\ delivery[Bridged(r)].pc = "sent"
    /\ SinfoniaEvents(r, run[r].issue, event[r])
    /\ UNCHANGED daemonVars

\* Mutant: any answer is a success.
AnswerTaken(r) ==
    /\ delivery[Bridged(r)].pc = "sent" /\ Reply(r)
    /\ Answered(Bridged(r), TRUE)

\* The bridge's answer reaches the daemon: any 2xx is a success.
Answer(r) ==
    /\ delivery[Bridged(r)].pc = "sent" /\ Reply(r)
    /\ Answered(Bridged(r), handler[r].status \in 200..299)

\* After 5 s without an answer the daemon closes the connection.
TimeOut(r) ==
    /\ delivery[Bridged(r)].pc = "sent" /\ DropHandler(r)
    /\ Unanswered(Bridged(r))

\* The bridge is not there, or the post or its answer is lost.
ConnectionLost(r) ==
    /\ delivery[Bridged(r)].pc = "sent" /\ handler[r].pc \in {"none", "gone"}
    /\ Unanswered(Bridged(r))
    /\ handler' = [handler EXCEPT ![r] = NoServe]
    /\ UNCHANGED <<bridge, acc, flush, todo, fields, parked, counted, trace>>

\* When the daemon dies its connections close, and their handlers are dropped,
\* each at an await.
DaemonDies ==
    /\ Crash /\ \A h \in Handlers : handler[h].pc # "capped"
    /\ handler' = [h \in Handlers |-> NoServe]
    /\ flush' = [f \in Flushers |-> IF f \in Handlers THEN NoFlush ELSE flush[f]]
    /\ trace' = [t \in Tickets |->
                    LET of == {h \in Handlers : handler[h].pc # "none" /\ handler[h].ticket = t} IN
                    [trace[t] EXCEPT
                        !.dropped = @ \/ \E h \in of : handler[h].pc # "reply",
                        !.flushes = IF \E h \in of : handler[h].pc = "flushing" THEN "muddled" ELSE @]]
    /\ UNCHANGED <<bridge, acc, todo, fields, parked, counted>>

BridgeDies ==
    /\ BridgeCrash /\ bridge.crashes < plan.crashes
    /\ UNCHANGED daemonVars

Init == DaemonInit /\ BudgetInit(plan.bridge, IF plan.start = "down" THEN "down" ELSE "up")

Next ==
    \/ DaemonAlone /\ UNCHANGED budgetVars
    \/ BudgetAlone /\ UNCHANGED daemonVars
    \/ \E r \in Runs : Arrive(r) \/ Answer(r) \/ TimeOut(r) \/ ConnectionLost(r)
    \/ DaemonDies \/ BridgeDies

\* The bridge's own tasks go on: time passes for each ticket, and the task of
\* the reconciler and the handler of a request, until it is dropped, are
\* scheduled, the timer of the one firing and the tracker client of both
\* answering or timing out.
Fairness ==
    /\ \A t \in Tickets : WF_vars(Idle30s(t) /\ UNCHANGED daemonVars)
    /\ WF_vars(ReconcilerTask /\ UNCHANGED daemonVars)
    /\ \A h \in Handlers :
          WF_vars((CapHitFlush(h) \/ WriteTokens(h) \/ WriteCost(h)) /\ UNCHANGED daemonVars)

Spec == Init /\ [][Next]_vars /\ Fairness

-----------------------------------------------------------------------------
DeploymentTypeOK == DaemonTypeOK /\ BudgetTypeOK

\* A delivery that ended was added up, and no session more often than it was
\* posted; one given up was posted as often as allowed (http/events.rs:232).
DeliveredOrGivenUp ==
    \A r \in Runs :
        LET d == delivery[Bridged(r)] IN
        /\ d.pc = "done" => counted[r] > 0
        /\ counted[r] <= d.attempt
        /\ d.pc = "given_up" => d.attempt = MaxDeliveryAttempts
=============================================================================
