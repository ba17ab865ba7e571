------------------------------- MODULE Budget -------------------------------
(***************************************************************************)
(* The bridge's budgets: its start from BRIDGE.md, the handler of a        *)
(* completed session, the accumulator of a ticket, and the flushes to the  *)
(* tracker that a cap and the reconciler start.  A handler is a task; each *)
(* of its awaits, and of the reconciler's, is where another task may step  *)
(* in or its client may have gone.                                         *)
(***************************************************************************)
EXTENDS BridgeSettings

CONSTANTS
    BridgeFiles,  \* name of a BRIDGE.md -> its text
    Tickets,      \* the issues the tracker knows
    Handlers,     \* requests, each with a handler while it is served
    Reconciler,   \* the reconciler, beside them
    Prices,       \* <<provider, model>> of the cost table -> [input, output]
    PriceNames,   \* provider, in lower case -> its name in the cost table
    CostUnit      \* cost that the written figure rounds to (0.0001 USD)

ASSUME BudgetBounds == CostUnit \in Nat \ {0} /\ Reconciler \notin Handlers

ASSUME BudgetPrices == \A entry \in DOMAIN Prices : Prices[entry] \in [input : Nat, output : Nat]

VARIABLES
    bridge,      \* the process: [phase, error, file, costCaps, crashes]
    acc,         \* ticket -> its accumulator: [pending, running, idle]
    handler,     \* request -> [pc, status, ticket]; "gone" when the bridge died under it
    flush,       \* task -> the flush it is in: [pc, ticket, total]
    todo,        \* the tickets the reconciler has still to flush
    fields,      \* ticket -> what the tracker shows: [tokens, cost]
    parked,      \* tickets in the budget-exceeded state
    counted,     \* ghost: request -> times it was added up
    trace        \* ghost: ticket -> [flushes, asked, dropped] since the start

budgetVars == <<bridge, acc, handler, flush, todo, fields, parked, counted, trace>>

Flushers == Handlers \cup {Reconciler}

Zero     == [tokens |-> 0, cost |-> 0]
Fresh    == [pending |-> Zero, running |-> Zero, idle |-> FALSE]
NoFlush  == [pc |-> "off", ticket |-> None, total |-> Zero]
NoServe  == [pc |-> "none", status |-> 0, ticket |-> None]
Untraced == [flushes |-> "none", asked |-> FALSE, dropped |-> FALSE]

\* By whether the database opens and whether the address can be listened at.
BridgeStarts == Evaluated([name \in DOMAIN BridgeFiles |->
                    [outside \in BOOLEAN \X BOOLEAN |->
                        BridgeStartError(BridgeFiles[name], outside[1], outside[2])]])
BridgeReads  == Evaluated([name \in DOMAIN BridgeFiles |-> ReadBridgeError(BridgeFiles[name])])
Bridges      == Evaluated([name \in DOMAIN BridgeFiles |->
                    IF BridgeReads[name] = Ok THEN <<Bridge(BridgeFiles[name])>> ELSE <<>>])
Loop   == Bridges[bridge.file][1].feedback_loop
Secret == Bridges[bridge.file][1].telemetry.sinfonia_events_secret

-----------------------------------------------------------------------------
(* Cost.                                                                   *)

NormalizeProvider(provider) ==
    LET name == Lower(provider)
    IN  IF name \in DOMAIN PriceNames THEN PriceNames[name] ELSE name

\* A provider or model the table does not know costs nothing.  Models are named
\* without the prefix of their provider.
ComputeCost(provider, model, input, output) ==
    LET entry == <<NormalizeProvider(provider), model>>
    IN  IF entry \in DOMAIN Prices
        THEN Prices[entry].input * input + Prices[entry].output * output ELSE 0

\* Rounded to the nearest unit, and half a unit to the even one.
CostToString(cost) ==
    LET units == cost \div CostUnit
        twice == 2 * (cost % CostUnit)
    IN  IF twice > CostUnit \/ (twice = CostUnit /\ units % 2 = 1) THEN units + 1 ELSE units

Plus(a, b) == [tokens |-> a.tokens + b.tokens, cost |-> a.cost + b.cost]

-----------------------------------------------------------------------------
(* Starting and stopping.                                                  *)

\* Whether the cost table is fresh enough for cost caps is decided at the start.
BridgeStart ==
    /\ bridge.phase # "up"
    /\ \E error \in {BridgeStarts[bridge.file][o] : o \in BOOLEAN \X BOOLEAN} :
       IF error # Ok
       THEN bridge' = [bridge EXCEPT !.phase = "refused", !.error = error]
       ELSE \E fresh \in BOOLEAN :
               bridge' = [bridge EXCEPT !.phase = "up", !.error = Ok, !.costCaps = fresh]
    /\ UNCHANGED <<acc, handler, flush, todo, fields, parked, counted, trace>>

\* Nothing of the accumulators survives, and nothing is read back.
BridgeCrash ==
    /\ bridge.phase = "up"
    /\ bridge' = [bridge EXCEPT !.phase = "down", !.crashes = @ + 1]
    /\ acc' = [t \in Tickets |-> Fresh] /\ trace' = [t \in Tickets |-> Untraced]
    /\ handler' = [h \in Handlers |-> IF handler[h].pc = "none" THEN NoServe
                                       ELSE [NoServe EXCEPT !.pc = "gone"]]
    /\ flush' = [f \in Flushers |-> NoFlush] /\ todo' = {}
    /\ UNCHANGED <<fields, parked, counted>>

-----------------------------------------------------------------------------
(* A completed session arrives.                                            *)

\* Of a bridge without a secret, and of another secret, no event is accepted.
Verified(e) == Secret \notin {None, ""} /\ e.signature = Secret

Applied(a, e) ==
    LET spent == [tokens |-> e.input + e.output,
                  cost   |-> ComputeCost(e.provider, e.model, e.input, e.output)]
    IN  [pending |-> Plus(a.pending, spent), running |-> Plus(a.running, spent), idle |-> FALSE]

CapHit(a) ==
    \/ \E most \in Loop.max_tokens_per_ticket : a.running.tokens >= most
    \/ bridge.costCaps /\ \E most \in Loop.max_cost_per_ticket_usd : a.running.cost >= most

ApplySession(h, ticket, e) ==
    LET a == Applied(acc[ticket], e) IN
    /\ acc' = [acc EXCEPT ![ticket] = a]
    /\ counted' = [counted EXCEPT ![h] = @ + 1]
    /\ handler' = [handler EXCEPT ![h] =
                      [pc |-> IF CapHit(a) THEN "capped" ELSE "reply", status |-> 202,
                       ticket |-> ticket]]

SinfoniaEvents(h, ticket, e) ==
    /\ bridge.phase = "up" /\ handler[h].pc = "none"
    /\ IF Verified(e) THEN ApplySession(h, ticket, e)
       ELSE /\ handler' = [handler EXCEPT ![h] = [pc |-> "reply", status |-> 401, ticket |-> ticket]]
            /\ UNCHANGED <<acc, counted>>
    /\ UNCHANGED <<bridge, flush, todo, fields, parked, trace>>

-----------------------------------------------------------------------------
(* Flushing a ticket: one step under the lock, then two writes.            *)

Flushing(ticket) == \E f \in Flushers : flush[f].pc # "off" /\ flush[f].ticket = ticket

\* Mutant: a flush writes what came since the last one.
FiguresSince(a) == a.pending

\* The tracker shows totals.
Figures(a) == a.running

\* The figures are taken and the pending ones cleared before anything is written.
FlushTicket(f, ticket) ==
    IF acc[ticket].pending = Zero THEN UNCHANGED <<acc, flush, trace>>
    ELSE /\ acc' = [acc EXCEPT ![ticket].pending = Zero]
         /\ flush' = [flush EXCEPT ![f] = [pc |-> "tokens", ticket |-> ticket,
                                           total |-> Figures(acc[ticket])]]
         /\ trace' = [trace EXCEPT ![ticket].flushes =
                         IF Flushing(ticket) THEN "muddled" ELSE "clean"]

\* Mutant: the handler answers as soon as its flush has ended.
AfterFlushReplies(f) ==
    handler' = IF f \in Handlers THEN [handler EXCEPT ![f].pc = "reply"] ELSE handler

\* A handler goes on to the transition however its flush ended.
AfterFlush(f) ==
    handler' = IF f \in Handlers THEN [handler EXCEPT ![f].pc = "transition"] ELSE handler

CapHitFlush(h) ==
    /\ handler[h].pc = "capped"
    /\ FlushTicket(h, handler[h].ticket)
    /\ handler' = [handler EXCEPT ![h].pc =
                      IF acc[handler[h].ticket].pending = Zero THEN "transition" ELSE "flushing"]
    /\ UNCHANGED <<bridge, todo, fields, parked, counted>>

\* A write that fails may have reached the tracker.
WriteField(f, now, field, value, next) ==
    /\ flush[f].pc = now
    /\ \E landed, ok \in BOOLEAN :
          /\ ok => landed
          /\ fields' = IF landed THEN [fields EXCEPT ![flush[f].ticket][field] = value] ELSE fields
          /\ flush' = [flush EXCEPT ![f] = IF ok /\ next # "off" THEN [@ EXCEPT !.pc = next]
                                           ELSE NoFlush]
          /\ IF ok /\ next # "off" THEN UNCHANGED handler ELSE AfterFlush(f)
          /\ trace' = IF ok THEN trace ELSE [trace EXCEPT ![flush[f].ticket].flushes = "muddled"]
    /\ UNCHANGED <<bridge, acc, todo, parked, counted>>

\* Mutant: a flush returns after the first of its two writes.
WriteTokensAlone(f) == WriteField(f, "tokens", "tokens", flush[f].total.tokens, "off")

WriteTokens(f) == WriteField(f, "tokens", "tokens", flush[f].total.tokens, "cost")
WriteCost(f)   == WriteField(f, "cost", "cost", CostToString(flush[f].total.cost), "off")

\* An error of the transition is logged, and the answer is the same.
Transition(h) ==
    /\ handler[h].pc = "transition"
    /\ \E moved \in BOOLEAN :
          parked' = IF moved THEN parked \cup {handler[h].ticket} ELSE parked
    /\ handler' = [handler EXCEPT ![h].pc = "reply"]
    /\ trace' = [trace EXCEPT ![handler[h].ticket].asked = TRUE]
    /\ UNCHANGED <<bridge, acc, flush, todo, fields, counted>>

Reply(h) ==
    /\ handler[h].pc = "reply"
    /\ handler' = [handler EXCEPT ![h] = NoServe]
    /\ UNCHANGED <<bridge, acc, flush, todo, fields, parked, counted, trace>>

\* Mutant: a flush is a task of its own, and outlives its handler.
DropHandlerOnly(h) ==
    /\ handler[h].pc \in {"flushing", "transition", "reply"}
    /\ handler' = [handler EXCEPT ![h] = NoServe] /\ flush' = flush
    /\ LET ticket == handler[h].ticket
           midway == handler[h].pc # "reply"
       IN  trace' = [trace EXCEPT
                        ![ticket].dropped = @ \/ midway,
                        ![ticket].flushes = IF handler[h].pc = "flushing" THEN "muddled" ELSE @]
    /\ UNCHANGED <<bridge, acc, todo, fields, parked, counted>>

\* The client has gone: its handler is dropped at the await it has reached.
DropHandler(h) ==
    /\ handler[h].pc \in {"flushing", "transition", "reply"}
    /\ handler' = [handler EXCEPT ![h] = NoServe] /\ flush' = [flush EXCEPT ![h] = NoFlush]
    /\ LET ticket == handler[h].ticket
           midway == handler[h].pc # "reply"
       IN  trace' = [trace EXCEPT
                        ![ticket].dropped = @ \/ midway,
                        ![ticket].flushes = IF handler[h].pc = "flushing" THEN "muddled" ELSE @]
    /\ UNCHANGED <<bridge, acc, todo, fields, parked, counted>>

-----------------------------------------------------------------------------
(* The reconciler wakes every 5 s for the tickets without a session for    *)
(* 30 s, and flushes them one by one.                                      *)

Idle30s(ticket) ==
    /\ bridge.phase = "up" /\ ~acc[ticket].idle /\ acc[ticket].running # Zero
    /\ acc' = [acc EXCEPT ![ticket].idle = TRUE]
    /\ UNCHANGED <<bridge, handler, flush, todo, fields, parked, counted, trace>>

Candidates == {t \in Tickets : acc[t].pending # Zero /\ acc[t].idle}

ReconcilerWakes ==
    /\ bridge.phase = "up" /\ todo = {} /\ flush[Reconciler].pc = "off" /\ Candidates # {}
    /\ todo' = Candidates
    /\ UNCHANGED <<bridge, acc, handler, flush, fields, parked, counted, trace>>

ReconcilerNext(ticket) ==
    /\ ticket \in todo /\ flush[Reconciler].pc = "off"
    /\ todo' = todo \ {ticket}
    /\ FlushTicket(Reconciler, ticket)
    /\ UNCHANGED <<bridge, handler, fields, parked, counted>>

\* One task: at most one of these is possible at a time.
ReconcilerTask ==
    \/ ReconcilerWakes \/ WriteTokens(Reconciler) \/ WriteCost(Reconciler)
    \/ \E t \in Tickets : ReconcilerNext(t)

-----------------------------------------------------------------------------
BudgetInit(name, phase) ==
    /\ \E fresh \in BOOLEAN :
          /\ phase # "up" => ~fresh
          /\ bridge = [phase |-> phase, error |-> Ok, file |-> name, costCaps |-> fresh, crashes |-> 0]
    /\ acc = [t \in Tickets |-> Fresh] /\ trace = [t \in Tickets |-> Untraced]
    /\ handler = [h \in Handlers |-> NoServe] /\ flush = [f \in Flushers |-> NoFlush]
    /\ todo = {} /\ parked = {} /\ fields = [t \in Tickets |-> Zero]
    /\ counted = [h \in Handlers |-> 0]

\* The steps of the bridge that no client takes part in.
BudgetAlone ==
    \/ BridgeStart \/ ReconcilerTask
    \/ \E h \in Handlers : CapHitFlush(h) \/ WriteTokens(h) \/ WriteCost(h) \/ Transition(h)
    \/ \E t \in Tickets : Idle30s(t)

-----------------------------------------------------------------------------
BudgetTypeOK ==
    /\ bridge.phase \in {"up", "down", "refused"}
    /\ acc \in [Tickets -> [pending : [tokens : Nat, cost : Nat],
                            running : [tokens : Nat, cost : Nat], idle : BOOLEAN]]
    /\ handler \in [Handlers -> [pc : {"none", "capped", "flushing", "transition", "reply", "gone"},
                                 status : {0, 202, 401}, ticket : Tickets \cup {None}]]
    /\ flush \in [Flushers -> [pc : {"off", "tokens", "cost"}, ticket : Tickets \cup {None},
                               total : [tokens : Nat, cost : Nat]]]
    /\ todo \subseteq Tickets /\ parked \subseteq Tickets
    /\ fields \in [Tickets -> [tokens : Nat, cost : Nat]]
    /\ \A h \in Handlers : (handler[h].pc = "flushing") = (flush[h].pc # "off")

\* What the tracker shows of a ticket is what the accumulator has written
\* out, unless its last flush failed, was dropped with its handler or met
\* another flush of the ticket: sessions that arrive while a flush writes
\* are neither lost nor written twice (feedback/budget.rs:190).
FieldsMatch ==
    \A t \in Tickets :
        (bridge.phase = "up" /\ trace[t].flushes = "clean" /\ ~Flushing(t)) =>
            /\ fields[t].tokens = acc[t].running.tokens - acc[t].pending.tokens
            /\ fields[t].cost = CostToString(acc[t].running.cost - acc[t].pending.cost)

\* A ticket at its cap has been asked to move, whatever became of its flush,
\* once no handler of it is under way and none was dropped on the way
\* (events.rs:177).
CapActedOn ==
    \A t \in Tickets :
        (/\ bridge.phase = "up" /\ acc[t].running # Zero /\ CapHit(acc[t]) /\ ~trace[t].dropped
         /\ \A h \in Handlers : handler[h].pc # "none" => handler[h].ticket # t)
        => trace[t].asked

Shown(t) ==
    fields[t] = [tokens |-> acc[t].running.tokens, cost |-> CostToString(acc[t].running.cost)]

\* Consumption that is pending comes to be shown by the tracker, or the bridge
\* stops, or the flush that took it failed, was dropped with its handler or met
\* another one of the ticket: the reconciler goes on after an error and is not
\* starved by new sessions, and each flush it begins is carried through
\* (feedback/budget.rs:197, :300).  A failed flush is not made up for, since
\* nothing is pending any more (budget.rs:207).
PendingFlushed ==
    \A t \in Tickets :
        (acc[t].pending # Zero) ~>
            (\/ bridge.phase # "up"
             \/ acc[t].pending = Zero /\ (Shown(t) \/ trace[t].flushes = "muddled"))

\* What --check and --self-test accept, a start refuses only for what they do
\* not look at: neither of them the address and the database, and --check not
\* the tracker's and GitHub's credentials either (selftest.rs:99, main.rs:126,
\* :134, :211).
ChecksPredictBridgeStart ==
    bridge.phase = "refused" =>
        /\ BridgeReads[bridge.file] = Ok =>
               bridge.error \in {"bind", "database", "listen", "key", "slug", "endpoint", "github"}
        /\ (BridgeReads[bridge.file] = Ok /\ SelfTest(BridgeFiles[bridge.file], TRUE, TRUE, TRUE) = 0)
               => bridge.error \in {"bind", "database", "listen"}
=============================================================================
