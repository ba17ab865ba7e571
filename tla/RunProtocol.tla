----------------------------- MODULE RunProtocol ------------------------------
(***************************************************************************)
(* What the orchestrator and the attempts of an issue promise each other.  *)
(* A run is started for an issue without a running entry, under an         *)
(* identity nobody uses, and holds the entry; it reports at most once, or  *)
(* never, if its task panics.  The orchestrator takes the entry away when  *)
(* it reads a report of the issue, whichever run sent it, or on its own    *)
(* account; the run that held it may live on.  A restart ends everything.  *)
(***************************************************************************)
CONSTANTS Issues, Runs

VARIABLES
    holder,     \* issue -> the run its running entry records, if any
    live,       \* issue -> runs whose task has not ended
    reported    \* issue -> runs whose exit report nobody has read

vars == <<holder, live, reported>>

Used == UNION {live[i] \cup reported[i] : i \in Issues}

\* dispatch_one
Dispatch(i, r) ==
    /\ holder[i] = {} /\ r \notin Used
    /\ holder' = [holder EXCEPT ![i] = {r}]
    /\ live'   = [live EXCEPT ![i] = @ \cup {r}]
    /\ UNCHANGED reported

\* run_worker is over.
Report(i, r) ==
    /\ r \in live[i]
    /\ live'     = [live EXCEPT ![i] = @ \ {r}]
    /\ reported' = [reported EXCEPT ![i] = @ \cup {r}]
    /\ UNCHANGED holder

\* Its task panics.
Panic(i, r) ==
    /\ r \in live[i]
    /\ live' = [live EXCEPT ![i] = @ \ {r}]
    /\ UNCHANGED <<holder, reported>>

\* on_worker_exit
Read(i, r) ==
    /\ r \in reported[i]
    /\ reported' = [reported EXCEPT ![i] = @ \ {r}]
    /\ holder' = [holder EXCEPT ![i] = {}]
    /\ UNCHANGED live

\* A stalled run, or one whose issue is not to be worked on any more.
Forget(i) ==
    /\ holder' = [holder EXCEPT ![i] = {}]
    /\ UNCHANGED <<live, reported>>

Nothing == [i \in Issues |-> {}]

Restart == holder' = Nothing /\ live' = Nothing /\ reported' = Nothing

Init == holder = Nothing /\ live = Nothing /\ reported = Nothing

Next == \/ Restart
        \/ \E i \in Issues :
              \/ Forget(i)
              \/ \E r \in Runs : Dispatch(i, r) \/ Report(i, r) \/ Panic(i, r) \/ Read(i, r)

Spec == Init /\ [][Next]_vars
===============================================================================
