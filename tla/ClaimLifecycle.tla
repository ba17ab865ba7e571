--------------------------- MODULE ClaimLifecycle ---------------------------
(***************************************************************************)
(* What the scheduler promises about one issue, whatever its tasks do: the *)
(* claim states of the orchestrator (idle, running, run finished, waiting  *)
(* for a retry, being decided about), one at a time, and never more        *)
(* running issues than slots.  The attempt number counts the requeues      *)
(* since the claim was taken; after a run that ended well the promise is   *)
(* only a continuation, with that number or with 1 (the documents say 1,   *)
(* the code counts on: README, "Divergences").  The promise ends for an    *)
(* issue one of whose runs lost its entry while alive ("disturbed"), until *)
(* the next restart.                                                       *)
(***************************************************************************)
EXTENDS Integers, FiniteSets

CONSTANTS Issues, MaxConcurrent, MaxAttempt

VARIABLES status, attempt

vars == <<status, attempt>>

\* The run of the issue goes on; or it has ended well and nobody has acted on it.
Held == {"running", "finished"}

HoldsSlot == {i \in Issues : status[i] \in Held}

Counted(a) == IF a < MaxAttempt THEN a + 1 ELSE a

Becomes(i, s, a) ==
    /\ status'  = [status EXCEPT ![i] = s]
    /\ attempt' = [attempt EXCEPT ![i] = a]

\* Taken by a poll tick.
Start(i) ==
    /\ status[i] = "unclaimed" /\ Cardinality(HoldsSlot) < MaxConcurrent
    /\ Becomes(i, "running", 0)

\* The run reports that it ended normally.
Finish(i) ==
    /\ status[i] = "running"
    /\ Becomes(i, "finished", attempt[i])

\* A run that ended normally is followed by a continuation.
Continue(i) ==
    /\ status[i] = "finished"
    /\ \E a \in {1, Counted(attempt[i])} : Becomes(i, "queued", a)

\* A run fails or stalls, or a decision does not lead to a run.
Requeue(i) ==
    /\ status[i] \in {"running", "deciding"}
    /\ Becomes(i, "queued", Counted(attempt[i]))

\* The backoff is over.
Decide(i) ==
    /\ status[i] = "queued"
    /\ Becomes(i, "deciding", attempt[i])

\* The retry gets a slot, and keeps its attempt number.
Restart(i) ==
    /\ status[i] = "deciding" /\ Cardinality(HoldsSlot) < MaxConcurrent
    /\ Becomes(i, "running", attempt[i])

\* The ticket is not active any more.
Release(i) ==
    /\ status[i] \in {"running", "deciding"}
    /\ Becomes(i, "unclaimed", 0)

\* The entry of a living run is taken away.
Disturb(i) ==
    /\ status[i] \in Held
    /\ Becomes(i, "disturbed", 0)

\* The daemon starts afresh.
Reboot ==
    /\ status'  = [i \in Issues |-> "unclaimed"]
    /\ attempt' = [i \in Issues |-> 0]

Init == /\ status  = [i \in Issues |-> "unclaimed"]
        /\ attempt = [i \in Issues |-> 0]

Next == \/ Reboot
        \/ \E i \in Issues : Start(i) \/ Finish(i) \/ Continue(i) \/ Requeue(i)
                               \/ Decide(i) \/ Restart(i) \/ Release(i) \/ Disturb(i)

Spec == Init /\ [][Next]_vars
=============================================================================
