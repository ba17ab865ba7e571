------------------------------ MODULE MCFeedback ------------------------------
(* Instances of Feedback for TLC. *)
EXTENDS Feedback, TLC

CONSTANTS h1, h2, check_suite, workflow_run

\* The two events carry the same to the feedback loop.
Symmetry == Permutations(Handlers) \cup Permutations(Kinds)
\* What is explored: one CI run and both its deliveries for a ticket with two
\* attempts; two runs for a ticket with one attempt, and a third delivery, the one
\* after the ticket is blocked, while no two writers have overlapped.
Bounded ==
    /\ cap > 1 \/ overlapped => Len(runs) <= 1
    /\ overlapped => Cardinality(mail \cup recorded) <= 2
===============================================================================
