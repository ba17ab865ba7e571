------------------------------- MODULE MCMerge -------------------------------
(* Instances of MergeCoordinator for TLC. *)
EXTENDS MergeCoordinator, TLC

CONSTANTS p1, p2, h1, h2

NumberOf == [p \in PRs |-> IF p = p1 THEN 1 ELSE 2]
\* Search only where no check has started and the server is up.
ChecksIdle == boot = "serving" /\ ci = [p \in PRs |-> [k \in Heads |-> "none"]]
Symmetry == Permutations(Handlers)
=============================================================================
