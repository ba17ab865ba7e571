----------------------------- MODULE MCScheduler -----------------------------
(* Instances of Scheduler for TLC. *)
EXTENDS Scheduler, TLC

CONSTANTS i1, i2, i3, r1, r2, r3, f1, f2

NoBlockers  == [i \in Issues |-> {}]
RankOfIssue == [i \in Issues |-> IF i = i1 THEN 1 ELSE IF i = i2 THEN 2 ELSE 3]
NoCap       == [s \in {} |-> 0]
SerialCap   == [s \in {"in progress"} |-> 1]
I1BlocksI2  == [i \in Issues |-> IF i = i2 THEN {i1} ELSE {}]
\* Three issues for two slots: the first stays in a state with room for one, the
\* second in another, the third moves; one retry timer and one unread report.
OneMoves ==
    /\ tracker[i1] = "in progress" /\ tracker[i2] = "rework"
    /\ Cardinality({i \in Issues : timers[i] # 0}) <= 1
    /\ Len(reports) <= 1
Symmetry    == Permutations(Runs) \cup Permutations(Fires)
=============================================================================
