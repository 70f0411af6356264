---------------------------- MODULE MCArtifacts ----------------------------
(* Values of the constants of Artifacts for TLC. *)
EXTENDS Artifacts, TLC

CONSTANTS a1, a2, t1, t2, k1, k2

MCArtifacts == {a1, a2}
MCTools == {t1, t2}
MCCompletions == {k1, k2}

\* Ids and calls are interchangeable, and no property is a liveness one.
MCSymmetry == Permutations(MCArtifacts) \cup Permutations(MCTools) \cup Permutations(MCCompletions)
=============================================================================
