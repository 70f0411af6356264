----------------------------- MODULE MCPayments -----------------------------
(* Values of the constants of Payments for TLC. *)
EXTENDS Payments, TLC

CONSTANTS c1, c2, c3, x1, x2

MCCalls == {c1, c2, c3}
MCCharges == {x1, x2}

\* Calls and charges are interchangeable, and no property is a liveness one.
MCSymmetry == Permutations(MCCalls) \cup Permutations(MCCharges)
=============================================================================
