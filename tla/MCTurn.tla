------------------------------- MODULE MCTurn -------------------------------
(* Instances of Turn for the model checker. *)
EXTENDS Turn, TLC

CONSTANTS a1, a2, sql, pdf

\* Each specialist has a tool of its own; only a1 may read PDFs with vision.
MCGranted == (a1 :> {sql, pdf}) @@ (a2 :> {sql})
=============================================================================
