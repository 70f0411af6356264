------------------------- MODULE MCReasoningFilter -------------------------
(* Values of the constants of ReasoningFilter for TLC. *)
EXTENDS ReasoningFilter

MCOpen == <<"<", "k", ">">>
MCClose == <<"<", "/", "k", ">">>
=============================================================================
