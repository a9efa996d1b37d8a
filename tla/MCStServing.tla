------------------------------ MODULE MCStServing ------------------------------
(* Instances of StServing for TLC. *)
EXTENDS StServing
=============================================================================
