------------------------------- MODULE MCStChat -------------------------------
(* Instances of StChat for TLC. *)
EXTENDS StChat
=============================================================================
