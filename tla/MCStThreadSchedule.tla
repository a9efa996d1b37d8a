-------------------------- MODULE MCStThreadSchedule --------------------------
(* Instances of StThreadSchedule for TLC. *)
EXTENDS StThreadSchedule, TLC

Symmetry == Permutations(Coroutine)
=============================================================================
