------------------------------- MODULE MCStHooks -------------------------------
(* Instances of StHooks for TLC. *)
EXTENDS StHooks, TLC

Symmetry == Permutations(Thread) \cup Permutations(Fd) \cup Permutations(Item)
=============================================================================
