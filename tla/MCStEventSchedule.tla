--------------------------- MODULE MCStEventSchedule ---------------------------
(* Instances of StEventSchedule for TLC. *)
EXTENDS StEventSchedule

Symmetry == Permutations(Thread) \cup Permutations(Fd) \cup Permutations(Item)
=============================================================================
