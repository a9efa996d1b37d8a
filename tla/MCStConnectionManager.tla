------------------------- MODULE MCStConnectionManager -------------------------
(* Instances of StConnectionManager for TLC. *)
EXTENDS StConnectionManager

Symmetry == Permutations(User) \cup Permutations(Conn) \cup Permutations(Fd)
=============================================================================
