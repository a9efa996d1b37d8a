-------------------------------- MODULE MCStSys --------------------------------
(* Instances of StSys for TLC. *)
EXTENDS StSys
=============================================================================
