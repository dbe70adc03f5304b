-------------------------------- MODULE MCHub --------------------------------
(* Hub for TLC, without symmetry: every run of it checks liveness. *)
EXTENDS Hub
=============================================================================
