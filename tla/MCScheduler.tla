---------------------------- MODULE MCScheduler ----------------------------
(* Scheduler for TLC, without symmetry: the run that is large checks liveness. *)
EXTENDS Scheduler
=============================================================================
