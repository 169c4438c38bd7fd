---------------------------- MODULE MCScheduler ----------------------------
(* Up to four processes, created at any point of the others' turns. *)
EXTENDS Scheduler
=============================================================================
